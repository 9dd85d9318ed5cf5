--------------------------- MODULE TaskWatchProofs ---------------------------
(* What WatchTaskEvent of the four registries keeps for every set of tasks,   *)
(* values and writers and every size of the channel.                          *)
EXTENDS TaskWatch, SequenceTheorems, FiniteSetTheorems, TLAPS

-----------------------------------------------------------------------------
(* An event reaches the reader through the stream of the backend, the hands   *)
(* of the watcher and the channel.  Says(f, d, c, o, t, v): with f on the     *)
(* stream, d in hand, c in the channel and o told of t, the reader will hold  *)
(* v of t when it has read everything that is under way.                      *)
LastSays(s, t, v) ==
  \E k \in DOMAIN s :
    /\ s[k].task = t
    /\ \A j \in DOMAIN s : j >= k /\ s[j].task = t => s[j].value = v

Silent(s, t) == \A k \in DOMAIN s : s[k].task # t

HandSays(d, t, v) == \E e \in d : e.task = t /\ e.type # "Get" /\ e.value = v

HandSilent(d, t) == \A e \in d : e.task = t => e.type = "Get"

Says(f, d, c, o, t, v) ==
  \/ LastSays(f, t, v)
  \/ /\ Silent(f, t)
     /\ \/ HandSays(d, t, v)
        \/ /\ HandSilent(d, t)
           /\ LastSays(c, t, v) \/ (Silent(c, t) /\ o = v)

(* What the reader will hold of t, as things stand. *)
Telling(t, v) == Says(feed, todo, eventChan, told[t], t, v)

(* The watcher has one event of a task in hand at a time. *)
OneEach(d) == \A e, g \in d : e.task = g.task => e = g

(* Where each kind of event and of half-done write occurs. *)
Shape ==
  /\ OneEach(todo)
  /\ \A k \in DOMAIN feed : feed[k].type # "Get"
  /\ backend \in {"consul", "zookeeper"} => feed = <<>>
  /\ backend \in {"etcd", "redis"} => ~ fired
  /\ \A e \in todo : e.type = "Get" => backend = "zookeeper" /\ e = Get(e.task)
  /\ \A w \in Writer :
       /\ writer[w].op = "Publish" => backend = "redis"
       /\ writer[w].op \in {"Set", "Create"} => backend = "zookeeper"
  /\ watch \in {"off", "initial"} => feed = <<>>
  /\ watch = "off" => todo = {} /\ eventChan = <<>> /\ told = Nothing

Active == watch \in {"initial", "watching"}

(* etcd and Redis: what is under way tells of what is stored. *)
StreamTells ==
  Active /\ backend \in {"etcd", "redis"} =>
    \A t \in Task \ missed : Telling(t, stored[t])

(* Consul: it tells of the snapshot, which is the store's unless a query is due. *)
ConsulTells ==
  Active /\ backend = "consul" =>
    /\ \A t \in Task : Telling(t, snapshot[t])
    /\ watch = "watching" /\ ~ fired => snapshot = stored

(* ZooKeeper: a name that is not listed is told to be gone, of one that is     *)
(* listed the data is told or still to be read, and the list of names is right *)
(* unless the watch has fired.                                                 *)
ZkTells ==
  Active /\ backend = "zookeeper" =>
    \A t \in Task :
      /\ snapshot[t] = None => Telling(t, None)
      /\ snapshot[t] # None /\ stored[t] # None /\ t \notin missed =>
           Get(t) \in todo \/ Telling(t, stored[t])
      /\ (snapshot[t] = None) # (stored[t] = None) => fired
      /\ Get(t) \in todo => snapshot[t] # None

WatchInv == TypeOK /\ Shape /\ StreamTells /\ ConsulTells /\ ZkTells

(* The watch is up and nothing is under way. *)
Quiet == watch = "watching" /\ feed = <<>> /\ ~ fired /\ todo = {} /\ eventChan = <<>>

(* Then the reader holds what the registry holds of every task that was not    *)
(* missed, and with Consul and ZooKeeper no task that is gone.                  *)
QuietIsTold ==
  Quiet =>
    /\ \A t \in Task \ missed : told[t] = stored[t]
    /\ backend \in {"consul", "zookeeper"} => \A t \in Task : told[t] # None => t \in Stored

-----------------------------------------------------------------------------
(* Lemmas on sequences of events. *)

(* What is appended decides, and where it is silent the earlier events do. *)
LEMMA ConcatSays ==
  ASSUME NEW s \in Seq(Event), NEW u \in Seq(Event), NEW t, NEW v
  PROVE  /\ s \o u \in Seq(Event)
         /\ LastSays(u, t, v) => LastSays(s \o u, t, v)
         /\ Silent(u, t) /\ LastSays(s, t, v) => LastSays(s \o u, t, v)
         /\ Silent(u, t) /\ Silent(s, t) => Silent(s \o u, t)
  <1> DEFINE c == s \o u
  <1>1. /\ c \in Seq(Event) /\ Len(c) = Len(s) + Len(u)
        /\ \A i \in 1 .. Len(s) + Len(u) :
             c[i] = IF i <= Len(s) THEN s[i] ELSE u[i - Len(s)]
    BY ConcatProperties
  <1>2. PICK m \in Nat : m = Len(s) /\ DOMAIN s = 1 .. m
    OBVIOUS
  <1>3. PICK n \in Nat : n = Len(u) /\ DOMAIN u = 1 .. n
    OBVIOUS
  <1>4. DOMAIN c = 1 .. m + n
    BY <1>1, <1>2, <1>3
  <1>5. /\ \A i \in 1 .. m : i \in DOMAIN c /\ c[i] = s[i]
        /\ \A i \in 1 .. n : m + i \in DOMAIN c /\ c[m + i] = u[i]
        /\ \A i \in DOMAIN c : i > m => i - m \in 1 .. n /\ c[i] = u[i - m]
    BY <1>1, <1>2, <1>3, <1>4
  <1> HIDE DEF c
  <1>6. LastSays(u, t, v) => LastSays(c, t, v)
    <2> SUFFICES ASSUME LastSays(u, t, v)
                 PROVE  LastSays(c, t, v)
      OBVIOUS
    <2>1. PICK k \in 1 .. n : /\ u[k].task = t
                              /\ \A j \in 1 .. n : j >= k /\ u[j].task = t => u[j].value = v
      BY <1>3 DEF LastSays
    <2>2. ASSUME NEW j \in DOMAIN c, j >= m + k, c[j].task = t
          PROVE  c[j].value = v
      <3>1. j \in Nat /\ j > m
        BY <1>4, <2>2
      <3>2. j - m \in 1 .. n /\ c[j] = u[j - m]
        BY <1>5, <3>1
      <3>3. j - m >= k
        BY <2>2, <3>1
      <3> QED
        BY <2>1, <2>2, <3>2, <3>3
    <2>3. m + k \in DOMAIN c /\ c[m + k].task = t
      BY <1>5, <2>1
    <2> QED
      BY <2>2, <2>3 DEF LastSays
  <1>7. Silent(u, t) /\ LastSays(s, t, v) => LastSays(c, t, v)
    <2> SUFFICES ASSUME Silent(u, t), LastSays(s, t, v)
                 PROVE  LastSays(c, t, v)
      OBVIOUS
    <2>1. PICK k \in 1 .. m : /\ s[k].task = t
                              /\ \A j \in 1 .. m : j >= k /\ s[j].task = t => s[j].value = v
      BY <1>2 DEF LastSays
    <2>2. ASSUME NEW j \in DOMAIN c, j >= k, c[j].task = t
          PROVE  c[j].value = v
      <3>1. j \in 1 .. m
        BY <1>3, <1>4, <1>5, <2>2 DEF Silent
      <3> QED
        BY <1>5, <2>1, <2>2, <3>1
    <2>3. k \in DOMAIN c /\ c[k].task = t
      BY <1>5, <2>1
    <2> QED
      BY <2>2, <2>3 DEF LastSays
  <1>8. Silent(u, t) /\ Silent(s, t) => Silent(c, t)
    <2> SUFFICES ASSUME Silent(u, t), Silent(s, t), NEW j \in DOMAIN c
                 PROVE  c[j].task # t
      BY DEF Silent
    <2>1. CASE j > m
      BY <1>3, <1>5, <2>1 DEF Silent
    <2>2. CASE ~ (j > m)
      <3>1. j \in 1 .. m
        BY <1>4, <2>2
      <3> QED
        BY <1>2, <1>5, <3>1 DEF Silent
    <2> QED
      BY <2>1, <2>2
  <1> QED
    BY <1>1, <1>6, <1>7, <1>8 DEF c

(* A sequence of one event, and the empty sequence. *)
LEMMA OneSays ==
  ASSUME NEW e \in Event
  PROVE  /\ <<e>> \in Seq(Event)
         /\ LastSays(<<e>>, e.task, e.value)
         /\ \A t : t # e.task => Silent(<<e>>, t)
  <1>1. <<e>> \in Seq(Event) /\ DOMAIN <<e>> = {1} /\ <<e>>[1] = e
    OBVIOUS
  <1> QED
    BY <1>1 DEF LastSays, Silent

LEMMA EmptySays ==
  /\ <<>> \in Seq(Event)
  /\ \A t : Silent(<<>>, t)
  /\ \A t, v : ~ LastSays(<<>>, t, v)
  <1>1. DOMAIN <<>> = {}
    OBVIOUS
  <1> QED
    BY <1>1 DEF LastSays, Silent

(* The head leaves: what it says counts where the rest is silent. *)
LEMMA TailSays ==
  ASSUME NEW s \in Seq(Event), s # <<>>, NEW t, NEW v
  PROVE  /\ Tail(s) \in Seq(Event) /\ Head(s) \in Event
         /\ Len(Tail(s)) = Len(s) - 1 /\ Head(s) = s[1]
         /\ LastSays(s, t, v) =>
              \/ LastSays(Tail(s), t, v)
              \/ Silent(Tail(s), t) /\ Head(s).task = t /\ Head(s).value = v
         /\ Silent(s, t) => Silent(Tail(s), t) /\ Head(s).task # t
  <1> DEFINE r == Tail(s)
  <1>1. PICK n \in Nat : n = Len(s) /\ DOMAIN s = 1 .. n /\ n > 0
    BY EmptySeq
  <1>2. /\ r \in Seq(Event) /\ Head(s) \in Event /\ Head(s) = s[1]
        /\ Len(r) = n - 1 /\ DOMAIN r = 1 .. n - 1
        /\ \A i \in 1 .. n - 1 : r[i] = s[i + 1]
    BY <1>1
  <1> HIDE DEF r
  <1>3. /\ \A i \in DOMAIN r : i + 1 \in DOMAIN s /\ r[i] = s[i + 1] /\ i \in Nat
        /\ \A i \in DOMAIN s : i > 1 => i - 1 \in DOMAIN r /\ r[i - 1] = s[i]
        /\ 1 \in DOMAIN s
    BY <1>1, <1>2
  <1>4. ASSUME LastSays(s, t, v)
        PROVE  LastSays(r, t, v) \/ (Silent(r, t) /\ Head(s).task = t /\ Head(s).value = v)
    <2>1. PICK k \in DOMAIN s : /\ s[k].task = t
                                /\ \A j \in DOMAIN s : j >= k /\ s[j].task = t => s[j].value = v
      BY <1>4 DEF LastSays
    <2>2. CASE k > 1
      <3>1. ASSUME NEW j \in DOMAIN r, j >= k - 1, r[j].task = t
            PROVE  r[j].value = v
        <4>1. j + 1 \in DOMAIN s /\ r[j] = s[j + 1] /\ j + 1 >= k
          BY <1>1, <1>3, <3>1
        <4> QED
          BY <2>1, <3>1, <4>1
      <3>2. k - 1 \in DOMAIN r /\ r[k - 1].task = t
        BY <1>3, <2>1, <2>2
      <3> QED
        BY <3>1, <3>2 DEF LastSays
    <2>3. CASE k = 1
      <3>1. ASSUME NEW j \in DOMAIN r, r[j].task = t
            PROVE  LastSays(r, t, v)
        <4>1. ASSUME NEW i \in DOMAIN r, i >= j, r[i].task = t
              PROVE  r[i].value = v
          <5>1. i + 1 \in DOMAIN s /\ r[i] = s[i + 1] /\ i + 1 >= k
            BY <1>3, <2>3
          <5> QED
            BY <2>1, <4>1, <5>1
        <4> QED
          BY <3>1, <4>1 DEF LastSays
      <3>2. Head(s).task = t /\ Head(s).value = v
        BY <1>2, <2>1, <2>3
      <3> QED
        BY <3>1, <3>2 DEF Silent
    <2> QED
      BY <1>1, <2>2, <2>3
  <1>5. Silent(s, t) => Silent(r, t) /\ Head(s).task # t
    BY <1>2, <1>3 DEF Silent
  <1> QED
    BY <1>1, <1>2, <1>4, <1>5 DEF r

(* SetToSeq of a finite set lists each element. *)
LEMMA SetToSeqLists ==
  ASSUME NEW S, IsFiniteSet(S)
  PROVE  /\ SetToSeq(S) \in Seq(S)
         /\ \A x \in S : \E k \in DOMAIN SetToSeq(S) : SetToSeq(S)[k] = x
         /\ \A k \in DOMAIN SetToSeq(S) : SetToSeq(S)[k] \in S
  <1> DEFINE n == Cardinality(S)
             f == SetToSeq(S)
  <1>1. n \in Nat /\ ExistsBijection(1 .. n, S)
    BY FS_CardinalityType
  <1>2. PICK b : b \in Bijection(1 .. n, S)
    BY <1>1 DEF ExistsBijection
  <1>3. b \in [1 .. n -> S] /\ IsInjective(b)
    BY <1>2 DEF Bijection, Injection
  <1>4. f \in [1 .. n -> S] /\ IsInjective(f)
    BY <1>3 DEF SetToSeq
  <1>5. f \in Injection(1 .. n, S)
    BY <1>4 DEF Injection
  <1>6. IsFiniteSet(1 .. n) /\ Cardinality(1 .. n) = n
    BY <1>1, FS_Interval
  <1>7. f \in Surjection(1 .. n, S)
    BY <1>5, <1>6, FS_Injection
  <1> HIDE DEF n, f
  <1>8. f \in Seq(S) /\ DOMAIN f = 1 .. n
    BY <1>1, <1>4
  <1>9. \A x \in S : \E k \in 1 .. n : f[k] = x
    BY <1>7 DEF Surjection
  <1> QED
    BY <1>4, <1>8, <1>9 DEF f

(* The deletions of a transaction of etcd tell of the tasks in S and of no other. *)
LEMMA DeletesSay ==
  ASSUME NEW S \in SUBSET Task
  PROVE  /\ SetToSeq({Delete(t) : t \in S}) \in Seq(Event)
         /\ \A k \in DOMAIN SetToSeq({Delete(t) : t \in S}) :
              SetToSeq({Delete(t) : t \in S})[k].type = "Delete"
         /\ \A t \in S : LastSays(SetToSeq({Delete(u) : u \in S}), t, None)
         /\ \A t : t \notin S => Silent(SetToSeq({Delete(u) : u \in S}), t)
  <1> DEFINE D == {Delete(t) : t \in S}
             f == [t \in S |-> Delete(t)]
             s == SetToSeq(D)
  <1>1. IsFiniteSet(S)
    BY WatchAssumption, FS_Subset
  <1>2. f \in Surjection(S, D)
    BY DEF Surjection
  <1>3. IsFiniteSet(D)
    BY <1>1, <1>2, FS_Surjection
  <1>4. \A t : /\ Delete(t).task = t /\ Delete(t).value = None /\ Delete(t).type = "Delete"
               /\ t \in Task => Delete(t) \in Event
    BY DEF Delete, Event
  <1>5. D \in SUBSET Event /\ \A e \in D : e.type = "Delete" /\ e.value = None /\ e.task \in S
    BY <1>4
  <1>6. \A t \in S : Delete(t) \in D
    OBVIOUS
  <1> HIDE DEF D
  <1>7. /\ s \in Seq(D)
        /\ \A x \in D : \E k \in DOMAIN s : s[k] = x
        /\ \A k \in DOMAIN s : s[k] \in D
    BY <1>3, SetToSeqLists
  <1> HIDE DEF s
  <1>8. s \in Seq(Event)
    BY <1>5, <1>7, SeqMonotonic
  <1>9. \A t \in S : LastSays(s, t, None)
    BY <1>4, <1>5, <1>6, <1>7 DEF LastSays
  <1>10. \A t : t \notin S => Silent(s, t)
    BY <1>5, <1>7 DEF Silent
  <1> QED
    BY <1>5, <1>7, <1>8, <1>9, <1>10 DEF s, D

-----------------------------------------------------------------------------
(* What each step of an event on its way does to Says. *)

(* The backend sends more. *)
LEMMA FeedSays ==
  ASSUME NEW f \in Seq(Event), NEW u \in Seq(Event), NEW d, NEW c, NEW o, NEW t, NEW v
  PROVE  /\ LastSays(u, t, v) => Says(f \o u, d, c, o, t, v)
         /\ Silent(u, t) /\ Says(f, d, c, o, t, v) => Says(f \o u, d, c, o, t, v)
  BY ConcatSays DEF Says

(* The watcher receives the next. *)
LEMMA ReceiveSays ==
  ASSUME NEW f \in Seq(Event), f # <<>>, Head(f).type # "Get",
         NEW c, NEW o, NEW t, NEW v, Says(f, {}, c, o, t, v)
  PROVE  Says(Tail(f), {Head(f)}, c, o, t, v)
  BY TailSays DEF Says, HandSays, HandSilent

(* A message is lost that tells of another task. *)
LEMMA LostSays ==
  ASSUME NEW f \in Seq(Event), f # <<>>, NEW d, NEW c, NEW o, NEW t, NEW v,
         Head(f).task # t, Says(f, d, c, o, t, v)
  PROVE  Says(Tail(f), d, c, o, t, v)
  BY TailSays DEF Says

(* The watcher sends an event. *)
LEMMA SendSays ==
  ASSUME NEW f, NEW d \in SUBSET Event, OneEach(d), NEW c \in Seq(Event), NEW o, NEW t, NEW v,
         NEW e \in d, e.type # "Get", Says(f, d, c, o, t, v)
  PROVE  Says(f, d \ {e}, Append(c, e), o, t, v)
  <1>1. e \in Event /\ <<e>> \in Seq(Event)
        /\ LastSays(<<e>>, e.task, e.value) /\ (t # e.task => Silent(<<e>>, t))
    BY OneSays
  <1>2. Append(c, e) = c \o <<e>>
    BY <1>1, AppendIsConcat
  <1>3. /\ e.task = t /\ e.value = v => LastSays(Append(c, e), t, v)
        /\ e.task # t /\ LastSays(c, t, v) => LastSays(Append(c, e), t, v)
        /\ e.task # t /\ Silent(c, t) => Silent(Append(c, e), t)
    BY <1>1, <1>2, ConcatSays
  <1>4. CASE e.task = t
    <2>1. HandSilent(d \ {e}, t) /\ ~ HandSilent(d, t)
      BY <1>4 DEF OneEach, HandSilent
    <2>2. HandSays(d, t, v) => e.value = v
      BY <1>4 DEF OneEach, HandSays
    <2> QED
      BY <1>3, <1>4, <2>1, <2>2 DEF Says
  <1>5. CASE e.task # t
    <2>1. /\ HandSays(d, t, v) => HandSays(d \ {e}, t, v)
          /\ HandSilent(d, t) => HandSilent(d \ {e}, t)
      BY <1>5 DEF HandSays, HandSilent
    <2> QED
      BY <1>3, <1>5, <2>1 DEF Says
  <1> QED
    BY <1>4, <1>5

(* The reader reads an event. *)
LEMMA ReadSays ==
  ASSUME NEW f, NEW d, NEW c \in Seq(Event), c # <<>>, NEW o, NEW t, NEW v,
         Says(f, d, c, o, t, v)
  PROVE  Says(f, d, Tail(c), IF t = Head(c).task THEN Head(c).value ELSE o, t, v)
  BY TailSays DEF Says

(* The watcher takes up events that say nothing of t. *)
LEMMA TakeUpSays ==
  ASSUME NEW f, NEW d, NEW c, NEW o, NEW t, NEW v, \A e \in d : e.task # t,
         Says(f, {}, c, o, t, v)
  PROVE  Says(f, d, c, o, t, v)
  BY DEF Says, HandSays, HandSilent

(* An event in hand decides where nothing comes after it. *)
LEMMA InHandSays ==
  ASSUME NEW d, NEW c, NEW o, NEW e \in d, e.type # "Get"
  PROVE  Says(<<>>, d, c, o, e.task, e.value)
  BY EmptySays DEF Says, HandSays

(* A name whose data is still to be read says nothing: it can be passed over, *)
(* or replaced by its data.                                                   *)
LEMMA GetSays ==
  ASSUME NEW f, NEW d, NEW c, NEW o, NEW t, NEW v, NEW e \in d, e.type = "Get",
         Says(f, d, c, o, t, v)
  PROVE  /\ Says(f, d \ {e}, c, o, t, v)
         /\ \A p : p.task # t => Says(f, (d \ {e}) \cup {p}, c, o, t, v)
  BY DEF Says, HandSays, HandSilent

(* Nothing is under way. *)
LEMMA EmptyQuiet ==
  ASSUME NEW o, NEW t, NEW v
  PROVE  Says(<<>>, {}, <<>>, o, t, v) <=> o = v
  BY EmptySays DEF Says, HandSays, HandSilent

-----------------------------------------------------------------------------
(* Type correctness. *)

(* The events that the model makes. *)
LEMMA EventTypes ==
  /\ \A t \in Task, v \in Value : Put(t, v) \in Event
  /\ \A t \in Task : Delete(t) \in Event /\ Get(t) \in Event
  /\ \A t, v : /\ Put(t, v).type = "Put" /\ Put(t, v).task = t /\ Put(t, v).value = v
               /\ Delete(t).type = "Delete" /\ Delete(t).task = t /\ Delete(t).value = None
               /\ Get(t).type = "Get" /\ Get(t).task = t /\ Get(t).value = None
  BY DEF Put, Delete, Get, Event

(* A write in two calls has its task and its value. *)
LEMMA PendingTypes ==
  /\ \A p \in Pending : p.op \in {"Set", "Create", "Publish"} =>
                          p.task \in Task /\ p.value \in Value
  /\ \A o \in {"Set", "Create", "Publish"}, t \in Task, v \in Value :
       [op |-> o, task |-> t, value |-> v] \in Pending
  /\ Idle \in Pending /\ Idle.op = "idle"
  BY DEF Pending, Idle

(* A change of the registry keeps the types of what it reaches. *)
LEMMA ChangeType ==
  ASSUME TypeOK, NEW S, NEW events \in Seq(Event), NEW wakes \in BOOLEAN,
         NEW lost \in SUBSET Task, Change(S, events, wakes, lost)
  PROVE  feed' \in Seq(Event) /\ fired' \in BOOLEAN /\ missed' \in SUBSET Task
  <1>1. feed' \in Seq(Event)
    BY ConcatProperties DEF TypeOK, Change
  <1>2. fired' \in BOOLEAN
    BY DEF TypeOK, Change
  <1> QED
    BY <1>1, <1>2 DEF TypeOK, Change

(* What a write leaves alone. *)
LEMMA WriteType ==
  ASSUME TypeOK, backend' = backend, UNCHANGED watcherVars,
         stored' \in [Task -> Value \cup {None}], writer' \in [Writer -> Pending],
         feed' \in Seq(Event) /\ fired' \in BOOLEAN /\ missed' \in SUBSET Task,
         ops' \in 0 .. MaxOps
  PROVE  TypeOK'
  BY DEF TypeOK, watcherVars

LEMMA SpendType ==
  ASSUME TypeOK, Spend
  PROVE  ops' \in 0 .. MaxOps
  BY WatchAssumption DEF TypeOK, Spend

(* The steps of the writers. *)
LEMMA WriterType ==
  ASSUME TypeOK,
         \/ \E t \in Task, v \in Value :
              \/ EtcdPutTask(t, v) \/ ConsulPutTask(t, v)
              \/ \E w \in Writer : HSet(w, t, v) \/ Exists(w, t, v)
         \/ \E w \in Writer : publishTaskEvent(w) \/ SetOrCreate(w)
         \/ \E S \in SUBSET Task :
              \/ EtcdForceCleanup(S) \/ ConsulForceCleanup(S)
              \/ RedisForceCleanup(S) \/ ZkForceCleanup(S)
  PROVE  TypeOK'
  <1>0. \A t \in Task, v \in Value :
          [stored EXCEPT ![t] = v] \in [Task -> Value \cup {None}]
    BY DEF TypeOK
  <1>1. \A w \in Writer, q \in Pending : [writer EXCEPT ![w] = q] \in [Writer -> Pending]
    BY DEF TypeOK
  <1>2. <<>> \in Seq(Event) /\ \A e \in Event : <<e>> \in Seq(Event)
    OBVIOUS
  <1>3. stored \in [Task -> Value \cup {None}] /\ writer \in [Writer -> Pending]
        /\ ops \in 0 .. MaxOps
    BY DEF TypeOK
  <1>4. ASSUME NEW t \in Task, NEW v \in Value, EtcdPutTask(t, v)
        PROVE  TypeOK'
    <2>1. Unwatched({t}) \in SUBSET Task /\ <<Put(t, v)>> \in Seq(Event)
      BY <1>2, EventTypes DEF Unwatched
    <2>2. feed' \in Seq(Event) /\ fired' \in BOOLEAN /\ missed' \in SUBSET Task
      BY <1>4, <2>1, ChangeType DEF EtcdPutTask
    <2> QED
      BY <1>0, <1>3, <1>4, <2>2, SpendType, WriteType DEF EtcdPutTask
  <1>5. ASSUME NEW t \in Task, NEW v \in Value, ConsulPutTask(t, v)
        PROVE  TypeOK'
    <2>0. Change({t}, <<>>, TRUE, {}) /\ TRUE \in BOOLEAN /\ {} \in SUBSET Task
      BY <1>5 DEF ConsulPutTask
    <2>1. feed' \in Seq(Event) /\ fired' \in BOOLEAN /\ missed' \in SUBSET Task
      BY <1>2, <2>0, ChangeType, Zenon
    <2> QED
      BY <1>0, <1>3, <1>5, <2>1, SpendType, WriteType DEF ConsulPutTask
  <1>6. ASSUME NEW t \in Task, NEW v \in Value, NEW w \in Writer, HSet(w, t, v)
        PROVE  TypeOK'
    <2>1. feed' \in Seq(Event) /\ fired' \in BOOLEAN /\ missed' \in SUBSET Task
      BY <1>2, <1>6, ChangeType DEF HSet
    <2>2. writer' \in [Writer -> Pending]
      BY <1>1, <1>6, PendingTypes DEF HSet
    <2> QED
      BY <1>0, <1>6, <2>1, <2>2, SpendType, WriteType DEF HSet
  <1>7. ASSUME NEW t \in Task, NEW v \in Value, NEW w \in Writer, Exists(w, t, v)
        PROVE  TypeOK'
    <2>1. writer' \in [Writer -> Pending]
      BY <1>1, <1>7, PendingTypes DEF Exists
    <2>2. ops' \in 0 .. MaxOps
      BY <1>7, SpendType DEF Exists
    <2> QED
      BY <1>7, <2>1, <2>2 DEF TypeOK, Exists, watcherVars
  <1>8. ASSUME NEW w \in Writer, publishTaskEvent(w)
        PROVE  TypeOK'
    <2>1. writer[w].task \in Task /\ writer[w].value \in Value
      BY <1>3, <1>8, PendingTypes DEF publishTaskEvent
    <2>2. <<Put(writer[w].task, writer[w].value)>> \in Seq(Event)
      BY <1>2, <2>1, EventTypes
    <2>3. PICK events \in Seq(Event), lost \in SUBSET Task :
            Change({writer[w].task}, events, FALSE, lost)
      BY <1>2, <1>8, <2>1, <2>2 DEF publishTaskEvent
    <2>4. feed' \in Seq(Event) /\ fired' \in BOOLEAN /\ missed' \in SUBSET Task
      BY <2>3, ChangeType
    <2>5. writer' \in [Writer -> Pending]
      BY <1>1, <1>8, PendingTypes DEF publishTaskEvent
    <2> QED
      BY <1>3, <1>8, <2>4, <2>5, WriteType DEF publishTaskEvent
  <1>9. ASSUME NEW w \in Writer, SetOrCreate(w)
        PROVE  TypeOK'
    <2>1. writer[w].task \in Task /\ writer[w].value \in Value
      BY <1>3, <1>9, PendingTypes DEF SetOrCreate
    <2>2. writer' \in [Writer -> Pending]
      BY <1>1, <1>9, PendingTypes DEF SetOrCreate
    <2>3. /\ stored' \in [Task -> Value \cup {None}]
          /\ feed' \in Seq(Event) /\ fired' \in BOOLEAN /\ missed' \in SUBSET Task
      <3>1. CASE UNCHANGED <<stored, feed, fired, missed>>
        BY <3>1 DEF TypeOK
      <3>2. CASE ~ UNCHANGED <<stored, feed, fired, missed>>
        <4>1. /\ stored' = [stored EXCEPT ![writer[w].task] = writer[w].value]
              /\ \E wakes \in BOOLEAN, lost \in SUBSET Task :
                   Change({writer[w].task}, <<>>, wakes, lost)
          BY <1>9, <2>1, <3>2 DEF SetOrCreate
        <4>2. feed' \in Seq(Event) /\ fired' \in BOOLEAN /\ missed' \in SUBSET Task
          BY <1>2, <4>1, ChangeType, Zenon
        <4> QED
          BY <1>0, <2>1, <4>1, <4>2
      <3> QED
        BY <3>1, <3>2
    <2> QED
      BY <1>3, <1>9, <2>2, <2>3, WriteType DEF SetOrCreate
  <1>10. ASSUME NEW S \in SUBSET Task, CleanUp(S),
                \E events \in Seq(Event), wakes \in BOOLEAN, lost \in SUBSET Task :
                  Change(S, events, wakes, lost)
         PROVE  TypeOK'
    <2>1. feed' \in Seq(Event) /\ fired' \in BOOLEAN /\ missed' \in SUBSET Task
      BY <1>10, ChangeType
    <2>2. stored' \in [Task -> Value \cup {None}]
      BY <1>3, <1>10 DEF CleanUp
    <2> QED
      BY <1>3, <1>10, <2>1, <2>2, SpendType, WriteType DEF CleanUp
  <1>11. ASSUME NEW S \in SUBSET Task, EtcdForceCleanup(S)
         PROVE  TypeOK'
    <2>1. Unwatched(S) \in SUBSET Task
      BY DEF Unwatched
    <2> QED
      BY <1>10, <1>11, <2>1, DeletesSay DEF EtcdForceCleanup
  <1>12. ASSUME NEW S \in SUBSET Task,
                ConsulForceCleanup(S) \/ RedisForceCleanup(S) \/ ZkForceCleanup(S)
         PROVE  TypeOK'
    <2>1. (watch # "off") \in BOOLEAN
      OBVIOUS
    <2> QED
      BY <1>2, <1>10, <1>12, <2>1
         DEF ConsulForceCleanup, RedisForceCleanup, ZkForceCleanup
  <1> QED
    BY <1>4, <1>5, <1>6, <1>7, <1>8, <1>9, <1>11, <1>12

(* What the watcher compares are events. *)
LEMMA DiffType ==
  ASSUME TypeOK
  PROVE  /\ Diff \in SUBSET Event
         /\ {Put(t, stored[t]) : t \in Stored} \in SUBSET Event
         /\ {Get(t) : t \in Stored} \in SUBSET Event
  <1>1. Stored \in SUBSET Task /\ \A t \in Stored : stored[t] \in Value
    BY DEF TypeOK, Stored
  <1>2. {Put(t, stored[t]) : t \in Stored} \in SUBSET Event
    BY <1>1, EventTypes
  <1>3. {Get(t) : t \in Stored} \in SUBSET Event
    BY <1>1, EventTypes
  <1>4. ConsulDiff \in SUBSET Event
    BY <1>1, EventTypes DEF ConsulDiff
  <1>5. ZkDiff \in SUBSET Event
    BY <1>1, EventTypes DEF ZkDiff
  <1> QED
    BY <1>2, <1>3, <1>4, <1>5 DEF Diff

(* WatchTaskEvent is called. *)
LEMMA OpenType ==
  ASSUME TypeOK, WatchTaskEvent
  PROVE  TypeOK'
  <1>1. Stored \in SUBSET Task /\ Nothing \in [Task -> Value \cup {None}]
        /\ stored \in [Task -> Value \cup {None}]
    BY DEF TypeOK, Stored, Nothing
  <1>2. /\ todo' \in SUBSET Event /\ missed' \in SUBSET Task
        /\ snapshot' \in [Task -> Value \cup {None}] /\ watch' = "initial"
        /\ UNCHANGED <<registryVars, feed, fired, eventChan, told, ops>>
    BY <1>1, DiffType
       DEF WatchTaskEvent, EtcdWatchTaskEvent, RedisWatchTaskEvent, ConsulWatchTaskEvent,
           ZkWatchTaskEvent, Open
  <1>3. returned' \in BOOLEAN
    BY DEF WatchTaskEvent, EtcdWatchTaskEvent, RedisWatchTaskEvent, ConsulWatchTaskEvent,
           ZkWatchTaskEvent, Open
  <1> QED
    BY <1>2, <1>3 DEF TypeOK, registryVars

(* The steps of the watcher and of the reader. *)
LEMMA WatcherType ==
  ASSUME TypeOK, WatcherStep \/ WatchLost \/ MessageLost \/ handleTaskEvent
  PROVE  TypeOK'
  <1>1. CASE WatchTaskEvent
    BY <1>1, OpenType
  <1>2. CASE StartWatch
    <2>1. returned' \in BOOLEAN /\ fired' \in BOOLEAN
      BY <1>2 DEF TypeOK, StartWatch
    <2> QED
      BY <1>2, <2>1 DEF TypeOK, StartWatch, registryVars
  <1>3. CASE Compare
    <2>1. fired' \in BOOLEAN
      BY <1>3 DEF Compare
    <2> QED
      BY <1>3, <2>1, DiffType DEF TypeOK, Compare, registryVars
  <1>4. CASE EtcdReceive \/ RedisReceive
    <2>1. feed \in Seq(Event) /\ feed # <<>>
      BY <1>4 DEF TypeOK, EtcdReceive, RedisReceive, Receive
    <2>2. Tail(feed) \in Seq(Event) /\ Head(feed) \in Event
      BY <2>1, TailSays
    <2> QED
      BY <1>4, <2>2 DEF TypeOK, EtcdReceive, RedisReceive, Receive, registryVars
  <1>5. ASSUME NEW e \in todo, GetData(e)
        PROVE  TypeOK'
    <2>1. e \in Event /\ e.task \in Task
      BY DEF TypeOK, Event
    <2>2. e.task \in Stored => Put(e.task, stored[e.task]) \in Event
      BY <2>1, EventTypes DEF TypeOK, Stored
    <2>3. todo' \in SUBSET Event /\ missed' \in SUBSET Task
      BY <1>5, <2>1, <2>2 DEF TypeOK, GetData
    <2>4. ops' \in 0 .. MaxOps
      BY <1>5, SpendType DEF TypeOK, GetData
    <2> QED
      BY <1>5, <2>3, <2>4 DEF TypeOK, GetData, registryVars
  <1>6. ASSUME NEW e \in todo, Send(e)
        PROVE  TypeOK'
    <2>1. e \in Event /\ eventChan \in Seq(Event)
      BY DEF TypeOK
    <2>2. eventChan' \in Seq(Event) /\ Len(eventChan') = Len(eventChan) + 1
      BY <1>6, <2>1, AppendProperties DEF Send
    <2>3. Len(eventChan) + 1 <= ChanSize[backend]
      BY <1>6, <2>1, WatchAssumption DEF TypeOK, Send, Room
    <2> QED
      BY <1>6, <2>2, <2>3 DEF TypeOK, Send, registryVars
  <1>7. CASE WatchLost
    <2>1. ops' \in 0 .. MaxOps
      BY <1>7, SpendType DEF WatchLost
    <2> QED
      BY <1>7, <2>1 DEF TypeOK, WatchLost, registryVars
  <1>8. CASE MessageLost
    <2>1. feed \in Seq(Event) /\ feed # <<>>
      BY <1>8 DEF TypeOK, MessageLost
    <2>2. Tail(feed) \in Seq(Event) /\ Head(feed) \in Event
      BY <2>1, TailSays
    <2>3. Head(feed).task \in Task
      BY <2>2 DEF Event
    <2>4. ops' \in 0 .. MaxOps
      BY <1>8, SpendType DEF MessageLost
    <2> QED
      BY <1>8, <2>2, <2>3, <2>4 DEF TypeOK, MessageLost, registryVars
  <1>9. CASE handleTaskEvent
    <2>1. eventChan \in Seq(Event) /\ eventChan # <<>>
      BY <1>9 DEF TypeOK, handleTaskEvent
    <2>2. Tail(eventChan) \in Seq(Event) /\ Head(eventChan) \in Event
          /\ Len(Tail(eventChan)) = Len(eventChan) - 1
      BY <2>1, TailSays
    <2>3. Len(Tail(eventChan)) <= ChanSize[backend]
      BY <2>1, <2>2, WatchAssumption DEF TypeOK
    <2>4. told' \in [Task -> Value \cup {None}]
      BY <1>9, <2>2 DEF TypeOK, handleTaskEvent, Event
    <2> QED
      BY <1>9, <2>2, <2>3, <2>4 DEF TypeOK, handleTaskEvent, registryVars
  <1> QED
    BY <1>1, <1>2, <1>3, <1>4, <1>5, <1>6, <1>7, <1>8, <1>9 DEF WatcherStep

(* Every step keeps the types. *)
LEMMA TypeStep == TypeOK /\ [Next]_vars => TypeOK'
  <1> SUFFICES ASSUME TypeOK, [Next]_vars
               PROVE  TypeOK'
    OBVIOUS
  <1>1. CASE Next
    BY <1>1, WriterType, WatcherType, Zenon DEF Next
  <1>2. CASE UNCHANGED vars
    BY <1>2 DEF TypeOK, vars
  <1> QED
    BY <1>1, <1>2

LEMMA InitType == Init => TypeOK
  <1> SUFFICES ASSUME Init
               PROVE  TypeOK
    OBVIOUS
  <1>1. stored \in [Task -> Value \cup {None}]
    BY DEF Init
  <1>2. returned \in BOOLEAN /\ fired \in BOOLEAN
    BY DEF Init
  <1>3. Len(eventChan) = 0 /\ eventChan \in Seq(Event) /\ feed \in Seq(Event)
    BY DEF Init
  <1>4. 0 <= ChanSize[backend] /\ ops \in 0 .. MaxOps
    BY WatchAssumption DEF Init
  <1> QED
    BY <1>1, <1>2, <1>3, <1>4 DEF Init, TypeOK, Nothing, Pending

(* Every variable holds a value of its type, and no watcher ever puts more     *)
(* events into its channel than the channel has room for.                      *)
THEOREM WatchTypeCorrect == Spec => []TypeOK
  BY InitType, TypeStep, PTL DEF Spec

-----------------------------------------------------------------------------
(* Where each kind of event and of half-done write occurs. *)

WriterShape ==
  \A w \in Writer :
    /\ writer[w].op = "Publish" => backend = "redis"
    /\ writer[w].op \in {"Set", "Create"} => backend = "zookeeper"

(* A change of the registry, whoever makes it. *)
LEMMA ChangeShape ==
  ASSUME TypeOK, Shape, NEW S, NEW events \in Seq(Event), NEW wakes, NEW lost,
         Change(S, events, wakes, lost),
         \A k \in DOMAIN events : events[k].type # "Get",
         backend \in {"consul", "zookeeper"} => events = <<>>,
         backend \in {"etcd", "redis"} => ~ wakes,
         backend' = backend, UNCHANGED watcherVars, WriterShape'
  PROVE  Shape'
  <1>1. feed \in Seq(Event)
    BY DEF TypeOK
  <1>2. \A k \in DOMAIN (feed \o events) : (feed \o events)[k].type # "Get"
    <2>1. PICK m \in Nat : m = Len(feed) /\ DOMAIN feed = 1 .. m
      BY <1>1
    <2>2. PICK n \in Nat : n = Len(events) /\ DOMAIN events = 1 .. n
      OBVIOUS
    <2>3. /\ DOMAIN (feed \o events) = 1 .. m + n
          /\ \A i \in 1 .. m + n :
               (feed \o events)[i] = IF i <= m THEN feed[i] ELSE events[i - m]
      BY <1>1, <2>1, <2>2, ConcatProperties
    <2> SUFFICES ASSUME NEW k \in 1 .. m + n
                 PROVE  (feed \o events)[k].type # "Get"
      BY <2>3
    <2>4. CASE k <= m
      <3>1. k \in DOMAIN feed
        BY <2>1, <2>4
      <3> QED
        BY <2>3, <2>4, <3>1 DEF Shape
    <2>5. CASE ~ (k <= m)
      <3>1. k - m \in DOMAIN events
        BY <2>2, <2>5
      <3> QED
        BY <2>3, <2>5, <3>1
    <2> QED
      BY <2>4, <2>5
  <1>3. feed \o <<>> = feed
    BY <1>1, ConcatEmptySeq
  <1>4. /\ \A k \in DOMAIN feed' : feed'[k].type # "Get"
        /\ backend' \in {"consul", "zookeeper"} => feed' = <<>>
        /\ watch' \in {"off", "initial"} => feed' = <<>>
    BY <1>2, <1>3 DEF Change, Shape, watcherVars
  <1>5. backend' \in {"etcd", "redis"} => ~ fired'
    BY DEF Change, Shape
  <1> QED
    BY <1>4, <1>5 DEF Shape, WriterShape, watcherVars

(* The writes that no other half follows leave the halves of others alone. *)
LEMMA WriterShapeKept ==
  ASSUME TypeOK, Shape, backend' = backend
  PROVE  /\ writer' = writer => WriterShape'
         /\ \A w \in Writer : writer' = [writer EXCEPT ![w] = Idle] => WriterShape'
         /\ \A w \in Writer : \A t, v :
              /\ backend = "redis"
              /\ writer' = [writer EXCEPT ![w] = [op |-> "Publish", task |-> t, value |-> v]]
              => WriterShape'
         /\ \A w \in Writer, o \in {"Set", "Create"} : \A t, v :
              /\ backend = "zookeeper"
              /\ writer' = [writer EXCEPT ![w] = [op |-> o, task |-> t, value |-> v]]
              => WriterShape'
  <1>1. WriterShape /\ writer \in [Writer -> Pending]
    BY DEF Shape, WriterShape, TypeOK
  <1> QED
    BY <1>1 DEF WriterShape, Idle

(* The steps of the writers. *)
LEMMA WriterKeepsShape ==
  ASSUME TypeOK, Shape,
         \/ \E t \in Task, v \in Value :
              \/ EtcdPutTask(t, v) \/ ConsulPutTask(t, v)
              \/ \E w \in Writer : HSet(w, t, v) \/ Exists(w, t, v)
         \/ \E w \in Writer : publishTaskEvent(w) \/ SetOrCreate(w)
         \/ \E S \in SUBSET Task :
              \/ EtcdForceCleanup(S) \/ ConsulForceCleanup(S)
              \/ RedisForceCleanup(S) \/ ZkForceCleanup(S)
  PROVE  Shape'
  <1>1. /\ <<>> \in Seq(Event) /\ \A k \in DOMAIN <<>> : <<>>[k].type # "Get"
        /\ \A t \in Task, v \in Value :
             <<Put(t, v)>> \in Seq(Event)
             /\ \A k \in DOMAIN <<Put(t, v)>> : <<Put(t, v)>>[k].type # "Get"
    BY EventTypes
  <1>2. ASSUME NEW t \in Task, NEW v \in Value, EtcdPutTask(t, v)
        PROVE  Shape'
    BY <1>1, <1>2, ChangeShape, WriterShapeKept DEF EtcdPutTask
  <1>3. ASSUME NEW t \in Task, NEW v \in Value, ConsulPutTask(t, v)
        PROVE  Shape'
    BY <1>1, <1>3, ChangeShape, WriterShapeKept DEF ConsulPutTask
  <1>4. ASSUME NEW t \in Task, NEW v \in Value, NEW w \in Writer, HSet(w, t, v)
        PROVE  Shape'
    BY <1>1, <1>4, ChangeShape, WriterShapeKept DEF HSet
  <1>5. ASSUME NEW t \in Task, NEW v \in Value, NEW w \in Writer, Exists(w, t, v)
        PROVE  Shape'
    <2>1. WriterShape'
      BY <1>5, WriterShapeKept DEF Exists
    <2> QED
      BY <1>5, <2>1 DEF Exists, Shape, WriterShape, watcherVars
  <1>6. ASSUME NEW w \in Writer, publishTaskEvent(w)
        PROVE  Shape'
    <2>1. writer[w].task \in Task /\ writer[w].value \in Value /\ backend = "redis"
      BY <1>6, PendingTypes DEF publishTaskEvent, TypeOK, Shape
    <2>2. WriterShape'
      BY <1>6, WriterShapeKept DEF publishTaskEvent
    <2>3. CASE \E lost : Change({writer[w].task}, <<>>, FALSE, lost)
      BY <1>1, <1>6, <2>1, <2>2, <2>3, ChangeShape DEF publishTaskEvent
    <2>4. CASE \E lost :
                 Change({writer[w].task}, <<Put(writer[w].task, writer[w].value)>>, FALSE, lost)
      BY <1>1, <1>6, <2>1, <2>2, <2>4, ChangeShape DEF publishTaskEvent
    <2> QED
      BY <1>6, <2>3, <2>4 DEF publishTaskEvent
  <1>7. ASSUME NEW w \in Writer, SetOrCreate(w)
        PROVE  Shape'
    <2>1. backend = "zookeeper"
      BY <1>7 DEF SetOrCreate, Shape
    <2>2. WriterShape'
      BY <1>7, WriterShapeKept DEF SetOrCreate
    <2>3. CASE \E wakes, lost : Change({writer[w].task}, <<>>, wakes, lost)
      BY <1>1, <1>7, <2>1, <2>2, <2>3, ChangeShape DEF SetOrCreate
    <2>4. CASE UNCHANGED <<stored, feed, fired, missed>>
      BY <1>7, <2>2, <2>4 DEF SetOrCreate, Shape, WriterShape, watcherVars
    <2> QED
      BY <1>7, <2>3, <2>4 DEF SetOrCreate
  <1>8. ASSUME NEW S \in SUBSET Task, EtcdForceCleanup(S)
        PROVE  Shape'
    <2>1. LET u == SetToSeq({Delete(t) : t \in S}) IN
            u \in Seq(Event) /\ \A k \in DOMAIN u : u[k].type # "Get"
      BY DeletesSay
    <2> QED
      BY <1>8, <2>1, ChangeShape, WriterShapeKept DEF EtcdForceCleanup, CleanUp
  <1>9. ASSUME NEW S \in SUBSET Task,
               ConsulForceCleanup(S) \/ RedisForceCleanup(S) \/ ZkForceCleanup(S)
        PROVE  Shape'
    BY <1>1, <1>9, ChangeShape, WriterShapeKept
       DEF ConsulForceCleanup, RedisForceCleanup, ZkForceCleanup, CleanUp
  <1> QED
    BY <1>2, <1>3, <1>4, <1>5, <1>6, <1>7, <1>8, <1>9

(* What the two comparisons find of each task. *)
LEMMA ConsulDiffOf ==
  ASSUME TypeOK
  PROVE  /\ OneEach(ConsulDiff) /\ \A e \in ConsulDiff : e.type # "Get"
         /\ \A t \in Task :
              /\ snapshot[t] = stored[t] => \A e \in ConsulDiff : e.task # t
              /\ snapshot[t] # stored[t] =>
                   \E e \in ConsulDiff : e.task = t /\ e.value = stored[t]
  <1>1. \A e \in ConsulDiff :
          /\ e.task \in Task /\ snapshot[e.task] # stored[e.task] /\ e.type # "Get"
          /\ e = IF stored[e.task] # None THEN Put(e.task, stored[e.task]) ELSE Delete(e.task)
    BY EventTypes DEF ConsulDiff, Stored
  <1>2. \A t \in Task : snapshot[t] # stored[t] =>
          \E e \in ConsulDiff : e.task = t /\ e.value = stored[t]
    BY EventTypes DEF ConsulDiff, Stored
  <1> QED
    BY <1>1, <1>2 DEF OneEach

LEMMA ZkDiffOf ==
  ASSUME TypeOK
  PROVE  /\ OneEach(ZkDiff) /\ \A e \in ZkDiff : e.type = "Get" => e = Get(e.task)
         /\ \A t \in Task :
              /\ (snapshot[t] = None) = (stored[t] = None) => \A e \in ZkDiff : e.task # t
              /\ snapshot[t] = None /\ stored[t] # None => Get(t) \in ZkDiff
              /\ snapshot[t] # None /\ stored[t] = None => Delete(t) \in ZkDiff
              /\ Get(t) \in ZkDiff => stored[t] # None
  <1>1. \A e \in ZkDiff :
          \/ e.task \in Task /\ snapshot[e.task] = None /\ stored[e.task] # None /\ e = Get(e.task)
          \/ e.task \in Task /\ snapshot[e.task] # None /\ stored[e.task] = None
             /\ e = Delete(e.task)
    BY EventTypes DEF ZkDiff, Stored
  <1>2. \A t \in Task :
          /\ snapshot[t] = None /\ stored[t] # None => Get(t) \in ZkDiff
          /\ snapshot[t] # None /\ stored[t] = None => Delete(t) \in ZkDiff
    BY DEF ZkDiff, Stored
  <1>3. OneEach(ZkDiff) /\ \A e \in ZkDiff : e.type = "Get" => e = Get(e.task)
    BY <1>1, EventTypes DEF OneEach
  <1>4. \A t \in Task : Get(t) \in ZkDiff => stored[t] # None
    BY <1>1, EventTypes
  <1>5. \A t \in Task : (snapshot[t] = None) = (stored[t] = None) => \A e \in ZkDiff : e.task # t
    BY <1>1
  <1> QED
    BY <1>2, <1>3, <1>4, <1>5

(* The steps of the watcher and of the reader. *)
LEMMA WatcherKeepsShape ==
  ASSUME TypeOK, Shape, WatcherStep \/ WatchLost \/ MessageLost \/ handleTaskEvent
  PROVE  Shape'
  <1>0. feed \in Seq(Event) /\ eventChan \in Seq(Event) /\ todo \in SUBSET Event
    BY DEF TypeOK
  <1>t. /\ feed # <<>> => 1 \in DOMAIN feed /\ Head(feed) = feed[1]
        /\ feed # <<>> => \A k \in DOMAIN Tail(feed) :
             k + 1 \in DOMAIN feed /\ Tail(feed)[k] = feed[k + 1]
    BY <1>0, EmptySeq
  <1>1. CASE WatchTaskEvent
    <2>1. OneEach({Put(t, stored[t]) : t \in Stored}) /\ OneEach({Get(t) : t \in Stored})
          /\ OneEach({})
      BY EventTypes DEF OneEach
    <2>2. /\ \A e \in {Put(t, stored[t]) : t \in Stored} : e.type # "Get"
          /\ \A e \in {Get(t) : t \in Stored} : e = Get(e.task)
      BY EventTypes
    <2>3. /\ OneEach(todo')
          /\ \A e \in todo' : e.type = "Get" => backend' = "zookeeper" /\ e = Get(e.task)
      BY <1>1, <2>1, <2>2
         DEF WatchTaskEvent, EtcdWatchTaskEvent, RedisWatchTaskEvent, ConsulWatchTaskEvent,
             ZkWatchTaskEvent, Open, registryVars
    <2>4. watch = "off" /\ watch' = "initial" /\ UNCHANGED <<backend, writer, feed, fired>>
      BY <1>1
         DEF WatchTaskEvent, EtcdWatchTaskEvent, RedisWatchTaskEvent, ConsulWatchTaskEvent,
             ZkWatchTaskEvent, Open, registryVars
    <2> QED
      BY <2>3, <2>4 DEF Shape, Get
  <1>2. CASE StartWatch
    BY <1>2 DEF Shape, StartWatch, registryVars, Get
  <1>3. CASE Compare
    <2>1. backend \in {"consul", "zookeeper"}
      BY <1>3, WatchAssumption DEF Compare, Shape, TypeOK
    <2>2. /\ OneEach(Diff)
          /\ \A e \in Diff : e.type = "Get" => backend = "zookeeper" /\ e = Get(e.task)
      BY <2>1, ConsulDiffOf, ZkDiffOf DEF Diff
    <2> QED
      BY <1>3, <2>1, <2>2 DEF Shape, Compare, registryVars, Get
  <1>4. CASE EtcdReceive \/ RedisReceive
    <2>1. OneEach({Head(feed)}) /\ Head(feed).type # "Get"
      BY <1>4, <1>t DEF OneEach, Shape, EtcdReceive, RedisReceive, Receive
    <2>2. \A k \in DOMAIN Tail(feed) : Tail(feed)[k].type # "Get"
      BY <1>4, <1>t DEF Shape, EtcdReceive, RedisReceive, Receive
    <2>3. /\ watch = "watching" /\ todo' = {Head(feed)} /\ feed' = Tail(feed)
          /\ UNCHANGED <<backend, writer, watch, fired>> /\ backend \in {"etcd", "redis"}
      BY <1>4 DEF EtcdReceive, RedisReceive, Receive, registryVars
    <2>4. OneEach(todo') /\ (\A e \in todo' : e.type # "Get")
          /\ \A k \in DOMAIN feed' : feed'[k].type # "Get"
      BY <2>1, <2>2, <2>3
    <2> QED
      BY <2>3, <2>4 DEF Shape
  <1>5. ASSUME NEW e \in todo, GetData(e)
        PROVE  Shape'
    <2>1. OneEach(todo \ {e})
      BY DEF Shape, OneEach
    <2>2. OneEach((todo \ {e}) \cup {Put(e.task, stored[e.task])})
      BY EventTypes DEF Shape, OneEach
    <2>3. OneEach(todo') /\ backend = "zookeeper" /\ watch # "off"
      BY <1>5, <2>1, <2>2 DEF GetData, Shape
    <2>4. \A g \in todo' : g.type = "Get" => g = Get(g.task)
      BY <1>5, EventTypes DEF GetData, Shape
    <2> QED
      BY <1>5, <2>3, <2>4 DEF GetData, Shape, registryVars, Get
  <1>6. ASSUME NEW e \in todo, Send(e)
        PROVE  Shape'
    <2>1. OneEach(todo \ {e}) /\ watch # "off"
      BY DEF Shape, OneEach
    <2> QED
      BY <1>6, <2>1 DEF Send, Shape, registryVars, Get
  <1>7. CASE WatchLost
    BY <1>7 DEF Shape, WatchLost, registryVars, Get
  <1>8. CASE MessageLost
    <2>1. \A k \in DOMAIN Tail(feed) : Tail(feed)[k].type # "Get"
      BY <1>8, <1>t DEF Shape, MessageLost
    <2> QED
      BY <1>8, <2>1 DEF Shape, MessageLost, registryVars, Get
  <1>9. CASE handleTaskEvent
    BY <1>9 DEF Shape, handleTaskEvent, registryVars, Get
  <1> QED
    BY <1>1, <1>2, <1>3, <1>4, <1>5, <1>6, <1>7, <1>8, <1>9 DEF WatcherStep

-----------------------------------------------------------------------------
(* What is under way keeps telling the reader of the registry. *)

(* The same after the step, with t and v as they are before it. *)
TellingThen(t, v) == Says(feed', todo', eventChan', told'[t], t, v)

(* A write that sends events: they decide, and where they say nothing what     *)
(* was under way before does.                                                 *)
LEMMA ChangeTelling ==
  ASSUME TypeOK, NEW S, NEW events \in Seq(Event), NEW wakes, NEW lost,
         Change(S, events, wakes, lost), UNCHANGED watcherVars, NEW t, NEW v
  PROVE  /\ Silent(events, t) /\ Telling(t, v) => TellingThen(t, v)
         /\ watch = "watching" /\ LastSays(events, t, v) => TellingThen(t, v)
  <1>1. feed \in Seq(Event)
    BY DEF TypeOK
  <1>2. todo' = todo /\ eventChan' = eventChan /\ told' = told /\ watch' = watch
    BY DEF watcherVars
  <1>3. feed' = IF watch = "watching" THEN feed \o events ELSE feed
    BY DEF Change
  <1> QED
    BY <1>1, <1>2, <1>3, FeedSays DEF Telling, TellingThen

(* On its way from the stream to the reader an event loses nothing. *)
LEMMA JourneyTelling ==
  ASSUME TypeOK, Shape,
         \/ EtcdReceive \/ RedisReceive \/ StartWatch \/ handleTaskEvent
         \/ \E e \in todo : Send(e),
         NEW t \in Task, NEW v, Telling(t, v)
  PROVE  TellingThen(t, v)
  <1>0. feed \in Seq(Event) /\ eventChan \in Seq(Event) /\ todo \in SUBSET Event
        /\ told \in [Task -> Value \cup {None}]
    BY DEF TypeOK
  <1>1. CASE EtcdReceive \/ RedisReceive
    <2>1. /\ feed # <<>> /\ todo = {} /\ todo' = {Head(feed)} /\ feed' = Tail(feed)
          /\ eventChan' = eventChan /\ told' = told
      BY <1>1 DEF EtcdReceive, RedisReceive, Receive
    <2>2. Head(feed).type # "Get"
      <3>1. 1 \in DOMAIN feed /\ Head(feed) = feed[1]
        BY <1>0, <2>1, EmptySeq
      <3> QED
        BY <3>1 DEF Shape
    <2>3. Says(feed, {}, eventChan, told[t], t, v)
      BY <2>1 DEF Telling
    <2> QED
      BY <1>0, <2>1, <2>2, <2>3, ReceiveSays DEF TellingThen
  <1>2. CASE StartWatch
    BY <1>2 DEF StartWatch, Telling, TellingThen
  <1>3. CASE handleTaskEvent
    <2>1. /\ eventChan # <<>> /\ eventChan' = Tail(eventChan)
          /\ told' = [told EXCEPT ![Head(eventChan).task] = Head(eventChan).value]
          /\ feed' = feed /\ todo' = todo
      BY <1>3 DEF handleTaskEvent
    <2>2. told'[t] = IF t = Head(eventChan).task THEN Head(eventChan).value ELSE told[t]
      BY <1>0, <2>1
    <2>3. Says(feed, todo, eventChan, told[t], t, v)
      BY DEF Telling
    <2>4. Says(feed, todo, Tail(eventChan),
               IF t = Head(eventChan).task THEN Head(eventChan).value ELSE told[t], t, v)
      BY <1>0, <2>1, <2>3, ReadSays
    <2> QED
      BY <2>1, <2>2, <2>4 DEF TellingThen
  <1>4. ASSUME NEW e \in todo, Send(e)
        PROVE  TellingThen(t, v)
    <2>1. /\ e.type # "Get" /\ todo' = todo \ {e} /\ eventChan' = Append(eventChan, e)
          /\ feed' = feed /\ told' = told
      BY <1>4 DEF Send
    <2>2. OneEach(todo) /\ Says(feed, todo, eventChan, told[t], t, v)
      BY DEF Telling, Shape
    <2>3. Says(feed, todo \ {e}, Append(eventChan, e), told[t], t, v)
      BY <1>0, <2>1, <2>2, SendSays
    <2> QED
      BY <2>1, <2>3 DEF TellingThen
  <1> QED
    BY <1>1, <1>2, <1>3, <1>4

(* Where nothing is under way the reader holds what it was told. *)
LEMMA QuietTelling ==
  ASSUME feed = <<>>, todo = {}, eventChan = <<>>, NEW t, NEW v
  PROVE  Telling(t, v) <=> told[t] = v
  BY EmptyQuiet DEF Telling

(* etcd and Redis. *)
LEMMA StreamStep ==
  ASSUME TypeOK, Shape, StreamTells, Next
  PROVE  StreamTells'
  <1> SUFFICES ASSUME Active', backend' \in {"etcd", "redis"},
                      NEW t \in Task, t \notin missed'
               PROVE  TellingThen(t, stored'[t])
    BY DEF StreamTells, Telling, TellingThen
  <1>0. <<>> \in Seq(Event) /\ Silent(<<>>, t)
    BY EmptySays
  <1>1. ASSUME NEW u \in Task, NEW v \in Value, EtcdPutTask(u, v)
        PROVE  TellingThen(t, stored'[t])
    <2>1. <<Put(u, v)>> \in Seq(Event) /\ LastSays(<<Put(u, v)>>, u, v)
          /\ (t # u => Silent(<<Put(u, v)>>, t))
      BY EventTypes, OneSays
    <2>2. /\ Active /\ UNCHANGED watcherVars /\ backend = "etcd"
          /\ stored' = [stored EXCEPT ![u] = v]
          /\ Change({u}, <<Put(u, v)>>, FALSE, Unwatched({u}))
      BY <1>1 DEF EtcdPutTask, Active, watcherVars
    <2>3. CASE t = u
      <3>1. watch = "watching" /\ stored'[t] = v
        BY <2>2, <2>3 DEF Change, Unwatched, Active, TypeOK
      <3> QED
        BY <2>1, <2>2, <2>3, <3>1, ChangeTelling
    <2>4. CASE t # u
      <3>1. t \notin missed /\ stored'[t] = stored[t]
        BY <2>2, <2>4 DEF Change, TypeOK
      <3>2. Telling(t, stored[t])
        BY <2>2, <3>1 DEF StreamTells
      <3>3. TellingThen(t, stored[t])
        BY <2>1, <2>2, <2>4, <3>2, ChangeTelling
      <3> QED
        BY <3>1, <3>3
    <2> QED
      BY <2>3, <2>4
  <1>2. ASSUME NEW u \in Task, NEW v \in Value, NEW w \in Writer, HSet(w, u, v)
        PROVE  TellingThen(t, stored'[t])
    <2>1. /\ Active /\ UNCHANGED watcherVars /\ backend = "redis"
          /\ stored' = [stored EXCEPT ![u] = v]
          /\ Change({u}, <<>>, FALSE, {u})
      BY <1>2 DEF HSet, Active, watcherVars
    <2>2. t # u /\ t \notin missed
      BY <2>1 DEF Change
    <2>3. stored'[t] = stored[t] /\ Telling(t, stored[t])
      BY <2>1, <2>2 DEF StreamTells, TypeOK
    <2> QED
      BY <1>0, <2>1, <2>3, ChangeTelling
  <1>3. ASSUME NEW w \in Writer, publishTaskEvent(w)
        PROVE  TellingThen(t, stored'[t])
    <2> DEFINE u == writer[w].task
               v == writer[w].value
    <2>1. u \in Task /\ v \in Value
      BY <1>3, PendingTypes DEF publishTaskEvent, TypeOK
    <2> HIDE DEF u, v
    <2>2. <<Put(u, v)>> \in Seq(Event) /\ LastSays(<<Put(u, v)>>, u, v)
          /\ (t # u => Silent(<<Put(u, v)>>, t))
      BY <2>1, EventTypes, OneSays
    <2>3. /\ Active /\ UNCHANGED watcherVars /\ backend \in {"etcd", "redis"} /\ stored' = stored
          /\ \/ Change({u}, <<Put(u, v)>>, FALSE,
                       IF watch = "watching" /\ v = stored[u] THEN {} ELSE {u})
             \/ Change({u}, <<>>, FALSE, {u})
      BY <1>3 DEF publishTaskEvent, Active, watcherVars, u, v
    <2>4. CASE t = u
      <3>1. watch = "watching" /\ v = stored[t] /\ Change({u}, <<Put(u, v)>>, FALSE, {})
        BY <2>3, <2>4 DEF Change
      <3> QED
        BY <2>2, <2>3, <2>4, <3>1, ChangeTelling
    <2>5. CASE t # u
      <3>1. t \notin missed
        BY <2>3, <2>5 DEF Change
      <3>2. Telling(t, stored[t])
        BY <2>3, <3>1 DEF StreamTells
      <3>3. TellingThen(t, stored[t])
        <4>1. CASE Change({u}, <<>>, FALSE, {u})
          BY <1>0, <2>3, <3>2, <4>1, ChangeTelling
        <4>2. CASE Change({u}, <<Put(u, v)>>, FALSE,
                          IF watch = "watching" /\ v = stored[u] THEN {} ELSE {u})
          BY <2>2, <2>3, <2>5, <3>2, <4>2, ChangeTelling
        <4> QED
          BY <2>3, <4>1, <4>2
      <3> QED
        BY <2>3, <3>3
    <2> QED
      BY <2>4, <2>5
  <1>4. ASSUME NEW S \in SUBSET Task, EtcdForceCleanup(S)
        PROVE  TellingThen(t, stored'[t])
    <2> DEFINE gone == SetToSeq({Delete(u) : u \in S})
    <2>1. /\ gone \in Seq(Event)
          /\ t \in S => LastSays(gone, t, None)
          /\ t \notin S => Silent(gone, t)
      BY DeletesSay
    <2>2. /\ Active /\ UNCHANGED watcherVars /\ backend = "etcd"
          /\ stored' = [u \in Task |-> IF u \in S THEN None ELSE stored[u]]
          /\ Change(S, gone, FALSE, Unwatched(S))
      BY <1>4 DEF EtcdForceCleanup, CleanUp, Active, watcherVars
    <2> HIDE DEF gone
    <2>3. CASE t \in S
      <3>1. watch = "watching" /\ stored'[t] = None
        BY <2>2, <2>3 DEF Change, Unwatched, Active
      <3> QED
        BY <2>1, <2>2, <2>3, <3>1, ChangeTelling
    <2>4. CASE t \notin S
      <3>1. t \notin missed /\ stored'[t] = stored[t]
        BY <2>2, <2>4 DEF Change
      <3>2. Telling(t, stored[t])
        BY <2>2, <3>1 DEF StreamTells
      <3>3. TellingThen(t, stored[t])
        BY <2>1, <2>2, <2>4, <3>2, ChangeTelling
      <3> QED
        BY <3>1, <3>3
    <2> QED
      BY <2>3, <2>4
  <1>5. ASSUME NEW S \in SUBSET Task, RedisForceCleanup(S)
        PROVE  TellingThen(t, stored'[t])
    <2>1. /\ Active /\ UNCHANGED watcherVars /\ backend = "redis"
          /\ stored' = [u \in Task |-> IF u \in S THEN None ELSE stored[u]]
          /\ Change(S, <<>>, FALSE, S)
      BY <1>5 DEF RedisForceCleanup, CleanUp, Active, watcherVars
    <2>2. t \notin S /\ t \notin missed
      BY <2>1 DEF Change
    <2>3. stored'[t] = stored[t] /\ Telling(t, stored[t])
      BY <2>1, <2>2 DEF StreamTells
    <2> QED
      BY <1>0, <2>1, <2>3, ChangeTelling
  <1>6. CASE EtcdWatchTaskEvent
    <2>1. /\ feed' = <<>> /\ eventChan' = <<>> /\ told'[t] = None /\ stored' = stored
          /\ todo' = {Put(u, stored[u]) : u \in Stored}
      BY <1>6 DEF EtcdWatchTaskEvent, Open, Shape, Nothing, registryVars
    <2>2. CASE t \in Stored
      <3> DEFINE e == Put(t, stored[t])
      <3>1. e \in todo' /\ e.type # "Get" /\ e.task = t /\ e.value = stored[t]
        BY <2>1, <2>2, EventTypes
      <3> HIDE DEF e
      <3>2. Says(<<>>, todo', eventChan', told'[t], t, stored[t])
        BY <3>1, InHandSays
      <3> QED
        BY <2>1, <3>2 DEF TellingThen
    <2>3. CASE t \notin Stored
      <3>1. stored[t] = None /\ \A e \in todo' : e.task # t
        BY <2>1, <2>3, EventTypes DEF Stored
      <3>2. Says(<<>>, {}, <<>>, told'[t], t, stored[t])
        BY <2>1, <3>1, EmptyQuiet
      <3>3. Says(<<>>, todo', <<>>, told'[t], t, stored[t])
        BY <3>1, <3>2, TakeUpSays
      <3> QED
        BY <2>1, <3>3 DEF TellingThen
    <2> QED
      BY <2>2, <2>3
  <1>7. CASE RedisWatchTaskEvent
    <2>1. /\ feed' = <<>> /\ eventChan' = <<>> /\ told'[t] = None /\ stored' = stored
          /\ todo' = {} /\ missed' = Stored
      BY <1>7 DEF RedisWatchTaskEvent, Open, Shape, Nothing, registryVars
    <2>2. stored[t] = None
      BY <2>1 DEF Stored
    <2> QED
      BY <2>1, <2>2, EmptyQuiet DEF TellingThen
  <1>8. CASE \/ EtcdReceive \/ RedisReceive \/ StartWatch \/ handleTaskEvent
             \/ \E e \in todo : Send(e)
    <2>1. /\ Active /\ backend \in {"etcd", "redis"} /\ stored' = stored /\ missed' = missed
      BY <1>8 DEF EtcdReceive, RedisReceive, Receive, StartWatch, handleTaskEvent, Send,
                  registryVars, Active
    <2>2. Telling(t, stored[t])
      BY <2>1 DEF StreamTells
    <2> QED
      BY <1>8, <2>1, <2>2, JourneyTelling
  <1>9. CASE MessageLost
    <2>1. /\ Active /\ backend = "redis" /\ feed # <<>> /\ feed \in Seq(Event)
          /\ feed' = Tail(feed) /\ missed' = missed \cup {Head(feed).task}
          /\ UNCHANGED <<stored, todo, eventChan, told>>
      BY <1>9 DEF MessageLost, registryVars, Active, TypeOK
    <2>2. Head(feed).task # t /\ Says(feed, todo, eventChan, told[t], t, stored[t])
      BY <2>1 DEF StreamTells, Telling
    <2>3. Says(Tail(feed), todo, eventChan, told[t], t, stored[t])
      BY <2>1, <2>2, LostSays
    <2> QED
      BY <2>1, <2>3 DEF TellingThen
  <1>10. CASE WatchLost
    BY <1>10 DEF WatchLost, Active
  <1>11. ASSUME NEW u \in Task, NEW v \in Value,
                \/ ConsulPutTask(u, v)
                \/ \E w \in Writer : Exists(w, u, v)
         PROVE  FALSE
    BY <1>11 DEF ConsulPutTask, Exists
  <1>12. ASSUME NEW w \in Writer, SetOrCreate(w)
         PROVE  FALSE
    BY <1>12 DEF SetOrCreate, Shape
  <1>13. ASSUME NEW S \in SUBSET Task, ConsulForceCleanup(S) \/ ZkForceCleanup(S)
         PROVE  FALSE
    BY <1>13 DEF ConsulForceCleanup, ZkForceCleanup, CleanUp
  <1>14. ASSUME \/ ConsulWatchTaskEvent \/ ZkWatchTaskEvent \/ Compare
                \/ \E e \in todo : GetData(e)
         PROVE  FALSE
    BY <1>14 DEF ConsulWatchTaskEvent, ZkWatchTaskEvent, Open, Compare, GetData, Shape,
                 registryVars
  <1> QED
    BY <1>1, <1>2, <1>3, <1>4, <1>5, <1>6, <1>7, <1>8, <1>9, <1>10, <1>11, <1>12, <1>13, <1>14
       DEF Next, WatcherStep, WatchTaskEvent

(* Consul. *)
LEMMA ConsulStep ==
  ASSUME TypeOK, Shape, ConsulTells, Next
  PROVE  ConsulTells'
  <1> SUFFICES ASSUME Active', backend' = "consul"
               PROVE  /\ \A t \in Task : TellingThen(t, snapshot'[t])
                      /\ watch' = "watching" /\ ~ fired' => snapshot' = stored'
    BY DEF ConsulTells, Telling, TellingThen
  <1> DEFINE Goal == /\ \A t \in Task : TellingThen(t, snapshot'[t])
                     /\ watch' = "watching" /\ ~ fired' => snapshot' = stored'
  <1> SUFFICES Goal
    OBVIOUS
  <1>0. <<>> \in Seq(Event) /\ \A t : Silent(<<>>, t)
    BY EmptySays
  <1>1. ASSUME UNCHANGED watcherVars, backend' = backend, NEW S, NEW lost,
               Change(S, <<>>, TRUE, lost)
        PROVE  Goal
    <2>1. Active /\ backend = "consul" /\ snapshot' = snapshot /\ fired'
      BY <1>1 DEF Active, Change, watcherVars
    <2>2. \A t \in Task : Telling(t, snapshot[t])
      BY <2>1 DEF ConsulTells
    <2> QED
      BY <1>0, <1>1, <2>1, <2>2, ChangeTelling
  <1>2. ASSUME NEW u \in Task, NEW v \in Value, ConsulPutTask(u, v)
        PROVE  Goal
    BY <1>1, <1>2 DEF ConsulPutTask
  <1>3. ASSUME NEW S \in SUBSET Task, ConsulForceCleanup(S)
        PROVE  Goal
    BY <1>1, <1>3 DEF ConsulForceCleanup, CleanUp
  <1>4. CASE ConsulWatchTaskEvent
    <2>1. /\ feed' = <<>> /\ eventChan' = <<>> /\ stored' = stored /\ snapshot' = stored
          /\ todo' = {Put(u, stored[u]) : u \in Stored} /\ told' = Nothing
      BY <1>4 DEF ConsulWatchTaskEvent, Open, Shape, registryVars
    <2>2. ASSUME NEW t \in Task
          PROVE  TellingThen(t, snapshot'[t])
      <3>0. told'[t] = None
        BY <2>1 DEF Nothing
      <3>1. CASE t \in Stored
        <4> DEFINE e == Put(t, stored[t])
        <4>1. e \in todo' /\ e.type # "Get" /\ e.task = t /\ e.value = stored[t]
          BY <2>1, <3>1, EventTypes
        <4> HIDE DEF e
        <4>2. Says(<<>>, todo', eventChan', told'[t], t, stored[t])
          BY <4>1, InHandSays
        <4> QED
          BY <2>1, <4>2 DEF TellingThen
      <3>2. CASE t \notin Stored
        <4>1. stored[t] = None /\ \A e \in todo' : e.task # t
          BY <2>1, <3>2, EventTypes DEF Stored
        <4>2. Says(<<>>, {}, <<>>, told'[t], t, stored[t])
          BY <3>0, <4>1, EmptyQuiet
        <4>3. Says(<<>>, todo', <<>>, told'[t], t, stored[t])
          BY <4>1, <4>2, TakeUpSays
        <4> QED
          BY <2>1, <4>3 DEF TellingThen
      <3> QED
        BY <3>1, <3>2
    <2> QED
      BY <2>1, <2>2
  <1>5. CASE Compare
    <2>1. /\ Active /\ backend = "consul" /\ todo = {} /\ todo' = ConsulDiff
          /\ snapshot' = stored /\ stored' = stored
          /\ feed = <<>> /\ feed' = feed /\ eventChan' = eventChan /\ told' = told
      BY <1>5 DEF Compare, Diff, Active, Shape, registryVars
    <2>2. ASSUME NEW t \in Task
          PROVE  TellingThen(t, stored[t])
      <3>1. CASE snapshot[t] = stored[t]
        <4>1. Says(feed, {}, eventChan, told[t], t, stored[t])
          BY <2>1, <3>1 DEF ConsulTells, Telling
        <4>2. \A e \in todo' : e.task # t
          BY <2>1, <3>1, ConsulDiffOf
        <4>3. Says(feed, todo', eventChan, told[t], t, stored[t])
          BY <4>1, <4>2, TakeUpSays
        <4> QED
          BY <2>1, <4>3 DEF TellingThen
      <3>2. CASE snapshot[t] # stored[t]
        <4>1. PICK e \in todo' : e.task = t /\ e.value = stored[t] /\ e.type # "Get"
          BY <2>1, <3>2, ConsulDiffOf
        <4>2. Says(<<>>, todo', eventChan', told'[t], t, stored[t])
          BY <4>1, InHandSays
        <4> QED
          BY <2>1, <4>2 DEF TellingThen
      <3> QED
        BY <3>1, <3>2
    <2> QED
      BY <2>1, <2>2
  <1>6. CASE \/ EtcdReceive \/ RedisReceive \/ StartWatch \/ handleTaskEvent
             \/ \E e \in todo : Send(e)
    <2>1. /\ Active /\ backend = "consul" /\ snapshot' = snapshot /\ stored' = stored
          /\ fired' \/ (watch' = watch /\ fired' = fired)
      BY <1>6 DEF EtcdReceive, RedisReceive, Receive, StartWatch, handleTaskEvent, Send,
                  registryVars, Active
    <2>2. \A t \in Task : Telling(t, snapshot[t])
      BY <2>1 DEF ConsulTells
    <2>3. \A t \in Task : TellingThen(t, snapshot[t])
      BY <1>6, <2>2, JourneyTelling
    <2> QED
      BY <2>1, <2>3 DEF ConsulTells
  <1>7. ASSUME WatchLost \/ MessageLost
        PROVE  FALSE
    BY <1>7 DEF WatchLost, MessageLost, Active, registryVars
  <1>8. ASSUME NEW u \in Task, NEW v \in Value,
               \/ EtcdPutTask(u, v)
               \/ \E w \in Writer : HSet(w, u, v) \/ Exists(w, u, v)
        PROVE  FALSE
    BY <1>8 DEF EtcdPutTask, HSet, Exists
  <1>9. ASSUME NEW w \in Writer, publishTaskEvent(w) \/ SetOrCreate(w)
        PROVE  FALSE
    BY <1>9 DEF publishTaskEvent, SetOrCreate, Shape
  <1>10. ASSUME NEW S \in SUBSET Task,
                EtcdForceCleanup(S) \/ RedisForceCleanup(S) \/ ZkForceCleanup(S)
         PROVE  FALSE
    BY <1>10 DEF EtcdForceCleanup, RedisForceCleanup, ZkForceCleanup, CleanUp
  <1>11. ASSUME \/ EtcdWatchTaskEvent \/ RedisWatchTaskEvent \/ ZkWatchTaskEvent
                \/ \E e \in todo : GetData(e)
         PROVE  FALSE
    BY <1>11 DEF EtcdWatchTaskEvent, RedisWatchTaskEvent, ZkWatchTaskEvent, Open, GetData, Shape,
                 registryVars
  <1> HIDE DEF Goal
  <1> QED
    BY <1>2, <1>3, <1>4, <1>5, <1>6, <1>7, <1>8, <1>9, <1>10, <1>11
       DEF Next, WatcherStep, WatchTaskEvent

(* ZooKeeper. *)
LEMMA ZkStep ==
  ASSUME TypeOK, Shape, ZkTells, Next
  PROVE  ZkTells'
  <1> SUFFICES ASSUME Active', backend' = "zookeeper", NEW t \in Task
               PROVE  /\ snapshot'[t] = None => TellingThen(t, None)
                      /\ snapshot'[t] # None /\ stored'[t] # None /\ t \notin missed' =>
                           Get(t) \in todo' \/ TellingThen(t, stored'[t])
                      /\ (snapshot'[t] = None) # (stored'[t] = None) => fired'
                      /\ Get(t) \in todo' => snapshot'[t] # None
    BY DEF ZkTells, Telling, TellingThen, Get
  <1> DEFINE Goal == /\ snapshot'[t] = None => TellingThen(t, None)
                     /\ snapshot'[t] # None /\ stored'[t] # None /\ t \notin missed' =>
                          Get(t) \in todo' \/ TellingThen(t, stored'[t])
                     /\ (snapshot'[t] = None) # (stored'[t] = None) => fired'
                     /\ Get(t) \in todo' => snapshot'[t] # None
  <1> SUFFICES Goal
    OBVIOUS
  <1>0. <<>> \in Seq(Event) /\ Silent(<<>>, t)
    BY EmptySays
  <1>1. ASSUME Active, backend = "zookeeper"
        PROVE  /\ snapshot[t] = None => Telling(t, None)
               /\ snapshot[t] # None /\ stored[t] # None /\ t \notin missed =>
                    Get(t) \in todo \/ Telling(t, stored[t])
               /\ (snapshot[t] = None) # (stored[t] = None) => fired
               /\ Get(t) \in todo => snapshot[t] # None
    BY <1>1 DEF ZkTells
  <1>2. ASSUME NEW u \in Task, NEW v \in Value, NEW w \in Writer, Exists(w, u, v)
        PROVE  Goal
    <2>1. UNCHANGED <<feed, todo, eventChan, told, snapshot, stored, missed, fired, watch, backend>>
      BY <1>2 DEF Exists, watcherVars
    <2>2. Active /\ backend = "zookeeper"
      BY <2>1 DEF Active
    <2> QED
      BY <1>1, <2>1, <2>2 DEF Telling, TellingThen
  <1>3. ASSUME NEW S, NEW wakes, NEW lost, Change(S, <<>>, wakes, lost),
               UNCHANGED watcherVars, backend' = backend,
               /\ t \notin S => stored'[t] = stored[t]
               /\ t \in S => \/ stored'[t] = None /\ wakes
                             \/ stored'[t] # None /\ t \in lost /\ snapshot[t] # None
                             \/ stored'[t] # None /\ t \in lost /\ stored[t] # None
                             \/ stored'[t] # None /\ snapshot[t] = None /\ wakes
        PROVE  Goal
    <2>1. Active /\ backend = "zookeeper" /\ todo' = todo /\ snapshot' = snapshot
      BY <1>3 DEF Active, watcherVars
    <2>2. \A v : Telling(t, v) => TellingThen(t, v)
      BY <1>0, <1>3, ChangeTelling
    <2>3. /\ fired \/ wakes => fired'
          /\ t \notin missed' => t \notin lost /\ (t \notin S => t \notin missed)
      BY <1>3 DEF Change
    <2>4. CASE t \notin S
      BY <1>1, <1>3, <2>1, <2>2, <2>3, <2>4
    <2>5. CASE t \in S
      <3>1. snapshot'[t] = None => TellingThen(t, None)
        BY <1>1, <2>1, <2>2
      <3>2. Get(t) \in todo' => snapshot'[t] # None
        BY <1>1, <2>1
      <3>3. (snapshot'[t] = None) # (stored'[t] = None) => fired'
        BY <1>1, <1>3, <2>1, <2>3, <2>5
      <3>4. ~ (snapshot'[t] # None /\ stored'[t] # None /\ t \notin missed')
        BY <1>3, <2>1, <2>3, <2>5
      <3> QED
        BY <3>1, <3>2, <3>3, <3>4
    <2> QED
      BY <2>4, <2>5
  <1>4. ASSUME NEW w \in Writer, SetOrCreate(w)
        PROVE  Goal
    <2> DEFINE u == writer[w].task
               create == writer[w].op = "Create"
    <2>1. u \in Task /\ writer[w].value \in Value /\ writer[w].value # None
      BY <1>4, PendingTypes, WatchAssumption DEF SetOrCreate, TypeOK
    <2>2. UNCHANGED watcherVars /\ backend' = backend
      BY <1>4 DEF SetOrCreate
    <2>3. CASE UNCHANGED <<stored, feed, fired, missed>>
      BY <1>1, <2>2, <2>3 DEF Telling, TellingThen, Active, watcherVars
    <2>4. CASE ~ UNCHANGED <<stored, feed, fired, missed>>
      <3>1. /\ create # (u \in Stored)
            /\ stored' = [stored EXCEPT ![u] = writer[w].value]
            /\ Change({u}, <<>>, create /\ watch # "off",
                      IF create /\ snapshot[u] = None THEN {} ELSE {u})
        BY <1>4, <2>4 DEF SetOrCreate
      <3>2. /\ t # u => stored'[t] = stored[t]
            /\ t = u => stored'[t] # None
        BY <2>1, <3>1 DEF TypeOK
      <3>3. watch # "off"
        BY <2>2 DEF Active, watcherVars
      <3>4. ~ create => stored[u] # None
        BY <2>1, <3>1 DEF Stored
      <3> HIDE DEF u, create
      <3> QED
        BY <1>3, <2>2, <3>1, <3>2, <3>3, <3>4
    <2> QED
      BY <2>3, <2>4
  <1>5. ASSUME NEW S \in SUBSET Task, ZkForceCleanup(S)
        PROVE  Goal
    <2>1. /\ UNCHANGED watcherVars /\ backend' = backend
          /\ stored' = [u \in Task |-> IF u \in S THEN None ELSE stored[u]]
          /\ Change(S, <<>>, watch # "off", {})
      BY <1>5 DEF ZkForceCleanup, CleanUp
    <2>2. watch # "off" /\ (t \in S => stored'[t] = None) /\ (t \notin S => stored'[t] = stored[t])
      BY <2>1 DEF Active, watcherVars
    <2> QED
      BY <1>3, <2>1, <2>2
  <1>6. CASE ZkWatchTaskEvent
    <2>1. /\ feed' = <<>> /\ eventChan' = <<>> /\ stored' = stored /\ snapshot' = stored
          /\ todo' = {Get(u) : u \in Stored} /\ told'[t] = None
      BY <1>6 DEF ZkWatchTaskEvent, Open, Shape, Nothing, registryVars
    <2>2. CASE t \in Stored
      <3>1. Get(t) \in todo' /\ stored[t] # None
        BY <2>1, <2>2 DEF Stored
      <3> QED
        BY <2>1, <3>1
    <2>3. CASE t \notin Stored
      <3>1. stored[t] = None /\ \A e \in todo' : e.task # t
        BY <2>1, <2>3, EventTypes DEF Stored
      <3>2. Says(<<>>, {}, <<>>, told'[t], t, None)
        BY <2>1, EmptyQuiet
      <3>3. Says(<<>>, todo', <<>>, told'[t], t, None)
        BY <3>1, <3>2, TakeUpSays
      <3>4. Get(t) \notin todo'
        BY <3>1, EventTypes
      <3> QED
        BY <2>1, <3>1, <3>3, <3>4 DEF TellingThen
    <2> QED
      BY <2>2, <2>3
  <1>7. CASE Compare
    <2>1. /\ Active /\ backend = "zookeeper" /\ todo = {} /\ todo' = ZkDiff
          /\ snapshot' = stored /\ stored' = stored /\ missed' = missed
          /\ feed = <<>> /\ feed' = feed /\ eventChan' = eventChan /\ told' = told
      BY <1>7 DEF Compare, Diff, Active, Shape, registryVars
    <2>2. Get(t) \in todo' => stored[t] # None
      BY <2>1, ZkDiffOf
    <2>3. ASSUME NEW v, Telling(t, v), (snapshot[t] = None) = (stored[t] = None)
          PROVE  TellingThen(t, v)
      <3>1. Says(feed, {}, eventChan, told[t], t, v)
        BY <2>1, <2>3 DEF Telling
      <3>2. \A e \in todo' : e.task # t
        BY <2>1, <2>3, ZkDiffOf
      <3>3. Says(feed, todo', eventChan, told[t], t, v)
        BY <3>1, <3>2, TakeUpSays
      <3> QED
        BY <2>1, <3>3 DEF TellingThen
    <2>4. CASE snapshot[t] = None /\ stored[t] = None
      <3>1. TellingThen(t, None)
        BY <1>1, <2>1, <2>3, <2>4
      <3> QED
        BY <2>1, <2>2, <2>4, <3>1
    <2>5. CASE snapshot[t] # None /\ stored[t] # None
      <3>1. t \notin missed => TellingThen(t, stored[t])
        BY <1>1, <2>1, <2>3, <2>5
      <3> QED
        BY <2>1, <2>5, <3>1
    <2>6. CASE snapshot[t] = None /\ stored[t] # None
      BY <2>1, <2>6, ZkDiffOf
    <2>7. CASE snapshot[t] # None /\ stored[t] = None
      <3> DEFINE e == Delete(t)
      <3>1. e \in todo' /\ e.type # "Get" /\ e.task = t /\ e.value = None
        BY <2>1, <2>7, ZkDiffOf, EventTypes
      <3> HIDE DEF e
      <3>2. Says(<<>>, todo', eventChan', told'[t], t, None)
        BY <3>1, InHandSays
      <3> QED
        BY <2>1, <2>2, <2>7, <3>2 DEF TellingThen
    <2> QED
      BY <2>4, <2>5, <2>6, <2>7
  <1>8. CASE StartWatch \/ handleTaskEvent \/ \E e \in todo : Send(e)
    <2>1. /\ Active /\ backend = "zookeeper" /\ snapshot' = snapshot /\ stored' = stored
          /\ missed' = missed
      BY <1>8 DEF StartWatch, handleTaskEvent, Send, registryVars, Active
    <2>f. fired => fired'
      BY <1>8 DEF StartWatch, handleTaskEvent, Send
    <2>2. Get(t) \in todo' <=> Get(t) \in todo
      BY <1>8, EventTypes DEF StartWatch, handleTaskEvent, Send
    <2>3. \A v : Telling(t, v) => TellingThen(t, v)
      BY <1>8, JourneyTelling
    <2> QED
      BY <1>1, <2>1, <2>f, <2>2, <2>3
  <1>9. ASSUME NEW e \in todo, GetData(e)
        PROVE  Goal
    <2>1. /\ Active /\ backend = "zookeeper" /\ snapshot' = snapshot /\ stored' = stored
          /\ missed \in SUBSET missed' /\ fired' = fired /\ e.type = "Get"
          /\ feed = <<>> /\ feed' = feed /\ eventChan' = eventChan /\ told' = told
      BY <1>9 DEF GetData, registryVars, Active, Shape
    <2>2. e = Get(e.task) /\ e.task \in Task
      BY <2>1 DEF TypeOK, Shape, Event
    <2>3. \/ todo' = todo \ {e} /\ e.task \notin Stored
          \/ todo' = todo \ {e} /\ e.task \in missed'
          \/ e.task \in Stored /\ todo' = (todo \ {e}) \cup {Put(e.task, stored[e.task])}
      BY <1>9 DEF GetData
    <2>4. Get(t) \in todo' => Get(t) \in todo
      BY <2>3, EventTypes
    <2>5. CASE e.task # t
      <3>1. Get(t) \in todo => Get(t) \in todo'
        BY <2>2, <2>3, <2>5, EventTypes
      <3>2. ASSUME NEW v, Telling(t, v)
            PROVE  TellingThen(t, v)
        <4> DEFINE q == Put(e.task, stored[e.task])
        <4>1. Says(feed, todo, eventChan, told[t], t, v) /\ q.task # t
          BY <2>5, <3>2, EventTypes DEF Telling
        <4> HIDE DEF q
        <4>2. /\ Says(feed, todo \ {e}, eventChan, told[t], t, v)
              /\ Says(feed, (todo \ {e}) \cup {q}, eventChan, told[t], t, v)
          BY <2>1, <4>1, GetSays
        <4>3. todo' = todo \ {e} \/ todo' = (todo \ {e}) \cup {q}
          BY <2>3 DEF q
        <4> QED
          BY <2>1, <4>2, <4>3 DEF TellingThen
      <3> QED
        BY <1>1, <2>1, <2>4, <3>1, <3>2
    <2>6. CASE e.task = t
      <3>1. snapshot[t] # None
        BY <1>1, <2>1, <2>2, <2>6
      <3>2. CASE t \notin Stored \/ t \in missed'
        <4>1. stored[t] = None \/ t \in missed'
          BY <3>2 DEF Stored
        <4> QED
          BY <1>1, <2>1, <2>4, <3>1, <4>1
      <3>3. CASE todo' = (todo \ {e}) \cup {Put(t, stored[t])}
        <4> DEFINE q == Put(t, stored[t])
        <4>1. q \in todo' /\ q.type # "Get" /\ q.task = t /\ q.value = stored[t]
          BY <3>3, EventTypes
        <4> HIDE DEF q
        <4>2. Says(<<>>, todo', eventChan', told'[t], t, stored[t])
          BY <4>1, InHandSays
        <4>3. TellingThen(t, stored[t])
          BY <2>1, <4>2 DEF TellingThen
        <4> QED
          BY <1>1, <2>1, <2>4, <3>1, <4>3
      <3> QED
        BY <2>3, <2>6, <3>2, <3>3
    <2> QED
      BY <2>5, <2>6
  <1>10. ASSUME NEW u \in Task, NEW v \in Value,
                \/ EtcdPutTask(u, v) \/ ConsulPutTask(u, v)
                \/ \E w \in Writer : HSet(w, u, v)
         PROVE  FALSE
    BY <1>10 DEF EtcdPutTask, ConsulPutTask, HSet
  <1>11. ASSUME NEW w \in Writer, publishTaskEvent(w)
         PROVE  FALSE
    BY <1>11 DEF publishTaskEvent, Shape
  <1>12. ASSUME NEW S \in SUBSET Task,
                EtcdForceCleanup(S) \/ RedisForceCleanup(S) \/ ConsulForceCleanup(S)
         PROVE  FALSE
    BY <1>12 DEF EtcdForceCleanup, RedisForceCleanup, ConsulForceCleanup, CleanUp
  <1>13. ASSUME \/ EtcdWatchTaskEvent \/ RedisWatchTaskEvent \/ ConsulWatchTaskEvent
                \/ EtcdReceive \/ RedisReceive \/ WatchLost \/ MessageLost
         PROVE  FALSE
    BY <1>13 DEF EtcdWatchTaskEvent, RedisWatchTaskEvent, ConsulWatchTaskEvent, Open,
                 EtcdReceive, RedisReceive, Receive, WatchLost, MessageLost, Active, registryVars
  <1> HIDE DEF Goal
  <1> QED
    BY <1>2, <1>4, <1>5, <1>6, <1>7, <1>8, <1>9, <1>10, <1>11, <1>12, <1>13
       DEF Next, WatcherStep, WatchTaskEvent

(* Every step keeps the invariant. *)
LEMMA WatchStep == WatchInv /\ [Next]_vars => WatchInv'
  <1> SUFFICES ASSUME WatchInv, [Next]_vars
               PROVE  WatchInv'
    OBVIOUS
  <1>1. CASE Next
    <2>1. TypeOK'
      BY <1>1, TypeStep DEF WatchInv
    <2>2. Shape'
      BY <1>1, WriterKeepsShape, WatcherKeepsShape, Zenon DEF WatchInv, Next
    <2>3. StreamTells' /\ ConsulTells' /\ ZkTells'
      BY <1>1, StreamStep, ConsulStep, ZkStep DEF WatchInv
    <2> QED
      BY <2>1, <2>2, <2>3 DEF WatchInv
  <1>2. CASE UNCHANGED vars
    BY <1>2 DEF WatchInv, TypeOK, Shape, Get, StreamTells, ConsulTells, ZkTells, Active, Telling,
                vars
  <1> QED
    BY <1>1, <1>2

LEMMA WatchInit == Init => WatchInv
  <1> SUFFICES ASSUME Init
               PROVE  WatchInv
    OBVIOUS
  <1>1. TypeOK
    BY InitType
  <1>2. ~ Active
    BY DEF Init, Active
  <1>3. Shape
    BY DEF Init, Shape, OneEach, Idle
  <1> QED
    BY <1>1, <1>2, <1>3 DEF WatchInv, StreamTells, ConsulTells, ZkTells

(* The invariant is what ToldConverges and RemovalsTold need of a quiet state. *)
LEMMA InvQuiet == WatchInv => QuietIsTold
  <1> SUFFICES ASSUME WatchInv, Quiet
               PROVE  /\ \A t \in Task \ missed : told[t] = stored[t]
                      /\ backend \in {"consul", "zookeeper"} =>
                           \A t \in Task : told[t] # None => t \in Stored
    BY DEF QuietIsTold
  <1>1. Active /\ todo = {} /\ ~ fired /\ watch = "watching"
        /\ \A t, v : Telling(t, v) <=> told[t] = v
    BY QuietTelling DEF Quiet, Active
  <1>2. CASE backend \in {"etcd", "redis"}
    BY <1>1, <1>2 DEF WatchInv, StreamTells
  <1>3. CASE backend = "consul"
    BY <1>1, <1>3 DEF WatchInv, ConsulTells, Stored
  <1>4. CASE backend = "zookeeper"
    <2>1. \A t \in Task :
            /\ (snapshot[t] = None) = (stored[t] = None)
            /\ snapshot[t] = None => told[t] = None
            /\ snapshot[t] # None /\ stored[t] # None /\ t \notin missed => told[t] = stored[t]
      BY <1>1, <1>4 DEF WatchInv, ZkTells
    <2> QED
      BY <2>1 DEF Stored
  <1> QED
    BY <1>2, <1>3, <1>4, WatchAssumption DEF WatchInv, TypeOK

(* Whenever the watch is up and nothing is under way, the reader holds of every *)
(* task what the registry holds, but for the tasks whose last change fell in a  *)
(* gap of the protocol; and with Consul and ZooKeeper it holds no task that is   *)
(* gone, not even one of those.  This is the safety half of ToldConverges and    *)
(* RemovalsTold: of a quiet state nothing is left to wait for.                   *)
THEOREM QuietAlwaysTold == Spec => []QuietIsTold
  <1>1. Spec => []WatchInv
    BY WatchInit, WatchStep, PTL DEF Spec
  <1> QED
    BY <1>1, InvQuiet, PTL

-----------------------------------------------------------------------------
(* Consul and ZooKeeper send the initial events before anybody reads them. *)

(* The tasks that WatchTaskEvent found. *)
Listed == {t \in Task : snapshot[t] # None}

Sending == watch = "initial" /\ ~ returned

(* If the tasks it found fit into the channel, the next send does not block. *)
StartHasRoom ==
  Sending /\ todo # {} /\ Cardinality(Listed) <= ChanSize[backend] => Room

(* One event for each task found, in the channel or still in hand. *)
Fits ==
  Sending => IsFiniteSet(todo) /\ Len(eventChan) + Cardinality(todo) <= Cardinality(Listed)

(* WatchTaskEvent has one event for each stored task. *)
LEMMA OpenFits ==
  ASSUME TypeOK, Shape, WatchTaskEvent
  PROVE  Fits'
  <1> SUFFICES ASSUME Sending'
               PROVE  /\ IsFiniteSet(todo')
                      /\ Len(eventChan') + Cardinality(todo') <= Cardinality(Listed')
    BY DEF Fits
  <1>1. /\ eventChan' = <<>> /\ snapshot' = stored
        /\ \/ todo' = {Put(t, stored[t]) : t \in Stored}
           \/ todo' = {Get(t) : t \in Stored}
    BY DEF WatchTaskEvent, EtcdWatchTaskEvent, RedisWatchTaskEvent, ConsulWatchTaskEvent,
           ZkWatchTaskEvent, Open, Sending, Shape
  <1>2. Listed' = Stored /\ IsFiniteSet(Stored)
    BY <1>1, WatchAssumption, FS_Subset DEF Listed, Stored
  <1>3. IsFiniteSet(todo') /\ Cardinality(todo') <= Cardinality(Stored)
    <2>1. CASE todo' = {Put(t, stored[t]) : t \in Stored}
      <3> DEFINE f == [t \in Stored |-> Put(t, stored[t])]
      <3>1. f \in Surjection(Stored, todo')
        BY <2>1 DEF Surjection
      <3> HIDE DEF f
      <3> QED
        BY <1>2, <3>1, FS_Surjection
    <2>2. CASE todo' = {Get(t) : t \in Stored}
      <3> DEFINE f == [t \in Stored |-> Get(t)]
      <3>1. f \in Surjection(Stored, todo')
        BY <2>2 DEF Surjection
      <3> HIDE DEF f
      <3> QED
        BY <1>2, <3>1, FS_Surjection
    <2> QED
      BY <1>1, <2>1, <2>2
  <1>4. Len(eventChan') = 0 /\ Cardinality(todo') \in Nat
    BY <1>1, <1>3, FS_CardinalityType
  <1> QED
    BY <1>2, <1>3, <1>4

LEMMA FitsStep ==
  ASSUME TypeOK, Shape, Fits, [Next]_vars
  PROVE  Fits'
  <1>0. eventChan \in Seq(Event) /\ Len(eventChan) \in Nat
    BY DEF TypeOK
  <1>1. CASE WatchTaskEvent
    BY <1>1, OpenFits
  <1>2. ASSUME NEW e \in todo, Send(e)
        PROVE  Fits'
    <2> SUFFICES ASSUME Sending
                 PROVE  /\ IsFiniteSet(todo')
                        /\ Len(eventChan') + Cardinality(todo') <= Cardinality(Listed')
      BY <1>2 DEF Fits, Send, Sending
    <2>1. /\ IsFiniteSet(todo) /\ Cardinality(todo) \in Nat
          /\ Len(eventChan) + Cardinality(todo) <= Cardinality(Listed)
      BY FS_CardinalityType DEF Fits
    <2>2. IsFiniteSet(todo \ {e}) /\ Cardinality(todo \ {e}) = Cardinality(todo) - 1
      BY <2>1, FS_RemoveElement
    <2>3. e \in Event
      BY DEF TypeOK
    <2>4. Len(Append(eventChan, e)) = Len(eventChan) + 1
      BY <1>0, <2>3
    <2>5. Listed' = Listed
      BY <1>2 DEF Send, Listed
    <2>6. todo' = todo \ {e} /\ eventChan' = Append(eventChan, e)
      BY <1>2 DEF Send
    <2> QED
      BY <1>0, <2>1, <2>2, <2>4, <2>5, <2>6
  <1>3. ASSUME NEW e \in todo, GetData(e)
        PROVE  Fits'
    <2> SUFFICES ASSUME Sending
                 PROVE  /\ IsFiniteSet(todo')
                        /\ Len(eventChan') + Cardinality(todo') <= Cardinality(Listed')
      BY <1>3 DEF Fits, GetData, Sending
    <2>1. /\ IsFiniteSet(todo) /\ Cardinality(todo) \in Nat
          /\ Len(eventChan) + Cardinality(todo) <= Cardinality(Listed)
      BY FS_CardinalityType DEF Fits
    <2>2. IsFiniteSet(todo \ {e}) /\ Cardinality(todo \ {e}) = Cardinality(todo) - 1
      BY <2>1, FS_RemoveElement
    <2>3. ASSUME NEW q
          PROVE  /\ IsFiniteSet((todo \ {e}) \cup {q})
                 /\ Cardinality((todo \ {e}) \cup {q}) <= Cardinality(todo)
                 /\ Cardinality((todo \ {e}) \cup {q}) \in Nat
      <3>1. /\ IsFiniteSet((todo \ {e}) \cup {q})
            /\ \/ Cardinality((todo \ {e}) \cup {q}) = Cardinality(todo \ {e})
               \/ Cardinality((todo \ {e}) \cup {q}) = Cardinality(todo \ {e}) + 1
        BY <2>2, FS_AddElement
      <3> QED
        BY <2>1, <2>2, <3>1, FS_CardinalityType
    <2>4. todo' = todo \ {e} \/ \E q : todo' = (todo \ {e}) \cup {q}
      BY <1>3 DEF GetData
    <2>5. Listed' = Listed /\ eventChan' = eventChan
      BY <1>3 DEF GetData, Listed
    <2>6. IsFiniteSet(todo') /\ Cardinality(todo') <= Cardinality(todo)
          /\ Cardinality(todo') \in Nat
      <3>1. CASE todo' = todo \ {e}
        <4>1. Cardinality(todo \ {e}) \in Nat
          BY <2>2, FS_CardinalityType
        <4> QED
          BY <2>1, <2>2, <3>1, <4>1
      <3>2. CASE \E q : todo' = (todo \ {e}) \cup {q}
        BY <2>3, <3>2
      <3> QED
        BY <2>4, <3>1, <3>2
    <2>7. Cardinality(Listed) \in Nat
      BY WatchAssumption, FS_Subset, FS_CardinalityType DEF Listed
    <2> QED
      BY <1>0, <2>1, <2>5, <2>6, <2>7
  <1>4. ASSUME UNCHANGED <<watch, returned, todo, eventChan, snapshot>>
        PROVE  Fits'
    BY <1>4 DEF Fits, Sending, Listed
  <1>5. ASSUME ~ Sending'
        PROVE  Fits'
    BY <1>5 DEF Fits
  <1>6. ASSUME NEW t \in Task, NEW v \in Value,
               \/ EtcdPutTask(t, v) \/ ConsulPutTask(t, v)
               \/ \E w \in Writer : HSet(w, t, v) \/ Exists(w, t, v)
        PROVE  Fits'
    BY <1>4, <1>6 DEF EtcdPutTask, ConsulPutTask, HSet, Exists, watcherVars
  <1>7. ASSUME NEW w \in Writer, publishTaskEvent(w) \/ SetOrCreate(w)
        PROVE  Fits'
    BY <1>4, <1>7 DEF publishTaskEvent, SetOrCreate, watcherVars
  <1>8. ASSUME NEW S \in SUBSET Task, CleanUp(S)
        PROVE  Fits'
    BY <1>4, <1>8 DEF CleanUp, watcherVars
  <1>9. CASE StartWatch \/ Compare \/ EtcdReceive \/ RedisReceive \/ WatchLost
    BY <1>5, <1>9
       DEF StartWatch, Compare, EtcdReceive, RedisReceive, Receive, WatchLost, Sending
  <1>10. CASE handleTaskEvent
    BY <1>5, <1>10 DEF handleTaskEvent, Sending
  <1>11. CASE MessageLost
    BY <1>4, <1>11 DEF MessageLost
  <1>12. CASE UNCHANGED vars
    BY <1>4, <1>12 DEF vars
  <1> QED
    BY <1>1, <1>2, <1>3, <1>6, <1>7, <1>8, <1>9, <1>10, <1>11, <1>12
       DEF Next, WatcherStep, EtcdForceCleanup, ConsulForceCleanup, RedisForceCleanup,
           ZkForceCleanup

(* While WatchTaskEvent of Consul or ZooKeeper sends the initial events, to a   *)
(* channel that nobody reads before it returns, it never meets a full channel  *)
(* if the tasks that it found fit: whatever is written, removed or read        *)
(* meanwhile, no send blocks for ever.  This is the safety half of             *)
(* WatchReturns.                                                               *)
THEOREM StartNeverBlocks == Spec => []StartHasRoom
  <1>1. Init => WatchInv /\ Fits
    BY WatchInit DEF Init, Fits, Sending
  <1>2. WatchInv /\ Fits /\ [Next]_vars => WatchInv' /\ Fits'
    BY WatchStep, FitsStep DEF WatchInv
  <1>3. WatchInv /\ Fits => StartHasRoom
    <2> SUFFICES ASSUME WatchInv, Fits, Sending, todo # {},
                        Cardinality(Listed) <= ChanSize[backend]
                 PROVE  Room
      BY DEF StartHasRoom
    <2>1. /\ IsFiniteSet(todo) /\ Cardinality(todo) \in Nat /\ Cardinality(todo) # 0
          /\ Len(eventChan) + Cardinality(todo) <= Cardinality(Listed)
      BY FS_CardinalityType, FS_EmptySet DEF Fits
    <2>2. Cardinality(Listed) \in Nat
      BY WatchAssumption, FS_Subset, FS_CardinalityType DEF Listed
    <2>3. ChanSize[backend] \in Nat /\ Len(eventChan) \in Nat
      BY WatchAssumption DEF WatchInv, TypeOK
    <2> QED
      BY <2>1, <2>2, <2>3 DEF Room
  <1> QED
    BY <1>1, <1>2, <1>3, PTL DEF Spec

=============================================================================
