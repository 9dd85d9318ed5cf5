---------------------------- MODULE ExecLockProofs ----------------------------
(* The execution lock keeps its promise for any number of nodes and instants,  *)
(* as long as Punctual holds.                                                   *)
EXTENDS ExecLock, TLAPS

(* A clock read less than a second after a whole second is in that second. *)
LEMMA DivSame ==
  ASSUME NEW S \in Nat \ {0}, NEW i \in Nat, NEW x \in Nat, i % S = 0, i <= x, x < i + S
  PROVE  x \div S = i \div S
  OBVIOUS

(* Whole seconds are told apart by their number. *)
LEMMA DivInjective ==
  ASSUME NEW S \in Nat \ {0}, NEW i \in Nat, NEW j \in Nat,
         i % S = 0, j % S = 0, i \div S = j \div S
  PROVE  i = j
  OBVIOUS

(* A time in an earlier second is an earlier time. *)
LEMMA DivMonotone ==
  ASSUME NEW S \in Nat \ {0}, NEW a \in Int, NEW b \in Int, a \div S < b \div S
  PROVE  a < b
  OBVIOUS

(* A whole second is its number times the length of a second. *)
LEMMA DivExact ==
  ASSUME NEW S \in Nat \ {0}, NEW i \in Nat, i % S = 0
  PROVE  (i \div S) * S = i
  OBVIOUS

(* The type of a quotient. *)
LEMMA DivType ==
  ASSUME NEW S \in Nat \ {0}, NEW a \in Nat
  PROVE  a \div S \in Nat
  OBVIOUS

-----------------------------------------------------------------------------
(* A call under way has read the clock in time, and in the past. *)
Timely ==
  \A n \in Node, i \in Instant :
    pc[n][i] = "calling" => /\ i <= execTime[n][i]
                            /\ execTime[n][i] <= i + MaxLate
                            /\ execTime[n][i] <= Clock(n)

(* The instant is taken, by a run or by a call whose answer was lost. *)
TakenAt(i) == \E n \in Node : pc[n][i] \in {"granted", "lost"}

(* The earliest time at which the key of instant i may be gone. *)
Gone(i) == i + KeyLife - MaxOffset

(* The key, as every node names it, is there and will be until then. *)
Locked(i) ==
  \A n \in Node : \E key \in keys :
    key.name = KeyOf(n, i) /\ (backend = "redis" => key.expires >= Gone(i))

(* While a call for an instant that is taken can still arrive, its key is there. *)
Guarded == \A i \in Instant \ wiped : TakenAt(i) => now >= Gone(i) \/ Locked(i)

(* The event cleaners delete no key before its time. *)
Patient ==
  \A e \in events : \E m \in Node, j \in Instant :
    backend # "redis" /\ e.name = KeyOf(m, j) /\ e.at >= j + KeyLife

(* Every key was created by a call for its own second that is over. *)
Justified ==
  \A key \in keys : \E m \in Node, j \in Instant :
    key.name = KeyOf(m, j) /\ pc[m][j] \in {"granted", "lost"}

IInv ==
  TypeOK /\ Timely /\ Guarded /\ Patient /\ Justified /\ AtMostOnce /\ RefusedOnlyOnce

(* The initial state. *)
LEMMA InitIInv == Init => IInv
  BY TimeAssumption
  DEF Init, IInv, TypeOK, Timely, Guarded, TakenAt, Patient, Justified, AtMostOnce,
      RefusedOnlyOnce, Run

(* The key of a call is the key of its instant. *)
LEMMA KeyOfInstant ==
  ASSUME Punctual, TypeOK, Timely, NEW n \in Node, NEW i \in Instant, pc[n][i] = "calling"
  PROVE  MyKey(n, i) = KeyOf(n, i) /\ MyKey(n, i) \in Name
  <1>1. execTime[n][i] \in Nat /\ i \in Nat /\ i % Second = 0 /\ Second \in Nat \ {0}
        /\ MaxLate \in Nat
    BY TimeAssumption DEF TypeOK
  <1>2. i <= execTime[n][i] /\ execTime[n][i] < i + Second
    BY <1>1 DEF Timely, Punctual
  <1>3. execTime[n][i] \div Second = i \div Second
    BY <1>1, <1>2, DivSame
  <1>4. execTime[n][i] \div Second \in Nat
    BY <1>1, DivType
  <1>5. Zone[n] \in Int
    BY TimeAssumption
  <1> QED
    BY <1>3, <1>4, <1>5 DEF MyKey, KeyOf, Name

(* In a cluster of one zone the nodes agree on the key of an instant... *)
LEMMA SameKey ==
  ASSUME Punctual, TypeOK, NEW m \in Node, NEW n \in Node, NEW i \in Instant
  PROVE  KeyOf(m, i) = KeyOf(n, i)
  BY DEF Punctual, KeyOf, TypeOK

(* ...and two instants never have the same. *)
LEMMA KeyTells ==
  ASSUME NEW m \in Node, NEW n \in Node, NEW i \in Instant, NEW j \in Instant,
         KeyOf(m, j) = KeyOf(n, i)
  PROVE  j = i
  <1>1. KeyOf(n, i).second = i \div Second /\ KeyOf(m, j).second = j \div Second
    BY DEF KeyOf
  <1>2. i \in Nat /\ j \in Nat /\ i % Second = 0 /\ j % Second = 0 /\ Second \in Nat \ {0}
    BY TimeAssumption
  <1>3. i \div Second = j \div Second
    BY <1>1
  <1> QED
    BY <1>2, <1>3, DivInjective

(* A call that arrives for an instant that is taken finds the key. *)
LEMMA NotTwice ==
  ASSUME Punctual, IInv, NEW n \in Node, NEW i \in Instant \ wiped,
         pc[n][i] = "calling", InTime(n, i), TakenAt(i)
  PROVE  Held(MyKey(n, i))
  <1>1. /\ now \in Nat /\ i \in Nat /\ execTime[n][i] \in Nat
        /\ Offset[n] \in 0 .. MaxOffset /\ MaxOffset \in Nat
        /\ MaxLate \in Nat /\ MaxCall \in Nat /\ KeyLife \in Nat
    BY TimeAssumption DEF IInv, TypeOK
  <1>2. now + Offset[n] <= i + MaxLate + MaxCall
    BY <1>1 DEF IInv, Timely, InTime, Clock
  <1>3. now < Gone(i) /\ Gone(i) \in Int
    BY <1>1, <1>2 DEF Gone, Punctual
  <1>4. Locked(i)
    BY <1>1, <1>3 DEF IInv, Guarded
  <1>5. PICK key \in keys :
          key.name = KeyOf(n, i) /\ (backend = "redis" => key.expires >= Gone(i))
    BY <1>4 DEF Locked
  <1>6. backend = "redis" => now < key.expires
    <2>1. key.expires \in Nat
      BY DEF IInv, TypeOK, Key
    <2> QED
      BY <1>1, <1>3, <1>5, <2>1
  <1>7. MyKey(n, i) = KeyOf(n, i)
    BY KeyOfInstant DEF IInv
  <1> QED
    BY <1>5, <1>6, <1>7 DEF Held

(* No sweep finds the key of an instant old before Gone. *)
LEMMA YoungNotOld ==
  ASSUME Punctual, IInv, NEW n \in Node, NEW m \in Node, NEW j \in Instant,
         ~ (now >= Gone(j)), NEW key \in keys, key.name = KeyOf(m, j)
  PROVE  key \notin Old(n)
  <1>1. /\ now \in Nat /\ j \in Nat /\ j % Second = 0 /\ Offset[n] \in 0 .. MaxOffset
        /\ KeyLife \in Nat /\ Threshold \in Nat /\ MaxOffset \in Nat
        /\ Second \in Nat \ {0}
    BY TimeAssumption DEF IInv, TypeOK
  <1>2. Clock(n) - j < Threshold /\ Clock(n) \in Int
    BY <1>1 DEF Gone, Clock, Punctual
  <1>3. key.name.second = j \div Second
    BY DEF KeyOf
  <1>4. ~ (j \div Second < (Clock(n) - Threshold) \div Second)
    BY <1>1, <1>2, DivMonotone
  <1>5. (j \div Second) * Second = j
    BY <1>1, DivExact
  <1>6. key \notin EtcdOld(n)
    BY <1>3, <1>4 DEF EtcdOld
  <1>7. /\ ~ (Clock(n) - key.name.second * Second >= Threshold)
        /\ ~ (Clock(n) - key.name.second * Second > Threshold)
    BY <1>1, <1>2, <1>3, <1>5
  <1>8. key \notin ConsulOld(n) /\ key \notin ZkOld(n)
    BY <1>7 DEF ConsulOld, ZkOld
  <1> QED
    BY <1>6, <1>8 DEF Old

(* The key that a call creates is the one of its instant and lives until Gone. *)
LEMMA CreatedLives ==
  ASSUME Punctual, IInv, NEW n \in Node, NEW i \in Instant, pc[n][i] = "calling"
  PROVE  /\ Created(n, i) \in Key
         /\ Created(n, i).name = KeyOf(n, i)
         /\ backend = "redis" => Created(n, i).expires >= Gone(i)
         /\ execTime[n][i] + KeyLife \in Nat /\ execTime[n][i] + KeyLife >= i + KeyLife
         /\ MyKey(n, i) = KeyOf(n, i) /\ MyKey(n, i) \in Name
  <1>1. /\ now \in Nat /\ i \in Nat /\ execTime[n][i] \in Nat
        /\ Offset[n] \in 0 .. MaxOffset /\ MaxOffset \in Nat /\ KeyLife \in Nat
    BY TimeAssumption DEF IInv, TypeOK
  <1>2. i <= execTime[n][i] /\ execTime[n][i] <= now + Offset[n]
    BY DEF IInv, Timely, Clock
  <1>3. MyKey(n, i) = KeyOf(n, i) /\ MyKey(n, i) \in Name
    BY KeyOfInstant DEF IInv
  <1>4. now + KeyLife \in Nat /\ now + KeyLife >= Gone(i)
    BY <1>1, <1>2 DEF Gone
  <1>5. execTime[n][i] + KeyLife \in Nat /\ execTime[n][i] + KeyLife >= i + KeyLife
    BY <1>1, <1>2
  <1> QED
    BY <1>3, <1>4, <1>5 DEF Created, Key

-----------------------------------------------------------------------------
(* What an answer to the call of n for i changes: it is over, and nothing else *)
(* begins, ends or is forgotten.                                               *)
LEMMA AnswerStep ==
  ASSUME IInv, NEW n \in Node, NEW i \in Instant, NEW where \in Run \ {"waiting", "calling"},
         Answer(n, i, where), UNCHANGED <<backend, now>>
  PROVE  /\ pc[n][i] = "calling" /\ InTime(n, i)
         /\ pc' \in [Node -> [Instant -> Run]] /\ execTime' \in [Node -> [Instant -> Nat]]
         /\ Timely'
         /\ pc'[n][i] = where
         /\ \A m \in Node, j \in Instant : m # n \/ j # i => pc'[m][j] = pc[m][j]
         /\ \A m \in Node, j \in Instant :
              pc[m][j] \in {"granted", "lost"} => pc'[m][j] = pc[m][j]
         /\ \A j \in Instant : TakenAt(j) => TakenAt(j)'
         /\ \A j \in Instant : TakenAt(j)' => TakenAt(j) \/ (j = i /\ where \in {"granted", "lost"})
  <1>1. /\ pc[n][i] = "calling" /\ InTime(n, i)
        /\ pc' = [pc EXCEPT ![n][i] = where]
        /\ execTime' = [execTime EXCEPT ![n][i] = 0]
    BY DEF Answer, Goto
  <1>2. pc' \in [Node -> [Instant -> Run]] /\ execTime' \in [Node -> [Instant -> Nat]]
    BY <1>1 DEF IInv, TypeOK
  <1>3. pc'[n][i] = where /\ \A m \in Node, j \in Instant : m # n \/ j # i =>
          pc'[m][j] = pc[m][j] /\ execTime'[m][j] = execTime[m][j]
    BY <1>1 DEF IInv, TypeOK
  <1>4. Timely'
    BY <1>3 DEF IInv, Timely, Clock
  <1>5. \A m \in Node, j \in Instant :
          pc[m][j] \in {"granted", "lost"} => pc'[m][j] = pc[m][j]
    BY <1>1, <1>3
  <1>6. \A j \in Instant : TakenAt(j) => TakenAt(j)'
    BY <1>5 DEF TakenAt
  <1>7. \A j \in Instant : TakenAt(j)' => TakenAt(j) \/ (j = i /\ where \in {"granted", "lost"})
    BY <1>3 DEF TakenAt
  <1> QED
    BY <1>1, <1>2, <1>3, <1>4, <1>5, <1>6, <1>7

(* Steps at which no run changes keep what is said of the runs alone. *)
LEMMA RunsKept ==
  ASSUME IInv, UNCHANGED <<backend, now, pc, execTime, stopped>>,
         events' \subseteq events, keys' \subseteq keys,
         wiped \subseteq wiped', wiped' \subseteq Instant
  PROVE  /\ TypeOK' /\ Timely' /\ Patient' /\ Justified' /\ AtMostOnce' /\ RefusedOnlyOnce'
         /\ \A j \in Instant : TakenAt(j)' = TakenAt(j) /\ Gone(j)' = Gone(j)
  <1> USE DEF IInv
  <1>1. TypeOK'
    BY DEF TypeOK
  <1>2. Timely'
    BY DEF Timely, Clock
  <1>3. Patient'
    BY DEF Patient, KeyOf
  <1>4. Justified'
    BY DEF Justified, KeyOf
  <1>5. AtMostOnce' /\ RefusedOnlyOnce'
    BY DEF AtMostOnce, RefusedOnlyOnce
  <1>6. \A j \in Instant : TakenAt(j)' = TakenAt(j) /\ Gone(j)' = Gone(j)
    BY DEF TakenAt, Gone
  <1> QED
    BY <1>1, <1>2, <1>3, <1>4, <1>5, <1>6

(* A deletion that leaves the keys of the instants that matter keeps them      *)
(* guarded.                                                                    *)
LEMMA GuardedKept ==
  ASSUME IInv, UNCHANGED <<backend, now, pc>>, wiped \subseteq wiped',
         \A j \in Instant \ wiped' : TakenAt(j) /\ ~ (now >= Gone(j)) =>
            \A m \in Node, key \in keys : key.name = KeyOf(m, j) => key \in keys'
  PROVE  Guarded'
  <1> SUFFICES ASSUME NEW j \in Instant \ wiped', TakenAt(j), ~ (now >= Gone(j)), NEW m \in Node
               PROVE  \E key \in keys' : key.name = KeyOf(m, j)
                                         /\ (backend = "redis" => key.expires >= Gone(j))
    BY DEF Guarded, Locked, TakenAt, KeyOf, Gone
  <1>1. PICK key \in keys : key.name = KeyOf(m, j) /\ (backend = "redis" => key.expires >= Gone(j))
    BY DEF IInv, Guarded, Locked
  <1> QED
    BY <1>1

(* Every step keeps the invariant. *)
LEMMA NextIInv ==
  ASSUME Punctual, IInv, [Next]_vars
  PROVE  IInv'
  <1> USE DEF IInv
  <1>1. CASE Advance
    <2>1. TypeOK' /\ now' = now + 1 /\ now \in Nat
      BY <1>1 DEF TypeOK, Advance
    <2>2. Timely'
      <3>1. UNCHANGED <<pc, execTime>>
        BY <1>1 DEF Advance
      <3>2. \A n \in Node, i \in Instant : execTime[n][i] \in Nat /\ Offset[n] \in Nat
        BY TimeAssumption DEF TypeOK
      <3>3. \A n \in Node, i \in Instant :
              execTime[n][i] <= now + Offset[n] => execTime[n][i] <= now' + Offset[n]
        BY <2>1, <3>2
      <3> QED
        BY <3>1, <3>3 DEF Timely, Clock
    <2>3. \A i \in Instant : Gone(i) \in Int
      BY TimeAssumption DEF Gone
    <2>4. Guarded'
      BY <1>1, <2>1, <2>3 DEF Advance, Guarded, Locked, TakenAt, KeyOf, Gone
    <2>5. Patient' /\ Justified'
      BY <1>1 DEF Advance, Patient, Justified, KeyOf
    <2>6. AtMostOnce' /\ RefusedOnlyOnce'
      BY <1>1 DEF Advance, AtMostOnce, RefusedOnlyOnce
    <2> QED
      BY <2>1, <2>2, <2>4, <2>5, <2>6
  <1>2. ASSUME NEW n \in Node, NEW i \in Instant, Fire(n, i)
        PROVE  IInv'
    <2>1. Clock(n) \in Nat /\ i \in Nat
      BY TimeAssumption DEF TypeOK, Clock
    <2>2. TypeOK'
      BY <1>2, <2>1 DEF TypeOK, Fire, Goto, Run
    <2>3. Timely'
      BY <1>2, <2>1 DEF TypeOK, Timely, Fire, Goto, Clock
    <2>4. /\ UNCHANGED <<backend, now, keys, events, wiped>>
          /\ pc[n][i] = "waiting" /\ pc'[n][i] = "calling"
          /\ \A m \in Node, j \in Instant : m # n \/ j # i => pc'[m][j] = pc[m][j]
      BY <1>2 DEF TypeOK, Fire, Goto
    <2>5. \A m \in Node, j \in Instant :
            /\ pc[m][j] \in {"granted", "lost"} => pc'[m][j] = pc[m][j]
            /\ pc'[m][j] \in {"refused", "granted", "lost"} => pc[m][j] = pc'[m][j]
      BY <2>4
    <2>6. Guarded'
      BY <2>4, <2>5 DEF Guarded, Locked, TakenAt, KeyOf, Gone
    <2>7. Patient' /\ Justified'
      BY <2>4, <2>5 DEF Patient, Justified, KeyOf
    <2>8. AtMostOnce' /\ RefusedOnlyOnce'
      BY <2>4, <2>5 DEF AtMostOnce, RefusedOnlyOnce
    <2> QED
      BY <2>2, <2>3, <2>6, <2>7, <2>8
  <1>3. ASSUME NEW n \in Node, NEW i \in Instant, NEW where \in {"granted", "lost"},
               Answer(n, i, where), ~ Held(MyKey(n, i)), keys' = keys \cup {Created(n, i)},
               SendEvent(n, i) \/ events' = events,
               UNCHANGED <<backend, now, stopped, wiped>>
        PROVE  IInv'
    <2>1. where \in Run \ {"waiting", "calling"}
      BY DEF Run
    <2>2. /\ pc[n][i] = "calling" /\ InTime(n, i)
          /\ pc' \in [Node -> [Instant -> Run]] /\ execTime' \in [Node -> [Instant -> Nat]]
          /\ Timely'
          /\ pc'[n][i] = where
          /\ \A m \in Node, j \in Instant : m # n \/ j # i => pc'[m][j] = pc[m][j]
          /\ \A m \in Node, j \in Instant :
               pc[m][j] \in {"granted", "lost"} => pc'[m][j] = pc[m][j]
          /\ \A j \in Instant : TakenAt(j)' => TakenAt(j) \/ j = i
      BY <1>3, <2>1, AnswerStep
    <2>3. i \notin wiped => ~ TakenAt(i)
      BY <1>3, <2>2, NotTwice
    <2>4. /\ Created(n, i) \in Key
          /\ Created(n, i).name = KeyOf(n, i)
          /\ backend = "redis" => Created(n, i).expires >= Gone(i)
          /\ execTime[n][i] + KeyLife \in Nat /\ execTime[n][i] + KeyLife >= i + KeyLife
          /\ MyKey(n, i) = KeyOf(n, i) /\ MyKey(n, i) \in Name
      BY <2>2, CreatedLives
    <2>5. \A e \in events' : e \in events \/
            /\ backend # "redis" /\ e \in Event
            /\ e.name = KeyOf(n, i) /\ e.at >= i + KeyLife
      BY <1>3, <2>4 DEF SendEvent, Event
    <2>6. TypeOK'
      BY <1>3, <2>2, <2>4, <2>5 DEF TypeOK
    <2>7. Guarded'
      <3> SUFFICES ASSUME NEW j \in Instant \ wiped, TakenAt(j)', ~ (now >= Gone(j)), NEW m \in Node
                   PROVE  \E key \in keys' : key.name = KeyOf(m, j)
                                             /\ (backend = "redis" => key.expires >= Gone(j))
        BY <1>3 DEF Guarded, Locked, KeyOf, Gone
      <3>1. CASE j = i
        BY <1>3, <2>4, <3>1, SameKey
      <3>2. CASE j # i
        <4>1. TakenAt(j)
          BY <2>2, <3>2
        <4> QED
          BY <1>3, <4>1 DEF Guarded, Locked
      <3> QED
        BY <3>1, <3>2
    <2>8. Patient'
      BY <1>3, <2>5 DEF Patient, KeyOf
    <2>9. Justified'
      <3> SUFFICES ASSUME NEW key \in keys'
                   PROVE  \E m \in Node, j \in Instant :
                            key.name = KeyOf(m, j) /\ pc'[m][j] \in {"granted", "lost"}
        BY <1>3 DEF Justified, KeyOf
      <3>1. CASE key \in keys
        BY <2>2, <3>1 DEF Justified
      <3>2. CASE key = Created(n, i)
        BY <2>2, <2>4, <3>2
      <3> QED
        BY <1>3, <3>1, <3>2
    <2>10. AtMostOnce'
      <3> SUFFICES ASSUME NEW j \in Instant \ wiped, NEW m \in Node, NEW l \in Node,
                          pc'[m][j] = "granted", pc'[l][j] = "granted"
                   PROVE  m = l
        BY <1>3 DEF AtMostOnce
      <3>1. CASE j = i
        BY <2>2, <2>3, <3>1 DEF TakenAt
      <3>2. CASE j # i
        BY <2>2, <3>2 DEF AtMostOnce
      <3> QED
        BY <3>1, <3>2
    <2>11. RefusedOnlyOnce'
      BY <2>2 DEF RefusedOnlyOnce
    <2> QED
      BY <2>2, <2>6, <2>7, <2>8, <2>9, <2>10, <2>11
  <1>4. ASSUME NEW n \in Node, NEW i \in Instant, NEW where \in {"refused", "failed"},
               Answer(n, i, where), where = "refused" => Held(MyKey(n, i)),
               UNCHANGED <<backend, now, keys, events, stopped, wiped>>
        PROVE  IInv'
    <2>1. where \in Run \ {"waiting", "calling"}
      BY DEF Run
    <2>2. /\ pc[n][i] = "calling"
          /\ pc' \in [Node -> [Instant -> Run]] /\ execTime' \in [Node -> [Instant -> Nat]]
          /\ Timely'
          /\ pc'[n][i] = where
          /\ \A m \in Node, j \in Instant : m # n \/ j # i => pc'[m][j] = pc[m][j]
          /\ \A m \in Node, j \in Instant :
               pc[m][j] \in {"granted", "lost"} => pc'[m][j] = pc[m][j]
          /\ \A j \in Instant : TakenAt(j)' => TakenAt(j)
      BY <1>4, <2>1, AnswerStep
    <2>3. TypeOK'
      BY <1>4, <2>2 DEF TypeOK
    <2>4. Guarded'
      BY <1>4, <2>2 DEF Guarded, Locked, KeyOf, Gone
    <2>5. Patient'
      BY <1>4 DEF Patient, KeyOf
    <2>6. Justified'
      <3> SUFFICES ASSUME NEW key \in keys
                   PROVE  \E m \in Node, j \in Instant :
                            key.name = KeyOf(m, j) /\ pc'[m][j] \in {"granted", "lost"}
        BY <1>4 DEF Justified, KeyOf
      <3> QED
        BY <2>2 DEF Justified
    <2>7. AtMostOnce'
      BY <1>4, <2>2 DEF AtMostOnce
    <2>8. where = "refused" => \E m \in Node \ {n} : pc'[m][i] \in {"granted", "lost"}
      <3> SUFFICES ASSUME where = "refused"
                   PROVE  \E m \in Node \ {n} : pc'[m][i] \in {"granted", "lost"}
        OBVIOUS
      <3>1. PICK key \in keys : key.name = MyKey(n, i)
        BY <1>4 DEF Held
      <3>2. PICK m \in Node, j \in Instant :
              key.name = KeyOf(m, j) /\ pc[m][j] \in {"granted", "lost"}
        BY DEF Justified
      <3>3. MyKey(n, i) = KeyOf(n, i)
        BY <2>2, KeyOfInstant
      <3>4. i = j
        BY <3>1, <3>2, <3>3, KeyTells
      <3>5. m # n
        BY <2>2, <3>2, <3>4
      <3> QED
        BY <2>2, <3>2, <3>4, <3>5
    <2>9. RefusedOnlyOnce'
      BY <2>2, <2>8 DEF RefusedOnlyOnce
    <2> QED
      BY <2>2, <2>3, <2>4, <2>5, <2>7, <2>9, <2>6
  <1>5. ASSUME NEW n \in Node, NEW i \in Instant,
               CanRunTask(n, i) \/ CanRunTaskRefused(n, i) \/ CanRunTaskFails(n, i)
        PROVE  IInv'
    <2>1. CASE CanRunTask(n, i)
      BY <1>3, <2>1 DEF CanRunTask
    <2>2. CASE CanRunTaskRefused(n, i)
      BY <1>4, <2>2 DEF CanRunTaskRefused
    <2>3. CASE CanRunTaskFails(n, i)
      BY <1>3, <1>4, <2>3 DEF CanRunTaskFails
    <2> QED
      BY <1>5, <2>1, <2>2, <2>3
  <1>6. ASSUME NEW e \in events, batchDeleteExecKeys(e)
        PROVE  IInv'
    <2>1. /\ events' = events \ {e}
          /\ keys' = keys \/ keys' = {key \in keys : key.name # e.name}
          /\ UNCHANGED <<backend, now, pc, execTime, stopped, wiped>>
      BY <1>6 DEF batchDeleteExecKeys, Without
    <2>2. PICK m \in Node, j \in Instant :
            backend # "redis" /\ e.name = KeyOf(m, j) /\ e.at >= j + KeyLife
      BY DEF Patient
    <2>3. e.node \in Node /\ e.at \in Nat
      BY DEF TypeOK, Event
    <2>4. stopped = {}
      BY <2>2 DEF TypeOK, Punctual
    <2>5. now + Offset[e.node] >= e.at
      BY <1>6, <2>4 DEF batchDeleteExecKeys, Clock
    <2>6. now >= Gone(j)
      <3>1. /\ now \in Nat /\ j \in Nat /\ Offset[e.node] \in 0 .. MaxOffset
            /\ MaxOffset \in Nat /\ KeyLife \in Nat
        BY <2>3, TimeAssumption DEF TypeOK
      <3> QED
        BY <2>2, <2>3, <2>5, <3>1 DEF Gone
    <2>7. \A i \in Instant, n \in Node : KeyOf(n, i) = e.name => i = j
      BY <2>2, KeyTells
    <2>8. Guarded'
      BY <2>1, <2>6, <2>7, GuardedKept
    <2> QED
      BY <2>1, <2>8, RunsKept DEF TypeOK
  <1>7. ASSUME NEW n \in Node, tryCleanupHistoryExecKeys(n)
        PROVE  IInv'
    <2>1. PICK S \in SUBSET Old(n) :
            /\ keys' = keys \ S
            /\ UNCHANGED <<backend, now, pc, execTime, events, stopped, wiped>>
      BY <1>7 DEF tryCleanupHistoryExecKeys
    <2>2. \A j \in Instant : ~ (now >= Gone(j)) =>
            \A m \in Node, key \in keys : key.name = KeyOf(m, j) => key \notin Old(n)
      BY YoungNotOld
    <2>3. Guarded'
      BY <2>1, <2>2, GuardedKept
    <2> QED
      BY <2>1, <2>3, RunsKept DEF TypeOK
  <1>8. CASE ForceCleanupAllTasks
    <2>1. PICK S \in SUBSET keys :
            /\ keys' = keys \ S
            /\ wiped' = wiped \cup {i \in Instant :
                                      \E n \in Node, key \in S : key.name = KeyOf(n, i)}
            /\ UNCHANGED <<backend, now, pc, execTime, events, stopped>>
      BY <1>8 DEF ForceCleanupAllTasks
    <2>2. wiped \subseteq wiped' /\ wiped' \subseteq Instant
      BY <2>1 DEF TypeOK
    <2>3. \A j \in Instant \ wiped' : \A m \in Node, key \in keys :
            key.name = KeyOf(m, j) => key \in keys'
      BY <2>1
    <2>4. Guarded'
      BY <2>1, <2>2, <2>3, GuardedKept
    <2> QED
      BY <2>1, <2>2, <2>4, RunsKept
  <1>9. ASSUME NEW n \in Node, Stop(n)
        PROVE  IInv'
    <2>1. /\ stopped' = stopped \cup {n} /\ n \in MayStop[backend]
          /\ UNCHANGED <<backend, now, pc, execTime, keys, events, wiped>>
      BY <1>9 DEF Stop
    <2>2. TypeOK' /\ Timely'
      BY <2>1 DEF TypeOK, Timely, Clock
    <2>3. Guarded'
      BY <2>1, GuardedKept
    <2>4. Patient' /\ Justified'
      BY <2>1 DEF Patient, Justified, KeyOf
    <2>5. AtMostOnce' /\ RefusedOnlyOnce'
      BY <2>1 DEF AtMostOnce, RefusedOnlyOnce
    <2> QED
      BY <2>2, <2>3, <2>4, <2>5
  <1>10. CASE UNCHANGED vars
    <2>1. UNCHANGED <<backend, now, pc, execTime, keys, events, stopped, wiped>>
      BY <1>10 DEF vars
    <2>2. Guarded'
      BY <2>1, GuardedKept
    <2> QED
      BY <2>1, <2>2, RunsKept DEF TypeOK
  <1> QED
    BY <1>1, <1>2, <1>5, <1>6, <1>7, <1>8, <1>9, <1>10 DEF Next

-----------------------------------------------------------------------------
(* With clocks, zones, schedulers and calls within the bounds of Punctual, no  *)
(* two nodes are ever granted the same instant by CanRunTask, unless            *)
(* ForceCleanupAllTasks has deleted its key.                                    *)
THEOREM LockAtMostOnce ==
  ASSUME Punctual
  PROVE  Spec => []AtMostOnce
  <1>1. IInv /\ [Next]_vars => IInv'
    BY NextIInv
  <1>2. IInv => AtMostOnce
    BY DEF IInv
  <1> QED
    BY <1>1, <1>2, InitIInv, PTL DEF Spec

(* Under the same bounds, CanRunTask refuses a run only when another node has  *)
(* taken the very same instant.                                                *)
THEOREM LockRefusesOnlyOnce ==
  ASSUME Punctual
  PROVE  Spec => []RefusedOnlyOnce
  <1>1. IInv /\ [Next]_vars => IInv'
    BY NextIInv
  <1>2. IInv => RefusedOnlyOnce
    BY DEF IInv
  <1> QED
    BY <1>1, <1>2, InitIInv, PTL DEF Spec

(* The state of ExecOnce that a state of the lock stands for. *)
answerBar == [i \in Instant |-> [n \in Node |-> Answered(n, i)]]

(* An answer of the lock is an answer of ExecOnce. *)
LEMMA ReplyStep ==
  ASSUME IInv, NEW n \in Node, NEW i \in Instant, NEW where \in Run \ {"waiting", "calling"},
         Answer(n, i, where), UNCHANGED <<backend, now, wiped>>
  PROVE  Promise!Reply(i, n, where)
  <1>1. /\ pc[n][i] = "calling" /\ pc'[n][i] = where
        /\ \A m \in Node, j \in Instant : m # n \/ j # i => pc'[m][j] = pc[m][j]
    BY AnswerStep
  <1>2. Answered(n, i) = "none" /\ Answered(n, i)' = where
    BY <1>1 DEF Answered
  <1>3. \A m \in Node, j \in Instant : m # n \/ j # i => Answered(m, j)' = Answered(m, j)
    BY <1>1 DEF Answered
  <1>4. answerBar' = [answerBar EXCEPT ![i][n] = where]
    <2> DEFINE f == [answerBar EXCEPT ![i][n] = where]
    <2>1. ASSUME NEW j \in Instant PROVE f[j] = answerBar'[j]
      <3>1. /\ answerBar[j] = [m \in Node |-> Answered(m, j)]
            /\ answerBar'[j] = [m \in Node |-> Answered(m, j)']
        BY DEF answerBar
      <3>2. f[j] = IF j = i THEN [answerBar[j] EXCEPT ![n] = where] ELSE answerBar[j]
        BY DEF answerBar
      <3> HIDE DEF f
      <3>3. CASE j = i
        BY <1>2, <1>3, <3>1, <3>2, <3>3
      <3>4. CASE j # i
        BY <1>3, <3>1, <3>2, <3>4
      <3> QED
        BY <3>3, <3>4
    <2>2. f = [j \in Instant |-> f[j]] /\ answerBar' = [j \in Instant |-> answerBar'[j]]
      BY DEF answerBar
    <2> HIDE DEF f
    <2>3. f = answerBar'
      BY <2>1, <2>2
    <2> QED
      BY <2>3 DEF f
  <1>5. answerBar[i][n] = "none"
    BY <1>2 DEF answerBar
  <1> QED
    BY <1>4, <1>5 DEF Promise!Reply, answerBar

(* An instant is taken in ExecOnce when it is taken here. *)
LEMMA TakenBar ==
  ASSUME NEW i \in Instant
  PROVE  Promise!Taken(i) <=> TakenAt(i)
  BY DEF Promise!Taken, TakenAt, Answered

(* Every step of the lock is a step of ExecOnce or none. *)
LEMMA PromiseStep ==
  ASSUME Punctual, IInv, [Next]_vars
  PROVE  Promise!Next \/ UNCHANGED <<answerBar, wiped>>
  <1>1. ASSUME NEW n \in Node, NEW i \in Instant, NEW where \in {"granted", "lost"},
               Answer(n, i, where), ~ Held(MyKey(n, i)), UNCHANGED <<backend, now, wiped>>
        PROVE  Promise!Next
    <2>1. ~ Promise!Taken(i) \/ i \in wiped
      BY <1>1, NotTwice, TakenBar DEF Answer
    <2>2. Promise!Reply(i, n, where)
      BY <1>1, ReplyStep DEF Run
    <2> QED
      BY <2>1, <2>2 DEF Promise!Next, Promise!Take
  <1>2. ASSUME NEW n \in Node, NEW i \in Instant, CanRunTaskRefused(n, i)
        PROVE  Promise!Next
    <2>1. Promise!Reply(i, n, "refused")
      BY <1>2, ReplyStep DEF CanRunTaskRefused, Run
    <2>2. Promise!Taken(i)
      <3>1. /\ pc'[n][i] = "refused" /\ RefusedOnlyOnce'
            /\ \A m \in Node : m # n => pc'[m][i] = pc[m][i]
        BY <1>2, AnswerStep, NextIInv DEF CanRunTaskRefused, Run, IInv
      <3>2. TakenAt(i)
        BY <3>1 DEF RefusedOnlyOnce, TakenAt
      <3> QED
        BY <3>2, TakenBar
    <2> QED
      BY <2>1, <2>2 DEF Promise!Next, Promise!Refuse
  <1>3. ASSUME NEW n \in Node, NEW i \in Instant, Answer(n, i, "failed"),
               UNCHANGED <<backend, now, wiped>>
        PROVE  Promise!Next
    BY <1>3, ReplyStep DEF Run, Promise!Next, Promise!Fail
  <1>4. ASSUME NEW n \in Node, NEW i \in Instant, Fire(n, i)
        PROVE  UNCHANGED <<answerBar, wiped>>
    <2>1. /\ wiped' = wiped /\ pc[n][i] = "waiting" /\ pc'[n][i] = "calling"
          /\ \A m \in Node, j \in Instant : m # n \/ j # i => pc'[m][j] = pc[m][j]
      BY <1>4 DEF IInv, TypeOK, Fire, Goto
    <2>2. \A m \in Node, j \in Instant : Answered(m, j)' = Answered(m, j)
      BY <2>1 DEF Answered
    <2> QED
      BY <2>1, <2>2 DEF answerBar
  <1>5. CASE ForceCleanupAllTasks
    <2>1. PICK S \in SUBSET keys :
            /\ wiped' = wiped \cup {i \in Instant :
                                      \E n \in Node, key \in S : key.name = KeyOf(n, i)}
            /\ pc' = pc
      BY <1>5 DEF ForceCleanupAllTasks
    <2> DEFINE I == {i \in Instant : \E n \in Node, key \in S : key.name = KeyOf(n, i)}
    <2>2. ASSUME NEW i \in I PROVE Promise!Taken(i)
      <3>1. PICK n \in Node, key \in keys : key.name = KeyOf(n, i)
        OBVIOUS
      <3>2. PICK m \in Node, j \in Instant :
              key.name = KeyOf(m, j) /\ pc[m][j] \in {"granted", "lost"}
        BY DEF IInv, Justified
      <3>3. j = i
        BY <3>1, <3>2, KeyTells
      <3> QED
        BY <3>2, <3>3, TakenBar DEF TakenAt
    <2>3. answerBar' = answerBar
      BY <2>1 DEF answerBar, Answered
    <2>4. Promise!Reset(I)
      BY <2>1, <2>2, <2>3 DEF Promise!Reset, answerBar
    <2> QED
      BY <2>4 DEF Promise!Next
  <1>6. ASSUME pc' = pc, wiped' = wiped
        PROVE  UNCHANGED <<answerBar, wiped>>
    BY <1>6 DEF answerBar, Answered
  <1>7. ASSUME NEW n \in Node, NEW i \in Instant, CanRunTask(n, i) \/ CanRunTaskFails(n, i)
        PROVE  Promise!Next
    BY <1>1, <1>3, <1>7 DEF CanRunTask, CanRunTaskFails
  <1>8. ASSUME Advance \/ (\E e \in events : batchDeleteExecKeys(e))
               \/ (\E n \in Node : tryCleanupHistoryExecKeys(n) \/ Stop(n)) \/ UNCHANGED vars
        PROVE  pc' = pc /\ wiped' = wiped
    BY <1>8 DEF Advance, batchDeleteExecKeys, tryCleanupHistoryExecKeys, Stop, vars
  <1> QED
    BY <1>2, <1>4, <1>5, <1>6, <1>7, <1>8 DEF Next

(* Under the same bounds, the lock implements ExecOnce: the answer to a call,   *)
(* a lost one included, is an answer of ExecOnce, a forced cleanup resets the   *)
(* bits of the instants whose keys it deletes, and the expiry of keys, the      *)
(* cleaners and the sweeps change nothing that can be noticed.                  *)
THEOREM LockImplementsExecOnce ==
  ASSUME Punctual
  PROVE  Spec => ImplementsExecOnce
  <1>1. IInv /\ [Next]_vars => IInv'
    BY NextIInv
  <1>2. Init => Promise!Init
    BY DEF Init, Promise!Init, Answered
  <1>3. IInv /\ [Next]_vars => [Promise!Next]_<<answerBar, wiped>>
    BY PromiseStep
  <1> QED
    BY <1>1, <1>2, <1>3, InitIInv, PTL DEF Spec, ImplementsExecOnce, Promise!Spec, answerBar

(* Under the same bounds, the variables of the lock keep their types. *)
THEOREM LockTypeCorrect ==
  ASSUME Punctual
  PROVE  Spec => []TypeOK
  <1>1. IInv /\ [Next]_vars => IInv'
    BY NextIInv
  <1>2. IInv => TypeOK
    BY DEF IInv
  <1> QED
    BY <1>1, <1>2, InitIInv, PTL DEF Spec

=============================================================================
