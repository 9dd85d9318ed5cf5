------------------------- MODULE EventCleanerProofs -------------------------
(* What EventCleaner keeps for every set of events, every capacity, batch    *)
(* size and delay.                                                           *)
EXTENDS EventCleaner, SequenceTheorems, FiniteSetTheorems, TLAPS

-----------------------------------------------------------------------------
(* Counting the elements of a sequence that lie in a set. *)
Count(s, Q) == Cardinality({i \in DOMAIN s : s[i] \in Q})

(* A count is a natural number, and 0 only if no element lies in the set. *)
LEMMA CountType ==
  ASSUME NEW S, NEW s \in Seq(S), NEW Q
  PROVE  /\ IsFiniteSet({i \in DOMAIN s : s[i] \in Q})
         /\ Count(s, Q) \in Nat
         /\ Count(s, Q) = 0 <=> \A i \in DOMAIN s : s[i] \notin Q
  <1> DEFINE T == {i \in DOMAIN s : s[i] \in Q}
  <1>1. DOMAIN s = 1 .. Len(s) /\ Len(s) \in Nat
    OBVIOUS
  <1>2. IsFiniteSet(DOMAIN s)
    BY <1>1, FS_Interval
  <1>3. T \in SUBSET DOMAIN s
    OBVIOUS
  <1>4. IsFiniteSet(T)
    BY <1>2, <1>3, FS_Subset
  <1>5. Cardinality(T) \in Nat
    BY <1>4, FS_CardinalityType
  <1>6. Cardinality(T) = 0 <=> T = {}
    BY <1>4, FS_EmptySet
  <1> QED
    BY <1>4, <1>5, <1>6 DEF Count

(* Nothing lies in the empty sequence. *)
LEMMA CountEmpty ==
  ASSUME NEW Q
  PROVE  Count(<<>>, Q) = 0
  <1>1. {i \in DOMAIN <<>> : <<>>[i] \in Q} = {}
    OBVIOUS
  <1> QED
    BY <1>1, FS_EmptySet DEF Count

(* Append adds one, if what it appends lies in the set. *)
LEMMA CountAppend ==
  ASSUME NEW S, NEW s \in Seq(S), NEW x \in S, NEW Q
  PROVE  Count(Append(s, x), Q) = Count(s, Q) + (IF x \in Q THEN 1 ELSE 0)
  <1> DEFINE T == {i \in DOMAIN s : s[i] \in Q}
             U == {i \in DOMAIN Append(s, x) : Append(s, x)[i] \in Q}
             k == Len(s) + 1
  <1>1. /\ DOMAIN s = 1 .. Len(s) /\ DOMAIN Append(s, x) = 1 .. k /\ Len(s) \in Nat
        /\ \A i \in 1 .. Len(s) : Append(s, x)[i] = s[i]
        /\ Append(s, x)[k] = x
    OBVIOUS
  <1>2. U = IF x \in Q THEN T \cup {k} ELSE T
    BY <1>1
  <1>3. k \notin T
    BY <1>1
  <1>4. IsFiniteSet(T) /\ Cardinality(T) \in Nat
    BY CountType DEF Count
  <1>5. Cardinality(T \cup {k}) = Cardinality(T) + 1
    <2> HIDE DEF T, k
    <2> QED
      BY <1>3, <1>4, FS_AddElement
  <1>6. Count(s, Q) = Cardinality(T) /\ Count(Append(s, x), Q) = Cardinality(U)
    BY DEF Count
  <1> HIDE DEF T, U, k
  <1> QED
    BY <1>2, <1>4, <1>5, <1>6

(* Tail takes one away, if the head lies in the set. *)
LEMMA CountTail ==
  ASSUME NEW S, NEW s \in Seq(S), s # <<>>, NEW Q
  PROVE  Count(s, Q) = Count(Tail(s), Q) + (IF Head(s) \in Q THEN 1 ELSE 0)
  <1> DEFINE T == {i \in DOMAIN s : s[i] \in Q}
             U == {i \in DOMAIN Tail(s) : Tail(s)[i] \in Q}
             W == T \ {1}
             f == [i \in U |-> i + 1]
  <1>1. /\ DOMAIN s = 1 .. Len(s) /\ Len(s) \in Nat \ {0}
        /\ DOMAIN Tail(s) = 1 .. Len(s) - 1
        /\ \A i \in 1 .. Len(s) - 1 : Tail(s)[i] = s[i + 1]
        /\ Head(s) = s[1] /\ Tail(s) \in Seq(S)
    OBVIOUS
  <1>2. f \in [U -> W]
    BY <1>1
  <1>3. \A i, j \in U : f[i] = f[j] => i = j
    BY <1>1
  <1>4. \A j \in W : \E i \in U : f[i] = j
    <2> SUFFICES ASSUME NEW j \in W PROVE j - 1 \in U /\ f[j - 1] = j
      OBVIOUS
    <2>1. j \in 2 .. Len(s) /\ s[j] \in Q
      BY <1>1
    <2>2. j - 1 \in 1 .. Len(s) - 1 /\ Tail(s)[j - 1] = s[j]
      BY <2>1, <1>1
    <2> QED
      BY <2>1, <2>2, <1>1
  <1>5. f \in Bijection(U, W)
    <2> HIDE DEF f, U, W
    <2> QED
      BY <1>2, <1>3, <1>4 DEF Bijection, Injection, Surjection, IsInjective
  <1>6. IsFiniteSet(U) /\ Cardinality(U) \in Nat
    BY <1>1, CountType DEF Count
  <1>7. Cardinality(W) = Cardinality(U)
    <2> HIDE DEF f, U, W
    <2> QED
      BY <1>5, <1>6, FS_Bijection DEF ExistsBijection
  <1>8. IsFiniteSet(T) /\ Cardinality(T) \in Nat
    BY CountType DEF Count
  <1>9. Cardinality(W) = IF 1 \in T THEN Cardinality(T) - 1 ELSE Cardinality(T)
    <2> HIDE DEF T
    <2> QED
      BY <1>8, FS_RemoveElement
  <1>10. 1 \in T <=> Head(s) \in Q
    BY <1>1
  <1>11. Count(s, Q) = Cardinality(T) /\ Count(Tail(s), Q) = Cardinality(U)
    BY DEF Count
  <1> HIDE DEF T, U, W
  <1> QED
    BY <1>6, <1>7, <1>8, <1>9, <1>10, <1>11

-----------------------------------------------------------------------------
(* The inductive invariant. *)

(* A goroutine holds something only between taking it and handing it on. *)
HandsEmpty ==
  /\ recvPc # "push" => received = {}
  /\ heapPc \notin {"sendFull", "sendRest"} => batch = {}

(* An event that SendEvent has not accepted is nowhere. *)
UnsentNowhere == \A e \in Event : sender[e] # "sent" => Copies(e) = 0

(* What has left the heap was due, and no tick is ahead of the clock. *)
DueSinceTick ==
  /\ tickTime <= now
  /\ ~ cancelled =>
       \A e \in Event :
         \/ e \in batch \/ \E i \in DOMAIN batchCh : e \in batchCh[i]
         \/ \E b \in handlers : e \in b
         \/ e \in deleted \/ e \in failed
         => now >= time[e] + eventDelay

IInv == TypeOK /\ HandsEmpty /\ UnsentNowhere /\ Conserved /\ DueSinceTick

-----------------------------------------------------------------------------
(* Copies as a sum of counts. *)
Holding(e) == {b \in SUBSET Event : e \in b}
Queued(e) == Count(eventCh, {e})
Batched(e) == Count(batchCh, Holding(e))
Handled(e) == Cardinality({b \in handlers : e \in b})
In(e, S) == IF e \in S THEN 1 ELSE 0

Sum(e) ==
  Queued(e) + Batched(e) + Handled(e) + In(e, received) + In(e, heap) + In(e, batch)
    + In(e, deleted) + In(e, failed)

(* The sets of batches that TypeOK allows are finite. *)
LEMMA BatchesFinite ==
  ASSUME NEW H \in SUBSET SUBSET Event
  PROVE  IsFiniteSet(H)
  <1>1. IsFiniteSet(Event)
    BY CleanerAssumption
  <1>2. IsFiniteSet(SUBSET Event)
    BY <1>1, FS_SUBSET
  <1> QED
    BY <1>2, FS_Subset

(* The counts are natural numbers, and 0 where the event is not. *)
CountsOK ==
  \A e \in Event :
    /\ Queued(e) \in Nat /\ Batched(e) \in Nat /\ Handled(e) \in Nat
    /\ Batched(e) = 0 <=> \A i \in DOMAIN batchCh : e \notin batchCh[i]
    /\ Handled(e) = 0 <=> \A b \in handlers : e \notin b

LEMMA CountsType == TypeOK => CountsOK
  <1> SUFFICES ASSUME TypeOK, NEW e \in Event
               PROVE  /\ Queued(e) \in Nat /\ Batched(e) \in Nat /\ Handled(e) \in Nat
                      /\ Batched(e) = 0 <=> \A i \in DOMAIN batchCh : e \notin batchCh[i]
                      /\ Handled(e) = 0 <=> \A b \in handlers : e \notin b
    BY DEF CountsOK
  <1>1. Queued(e) \in Nat
    BY CountType DEF TypeOK, Queued
  <1>2. batchCh \in Seq(SUBSET Event)
    BY DEF TypeOK
  <1>3. \A i \in DOMAIN batchCh : batchCh[i] \in SUBSET Event
    BY <1>2
  <1>4. /\ Batched(e) \in Nat
        /\ Batched(e) = 0 <=> \A i \in DOMAIN batchCh : batchCh[i] \notin Holding(e)
    BY <1>2, CountType DEF Batched
  <1>5. Batched(e) = 0 <=> \A i \in DOMAIN batchCh : e \notin batchCh[i]
    BY <1>3, <1>4 DEF Holding
  <1> DEFINE H == {b \in handlers : e \in b}
  <1>6. IsFiniteSet(H)
    BY BatchesFinite DEF TypeOK
  <1>7. Cardinality(H) \in Nat /\ (Cardinality(H) = 0 <=> H = {})
    BY <1>6, FS_CardinalityType, FS_EmptySet
  <1>8. Handled(e) = Cardinality(H)
    BY DEF Handled
  <1>9. Handled(e) \in Nat /\ (Handled(e) = 0 <=> \A b \in handlers : e \notin b)
    BY <1>7, <1>8
  <1> QED
    BY <1>1, <1>4, <1>5, <1>9

(* Copies is the sum. *)
LEMMA CopiesSum ==
  TypeOK => \A e \in Event : Copies(e) = Sum(e)
  <1> SUFFICES ASSUME TypeOK, NEW e \in Event PROVE Copies(e) = Sum(e)
    OBVIOUS
  <1>1. {i \in DOMAIN eventCh : eventCh[i] = e} = {i \in DOMAIN eventCh : eventCh[i] \in {e}}
    OBVIOUS
  <1>2. \A i \in DOMAIN batchCh : batchCh[i] \in SUBSET Event
    BY DEF TypeOK
  <1>3. {i \in DOMAIN batchCh : e \in batchCh[i]}
          = {i \in DOMAIN batchCh : batchCh[i] \in Holding(e)}
    BY <1>2 DEF Holding
  <1>4. Cardinality({i \in DOMAIN eventCh : eventCh[i] = e}) = Queued(e)
    BY <1>1, Zenon DEF Queued, Count
  <1>5. Cardinality({i \in DOMAIN batchCh : e \in batchCh[i]}) = Batched(e)
    BY <1>3, Zenon DEF Batched, Count
  <1>6. Cardinality({b \in handlers : e \in b}) = Handled(e)
    BY Zenon DEF Handled
  <1> QED
    BY <1>4, <1>5, <1>6, Zenon DEF Copies, Sum, In

(* The same in the next state. *)
LEMMA CopiesSumNext == TypeOK' => \A e \in Event : Copies(e)' = Sum(e)'
  <1>1. (TypeOK => \A e \in Event : Copies(e) = Sum(e))'
    BY CopiesSum, PTL
  <1> QED
    BY <1>1

(* A step that moves events, or loses some after the context was cancelled,   *)
(* keeps what Conserved says of them.                                         *)
LEMMA SumKept ==
  ASSUME IInv, TypeOK', sender' = sender, cancelled => cancelled',
         \A e \in Event :
           /\ Sum(e)' \in Nat /\ Sum(e)' <= Sum(e)
           /\ ~ cancelled' => Sum(e)' = Sum(e)
  PROVE  UnsentNowhere' /\ Conserved'
  <1>1. \A e \in Event : Copies(e)' = Sum(e)'
    BY CopiesSumNext
  <1>2. \A e \in Event : Copies(e) = Sum(e)
    BY CopiesSum DEF IInv
  <1>3. \A e \in Event : Copies(e)' \in Nat /\ Copies(e)' <= Copies(e)
                         /\ (~ cancelled' => Copies(e)' = Copies(e))
    BY <1>1, <1>2
  <1>4. \A e \in Event : Copies(e) <= 1 /\ (sender[e] # "sent" => Copies(e) = 0)
                        /\ (sender[e] = "sent" /\ ~ cancelled => Copies(e) = 1)
    BY DEF IInv, UnsentNowhere, Conserved
  <1>5. TypeOK /\ TypeOK'
    BY DEF IInv
  <1>6. \A e \in Event :
          /\ Copies(e)' <= 1
          /\ sender'[e] # "sent" => Copies(e)' = 0
          /\ sender'[e] = "sent" /\ ~ cancelled' => Copies(e)' = 1
    <2> SUFFICES ASSUME NEW e \in Event
                 PROVE  /\ Copies(e)' <= 1
                        /\ sender'[e] # "sent" => Copies(e)' = 0
                        /\ sender'[e] = "sent" /\ ~ cancelled' => Copies(e)' = 1
      OBVIOUS
    <2>1. Copies(e) \in Nat
      BY <1>2, <1>5, CountsType DEF CountsOK, Sum, In
    <2> QED
      BY <2>1, <1>3, <1>4
  <1> QED
    BY <1>6 DEF UnsentNowhere, Conserved

(* The counts of the next state. *)
LEMMA CountsTypeNext == TypeOK' => CountsOK'
  <1>1. (TypeOK => CountsOK)'
    BY CountsType, PTL
  <1> QED
    BY <1>1

(* Where no event moves, the sum stays. *)
LEMMA SumUnmoved ==
  ASSUME TypeOK, NEW e \in Event,
         eventCh' = eventCh, batchCh' = batchCh, handlers' = handlers,
         received' = received, heap' = heap, batch' = batch,
         deleted' = deleted, failed' = failed
  PROVE  Sum(e)' = Sum(e)
  <1>1. Queued(e)' = Queued(e) /\ Batched(e)' = Batched(e) /\ Handled(e)' = Handled(e)
    BY DEF Queued, Batched, Handled
  <1> QED
    BY <1>1 DEF Sum, In

(* A batch that is not among the handlers adds one for each of its events. *)
LEMMA HandledAdd ==
  ASSUME NEW H \in SUBSET SUBSET Event, NEW b \in SUBSET Event, b \notin H, NEW e
  PROVE  Cardinality({c \in H \cup {b} : e \in c})
           = Cardinality({c \in H : e \in c}) + In(e, b)
  <1> DEFINE T == {c \in H : e \in c}
             U == {c \in H \cup {b} : e \in c}
  <1>1. IsFiniteSet(T)
    BY BatchesFinite
  <1>2. Cardinality(T) \in Nat
    BY <1>1, FS_CardinalityType
  <1>3. U = IF e \in b THEN T \cup {b} ELSE T
    OBVIOUS
  <1>4. b \notin T
    OBVIOUS
  <1>5. Cardinality(T \cup {b}) = Cardinality(T) + 1
    <2> HIDE DEF T
    <2> QED
      BY <1>1, <1>4, FS_AddElement
  <1>6. Cardinality(U) = Cardinality(T) + In(e, b)
    <2> HIDE DEF T, U
    <2> QED
      BY <1>2, <1>3, <1>5 DEF In
  <1> QED
    BY <1>6

-----------------------------------------------------------------------------
(* A send to a channel with room, and a receive from one that is not empty. *)
LEMMA ChannelType ==
  ASSUME NEW S, NEW s \in Seq(S), NEW n \in Nat, Len(s) <= n
  PROVE  /\ \A x \in S : Len(s) < n => Append(s, x) \in Seq(S) /\ Len(Append(s, x)) <= n
         /\ s # <<>> => Tail(s) \in Seq(S) /\ Len(Tail(s)) <= n /\ Head(s) \in S
  OBVIOUS

(* Every step keeps the types, and the channels within their capacity. *)
LEMMA TypeNext == TypeOK /\ [Next]_vars => TypeOK'
  <1> SUFFICES ASSUME TypeOK, [Next]_vars PROVE TypeOK'
    OBVIOUS
  <1> USE CleanerAssumption DEF TypeOK, chanVars, heapVars, HeapUnchanged
  <1>1. CASE Advance
    BY <1>1 DEF Advance
  <1>2. CASE Cancel
    BY <1>2 DEF Cancel
  <1>3. ASSUME NEW e \in Event, CanRunTask(e) PROVE TypeOK'
    BY <1>3 DEF CanRunTask
  <1>4. ASSUME NEW e \in Event, SendEvent(e) PROVE TypeOK'
    <2>1. eventCh' \in Seq(Event) /\ Len(eventCh') <= BufferSize
      <3>1. eventCh \in Seq(Event) /\ Len(eventCh) <= BufferSize /\ BufferSize \in Nat
        OBVIOUS
      <3>2. Len(eventCh) < BufferSize =>
              Append(eventCh, e) \in Seq(Event) /\ Len(Append(eventCh, e)) <= BufferSize
        BY <3>1, ChannelType, Zenon
      <3>3. \/ eventCh' = eventCh
            \/ Len(eventCh) < BufferSize /\ eventCh' = Append(eventCh, e)
        BY <1>4 DEF SendEvent
      <3> QED
        BY <3>1, <3>2, <3>3, Zenon
    <2>2. sender' \in [Event -> {"idle", "sending", "sent", "rejected"}]
      BY <1>4 DEF SendEvent
    <2> QED
      BY <1>4, <2>1, <2>2 DEF SendEvent
  <1>5. CASE receiveEvents
    <2>1. /\ eventCh' \in Seq(Event) /\ Len(eventCh') <= BufferSize
          /\ received' \subseteq Event
      <3>1. /\ eventCh \in Seq(Event) /\ Len(eventCh) <= BufferSize /\ BufferSize \in Nat
            /\ received \subseteq Event
        OBVIOUS
      <3>2. eventCh # <<>> =>
              /\ Tail(eventCh) \in Seq(Event) /\ Len(Tail(eventCh)) <= BufferSize
              /\ {Head(eventCh)} \subseteq Event
        BY <3>1, ChannelType, Zenon
      <3>3. \/ eventCh' = eventCh /\ received' = received
            \/ eventCh # <<>> /\ eventCh' = Tail(eventCh) /\ received' = {Head(eventCh)}
        BY <1>5 DEF receiveEvents
      <3> QED
        BY <3>1, <3>2, <3>3, Zenon
    <2> QED
      BY <1>5, <2>1 DEF receiveEvents
  <1>6. CASE receivePush
    BY <1>6 DEF receivePush
  <1>7. CASE Tick
    BY <1>7 DEF Tick
  <1>8. CASE Scan
    BY <1>8 DEF Scan, NextBatches, Due
  <1>9. CASE sendBatch
    <2>1. batchCh' \in Seq(SUBSET Event) /\ Len(batchCh') <= BatchChSize
      <3>1. /\ batchCh \in Seq(SUBSET Event) /\ Len(batchCh) <= BatchChSize
            /\ BatchChSize \in Nat /\ batch \in SUBSET Event
        OBVIOUS
      <3>2. Len(batchCh) < BatchChSize =>
              /\ Append(batchCh, batch) \in Seq(SUBSET Event)
              /\ Len(Append(batchCh, batch)) <= BatchChSize
        BY <3>1, ChannelType, Zenon
      <3>3. \/ batchCh' = batchCh
            \/ Len(batchCh) < BatchChSize /\ batchCh' = Append(batchCh, batch)
        BY <1>9 DEF sendBatch
      <3> QED
        BY <3>1, <3>2, <3>3, Zenon
    <2> QED
      BY <1>9, <2>1 DEF sendBatch
  <1>10. CASE flushHeap
    BY <1>10 DEF flushHeap
  <1>11. CASE tryHandle
    BY <1>11 DEF tryHandle
  <1>12. CASE processBatchStops
    BY <1>12 DEF processBatchStops
  <1>13. ASSUME NEW b \in handlers, handler(b) PROVE TypeOK'
    BY <1>13 DEF handler
  <1>14. CASE processTasks
    BY <1>14 DEF processTasks
  <1>15. CASE UNCHANGED vars
    BY <1>15 DEF vars
  <1> QED
    BY <1>1, <1>2, <1>3, <1>4, <1>5, <1>6, <1>7, <1>8, <1>9, <1>10, <1>11, <1>12,
       <1>13, <1>14, <1>15 DEF Next

(* Every step that takes something hands it on before the next. *)
LEMMA HandsNext == TypeOK /\ HandsEmpty /\ [Next]_vars => HandsEmpty'
  <1> SUFFICES ASSUME TypeOK, HandsEmpty, [Next]_vars PROVE HandsEmpty'
    OBVIOUS
  <1> USE DEF HandsEmpty, chanVars, heapVars, HeapUnchanged
  <1>1. CASE Advance \/ Cancel
    BY <1>1 DEF Advance, Cancel
  <1>2. ASSUME NEW e \in Event, CanRunTask(e) \/ SendEvent(e) PROVE HandsEmpty'
    BY <1>2 DEF CanRunTask, SendEvent
  <1>3. CASE receiveEvents \/ receivePush
    BY <1>3 DEF receiveEvents, receivePush
  <1>4. CASE Tick
    BY <1>4 DEF Tick
  <1>5. CASE Scan
    BY <1>5 DEF Scan
  <1>6. CASE sendBatch \/ flushHeap
    BY <1>6 DEF sendBatch, flushHeap
  <1>7. CASE tryHandle \/ processBatchStops \/ processTasks
    BY <1>7 DEF tryHandle, processBatchStops, processTasks
  <1>8. ASSUME NEW b \in handlers, handler(b) PROVE HandsEmpty'
    BY <1>8 DEF handler
  <1>9. CASE UNCHANGED vars
    BY <1>9 DEF vars
  <1> QED
    BY <1>1, <1>2, <1>3, <1>4, <1>5, <1>6, <1>7, <1>8, <1>9 DEF Next

-----------------------------------------------------------------------------
(* What each step does to the number of copies of an event. *)

(* receiveEvents takes the head of eventCh in its hands, which were empty. *)
LEMMA ReceiveMoves ==
  ASSUME IInv, TypeOK', receiveEvents, NEW e \in Event
  PROVE  Sum(e)' = Sum(e)
  <1> USE DEF chanVars, heapVars
  <1>1. CASE eventCh' = eventCh /\ received' = received
    <2>1. /\ batchCh' = batchCh /\ handlers' = handlers /\ heap' = heap
          /\ batch' = batch /\ deleted' = deleted /\ failed' = failed
      BY DEF receiveEvents
    <2> QED
      BY <1>1, <2>1, SumUnmoved DEF IInv
  <1>2. CASE eventCh # <<>> /\ received' = {Head(eventCh)} /\ eventCh' = Tail(eventCh)
    <2>1. received = {}
      BY DEF IInv, HandsEmpty, receiveEvents
    <2>2. Queued(e) = Queued(e)' + In(e, received)'
      <3>1. eventCh \in Seq(Event)
        BY DEF IInv, TypeOK
      <3>2. Count(eventCh, {e})
              = Count(Tail(eventCh), {e}) + (IF Head(eventCh) \in {e} THEN 1 ELSE 0)
        BY <1>2, <3>1, CountTail
      <3> QED
        BY <1>2, <3>2 DEF Queued, In
    <2>3. In(e, received) = 0
      BY <2>1 DEF In
    <2>4. /\ Batched(e)' = Batched(e) /\ Handled(e)' = Handled(e)
          /\ In(e, heap)' = In(e, heap) /\ In(e, batch)' = In(e, batch)
          /\ In(e, deleted)' = In(e, deleted) /\ In(e, failed)' = In(e, failed)
      BY DEF receiveEvents, Batched, Handled, In
    <2>5. CountsOK /\ CountsOK'
      BY CountsType, CountsTypeNext DEF IInv
    <2>6. /\ Queued(e) \in Nat /\ Queued(e)' \in Nat /\ Batched(e) \in Nat
          /\ Handled(e) \in Nat
      BY <2>5 DEF CountsOK
    <2>7. /\ In(e, received)' \in Nat /\ In(e, heap) \in Nat /\ In(e, batch) \in Nat
          /\ In(e, deleted) \in Nat /\ In(e, failed) \in Nat
      BY DEF In
    <2> QED
      BY <2>2, <2>3, <2>4, <2>6, <2>7 DEF Sum
  <1> QED
    BY <1>1, <1>2 DEF receiveEvents

(* receivePush puts on the heap what is not there already. *)
LEMMA PushMoves ==
  ASSUME IInv, TypeOK', receivePush, NEW e \in Event
  PROVE  Sum(e)' = Sum(e)
  <1> USE DEF chanVars, heapVars
  <1>1. /\ Queued(e)' = Queued(e) /\ Batched(e)' = Batched(e) /\ Handled(e)' = Handled(e)
        /\ In(e, batch)' = In(e, batch)
        /\ In(e, deleted)' = In(e, deleted) /\ In(e, failed)' = In(e, failed)
    BY DEF receivePush, Queued, Batched, Handled, In
  <1>2. Queued(e) \in Nat /\ Batched(e) \in Nat /\ Handled(e) \in Nat
    BY CountsType DEF IInv, CountsOK
  <1>3. Sum(e) <= 1
    BY CopiesSum DEF IInv, Conserved
  <1>4. ~ (e \in received /\ e \in heap)
    BY <1>2, <1>3 DEF Sum, In
  <1>5. In(e, received)' + In(e, heap)' = In(e, received) + In(e, heap)
    BY <1>4 DEF receivePush, In
  <1>6. /\ In(e, received)' \in Nat /\ In(e, heap)' \in Nat
        /\ In(e, received) \in Nat /\ In(e, heap) \in Nat /\ In(e, batch) \in Nat
        /\ In(e, deleted) \in Nat /\ In(e, failed) \in Nat
    BY DEF In
  <1> QED
    BY <1>1, <1>2, <1>5, <1>6 DEF Sum

(* Scan moves what is due from the heap to the batch, which was empty. *)
LEMMA ScanMoves ==
  ASSUME IInv, TypeOK', Scan, NEW e \in Event
  PROVE  Sum(e)' = Sum(e)
  <1> USE DEF chanVars, heapVars, HeapUnchanged
  <1>1. /\ Queued(e)' = Queued(e) /\ Batched(e)' = Batched(e) /\ Handled(e)' = Handled(e)
        /\ In(e, received)' = In(e, received)
        /\ In(e, deleted)' = In(e, deleted) /\ In(e, failed)' = In(e, failed)
    BY DEF Scan, Queued, Batched, Handled, In
  <1>2. Queued(e) \in Nat /\ Batched(e) \in Nat /\ Handled(e) \in Nat
    BY CountsType DEF IInv, CountsOK
  <1>3. batch = {}
    BY DEF IInv, HandsEmpty, Scan
  <1>4. PICK b \in NextBatches : batch' = b /\ heap' = heap \ b
    BY DEF Scan
  <1>5. b \subseteq heap
    BY <1>4 DEF NextBatches, Due
  <1>6. In(e, heap)' + In(e, batch)' = In(e, heap) + In(e, batch)
    BY <1>3, <1>4, <1>5 DEF In
  <1>7. /\ In(e, heap)' \in Nat /\ In(e, batch)' \in Nat
        /\ In(e, heap) \in Nat /\ In(e, batch) \in Nat /\ In(e, received) \in Nat
        /\ In(e, deleted) \in Nat /\ In(e, failed) \in Nat
    BY DEF In
  <1> QED
    BY <1>1, <1>2, <1>6, <1>7 DEF Sum

(* What a batch adds to batchCh. *)
LEMMA BatchedAppend ==
  ASSUME TypeOK, NEW b \in SUBSET Event, batchCh' = Append(batchCh, b), NEW e \in Event
  PROVE  Batched(e)' = Batched(e) + In(e, b)
  <1>1. batchCh \in Seq(SUBSET Event)
    BY DEF TypeOK
  <1>2. Count(Append(batchCh, b), Holding(e))
          = Count(batchCh, Holding(e)) + (IF b \in Holding(e) THEN 1 ELSE 0)
    BY <1>1, CountAppend
  <1>3. (b \in Holding(e)) <=> e \in b
    BY DEF Holding
  <1> QED
    BY <1>2, <1>3 DEF Batched, In

(* sendBatch moves the batch to batchCh, or loses it after the cancellation. *)
LEMMA SendMoves ==
  ASSUME IInv, TypeOK', sendBatch, NEW e \in Event
  PROVE  /\ Sum(e)' \in Nat /\ Sum(e)' <= Sum(e)
         /\ ~ cancelled' => Sum(e)' = Sum(e)
  <1> USE DEF chanVars, heapVars, HeapUnchanged
  <1>1. /\ Queued(e)' = Queued(e) /\ Handled(e)' = Handled(e)
        /\ In(e, received)' = In(e, received) /\ In(e, heap)' = In(e, heap)
        /\ In(e, deleted)' = In(e, deleted) /\ In(e, failed)' = In(e, failed)
        /\ cancelled' = cancelled
    BY DEF sendBatch, Queued, Handled, In
  <1>2. Queued(e) \in Nat /\ Batched(e) \in Nat /\ Handled(e) \in Nat
    BY CountsType DEF IInv, CountsOK
  <1>3. In(e, batch)' = 0
    BY DEF sendBatch, In
  <1>4. \/ Batched(e)' = Batched(e) + In(e, batch)
        \/ cancelled /\ Batched(e)' = Batched(e)
    <2>1. CASE batchCh' = Append(batchCh, batch)
      BY <2>1, BatchedAppend DEF IInv, TypeOK
    <2>2. CASE cancelled /\ batchCh' = batchCh
      BY <2>2 DEF Batched
    <2> QED
      BY <2>1, <2>2 DEF sendBatch
  <1>5. /\ In(e, heap) \in Nat /\ In(e, batch) \in Nat /\ In(e, received) \in Nat
        /\ In(e, deleted) \in Nat /\ In(e, failed) \in Nat
    BY DEF In
  <1> QED
    BY <1>1, <1>2, <1>3, <1>4, <1>5 DEF Sum

(* flushHeap does the same with what is left on the heap. *)
LEMMA FlushMoves ==
  ASSUME IInv, TypeOK', flushHeap, NEW e \in Event
  PROVE  /\ Sum(e)' \in Nat /\ Sum(e)' <= Sum(e)
         /\ ~ cancelled' => Sum(e)' = Sum(e)
  <1> USE DEF chanVars, heapVars, HeapUnchanged
  <1>1. /\ Queued(e)' = Queued(e) /\ Handled(e)' = Handled(e)
        /\ In(e, received)' = In(e, received) /\ In(e, batch)' = In(e, batch)
        /\ In(e, deleted)' = In(e, deleted) /\ In(e, failed)' = In(e, failed)
        /\ cancelled' = cancelled /\ cancelled
    BY DEF flushHeap, Queued, Handled, In
  <1>2. Queued(e) \in Nat /\ Batched(e) \in Nat /\ Handled(e) \in Nat
    BY CountsType DEF IInv, CountsOK
  <1>3. In(e, heap)' = 0
    BY DEF flushHeap, In
  <1>4. Batched(e)' = Batched(e) + In(e, heap) \/ Batched(e)' = Batched(e)
    <2>1. CASE batchCh' = Append(batchCh, heap)
      BY <2>1, BatchedAppend DEF IInv, TypeOK
    <2>2. CASE batchCh' = batchCh
      BY <2>2 DEF Batched
    <2> QED
      BY <2>1, <2>2 DEF flushHeap
  <1>5. /\ In(e, heap) \in Nat /\ In(e, batch) \in Nat /\ In(e, received) \in Nat
        /\ In(e, deleted) \in Nat /\ In(e, failed) \in Nat
    BY DEF In
  <1> QED
    BY <1>1, <1>2, <1>3, <1>4, <1>5 DEF Sum

(* tryHandle moves the head of batchCh to the handlers.  It would merge with  *)
(* an equal batch there, but then its events would have two copies.           *)
LEMMA HandleMoves ==
  ASSUME IInv, TypeOK', tryHandle, NEW e \in Event
  PROVE  Sum(e)' = Sum(e)
  <1> USE DEF chanVars, heapVars
  <1> DEFINE h == Head(batchCh)
  <1>1. /\ Queued(e)' = Queued(e) /\ In(e, batch)' = In(e, batch)
        /\ In(e, received)' = In(e, received) /\ In(e, heap)' = In(e, heap)
        /\ In(e, deleted)' = In(e, deleted) /\ In(e, failed)' = In(e, failed)
    BY DEF tryHandle, Queued, In
  <1>2. Queued(e) \in Nat /\ Batched(e) \in Nat /\ Handled(e) \in Nat /\ Batched(e)' \in Nat
    BY CountsType, CountsTypeNext DEF IInv, CountsOK
  <1>3. Sum(e) <= 1
    BY CopiesSum DEF IInv, Conserved
  <1>4. /\ batchCh \in Seq(SUBSET Event) /\ handlers \in SUBSET SUBSET Event
        /\ batchCh # <<>> /\ h \in SUBSET Event
    BY DEF IInv, TypeOK, tryHandle
  <1>5. Batched(e) = Batched(e)' + In(e, h)
    <2>1. Count(batchCh, Holding(e))
            = Count(Tail(batchCh), Holding(e)) + (IF h \in Holding(e) THEN 1 ELSE 0)
      BY <1>4, CountTail
    <2>2. h \in Holding(e) <=> e \in h
      BY <1>4 DEF Holding
    <2> QED
      BY <2>1, <2>2 DEF Batched, In, tryHandle
  <1>6. /\ In(e, heap) \in Nat /\ In(e, batch) \in Nat /\ In(e, received) \in Nat
        /\ In(e, deleted) \in Nat /\ In(e, failed) \in Nat /\ In(e, h) \in Nat
    BY DEF In
  <1>7. handlers' = handlers \cup {h}
    BY DEF tryHandle
  <1>8. Handled(e)' = Handled(e) + In(e, h)
    <2>1. CASE h \notin handlers
      <3>1. Cardinality({c \in handlers \cup {h} : e \in c})
              = Cardinality({c \in handlers : e \in c}) + In(e, h)
        BY <1>4, <2>1, HandledAdd
      <3> QED
        BY <1>7, <3>1 DEF Handled
    <2>2. CASE h \in handlers
      <3>1. e \notin h
        <4> SUFFICES ASSUME e \in h PROVE FALSE
          OBVIOUS
        <4>1. Handled(e) # 0
          BY <2>2, CountsType DEF IInv, CountsOK
        <4>2. In(e, h) = 1
          BY DEF In
        <4>3. Batched(e) >= 1
          BY <1>2, <1>5, <4>2
        <4>4. Handled(e) >= 1
          BY <1>2, <4>1
        <4> HIDE DEF h
        <4> QED
          BY <1>2, <1>3, <1>6, <4>3, <4>4 DEF Sum
      <3>2. handlers' = handlers
        BY <1>7, <2>2
      <3>3. Handled(e)' = Handled(e)
        BY <3>2 DEF Handled
      <3> QED
        BY <1>2, <3>1, <3>3 DEF In
    <2> QED
      BY <2>1, <2>2
  <1> HIDE DEF h
  <1> QED
    BY <1>1, <1>2, <1>5, <1>6, <1>8 DEF Sum

(* The handler of a batch moves it to the deleted or to the failed events. *)
LEMMA HandlerMoves ==
  ASSUME IInv, TypeOK', NEW b \in handlers, handler(b), NEW e \in Event
  PROVE  Sum(e)' = Sum(e)
  <1> USE DEF chanVars, heapVars
  <1>1. /\ Queued(e)' = Queued(e) /\ Batched(e)' = Batched(e)
        /\ In(e, batch)' = In(e, batch)
        /\ In(e, received)' = In(e, received) /\ In(e, heap)' = In(e, heap)
    BY DEF handler, Queued, Batched, In
  <1>2. Queued(e) \in Nat /\ Batched(e) \in Nat /\ Handled(e) \in Nat /\ Handled(e)' \in Nat
    BY CountsType, CountsTypeNext DEF IInv, CountsOK
  <1>3. Sum(e) <= 1
    BY CopiesSum DEF IInv, Conserved
  <1>4. Handled(e) = Handled(e)' + In(e, b)
    <2>1. handlers \ {b} \in SUBSET SUBSET Event /\ b \in SUBSET Event
      BY DEF IInv, TypeOK
    <2>2. Cardinality({c \in (handlers \ {b}) \cup {b} : e \in c})
            = Cardinality({c \in handlers \ {b} : e \in c}) + In(e, b)
      BY <2>1, HandledAdd
    <2>3. (handlers \ {b}) \cup {b} = handlers /\ handlers' = handlers \ {b}
      BY DEF handler
    <2> QED
      BY <2>2, <2>3 DEF Handled
  <1>5. /\ In(e, heap) \in Nat /\ In(e, batch) \in Nat /\ In(e, received) \in Nat
        /\ In(e, deleted) \in Nat /\ In(e, failed) \in Nat /\ In(e, b) \in Nat
        /\ In(e, deleted)' \in Nat /\ In(e, failed)' \in Nat
    BY DEF In
  <1>6. e \in b => In(e, b) = 1
    BY DEF In
  <1>7. e \in b => e \notin deleted /\ e \notin failed
    BY <1>2, <1>3, <1>4, <1>5, <1>6 DEF Sum, In
  <1>8. In(e, deleted)' + In(e, failed)' = In(e, deleted) + In(e, failed) + In(e, b)
    BY <1>7 DEF handler, In
  <1> QED
    BY <1>1, <1>2, <1>4, <1>5, <1>8 DEF Sum

(* SendEvent puts an event that is nowhere into eventCh, or rejects it. *)
LEMMA SendEventKeeps ==
  ASSUME IInv, TypeOK', NEW e \in Event, CanRunTask(e) \/ SendEvent(e)
  PROVE  UnsentNowhere' /\ Conserved'
  <1> USE DEF chanVars, heapVars
  <1>1. TypeOK /\ sender[e] # "sent"
    BY DEF IInv, CanRunTask, SendEvent
  <1>2. \A d \in Event :
          /\ Batched(d)' = Batched(d) /\ Handled(d)' = Handled(d)
          /\ In(d, received)' = In(d, received) /\ In(d, heap)' = In(d, heap)
          /\ In(d, batch)' = In(d, batch)
          /\ In(d, deleted)' = In(d, deleted) /\ In(d, failed)' = In(d, failed)
    BY DEF CanRunTask, SendEvent, Batched, Handled, In
  <1>3. \A d \in Event : d # e => sender'[d] = sender[d] /\ cancelled' = cancelled
    BY <1>1 DEF CanRunTask, SendEvent, TypeOK
  <1>4. \A d \in Event :
          \/ Queued(d)' = Queued(d) /\ (d = e => sender'[d] # "sent")
          \/ d = e /\ Queued(d)' = Queued(d) + 1 /\ sender'[d] = "sent"
          \/ d # e /\ Queued(d)' = Queued(d) + 0
    <2> SUFFICES ASSUME NEW d \in Event
                 PROVE  \/ Queued(d)' = Queued(d) /\ (d = e => sender'[d] # "sent")
                        \/ d = e /\ Queued(d)' = Queued(d) + 1 /\ sender'[d] = "sent"
                        \/ d # e /\ Queued(d)' = Queued(d) + 0
      OBVIOUS
    <2>1. CASE eventCh' = eventCh /\ sender'[e] # "sent"
      BY <2>1 DEF Queued
    <2>2. CASE eventCh' = Append(eventCh, e) /\ sender'[e] = "sent"
      <3>1. Count(Append(eventCh, e), {d})
              = Count(eventCh, {d}) + (IF e \in {d} THEN 1 ELSE 0)
        BY <1>1, CountAppend DEF TypeOK
      <3> QED
        BY <2>2, <3>1 DEF Queued
    <2> QED
      BY <1>1, <2>1, <2>2 DEF CanRunTask, SendEvent, TypeOK
  <1>5. \A d \in Event : Queued(d) \in Nat /\ Batched(d) \in Nat /\ Handled(d) \in Nat
    BY <1>1, CountsType DEF CountsOK
  <1>6. \A d \in Event : Copies(d) = Sum(d) /\ Copies(d)' = Sum(d)'
    BY <1>1, CopiesSum, CopiesSumNext
  <1>7. \A d \in Event :
          /\ Copies(d)' <= 1
          /\ sender'[d] # "sent" => Copies(d)' = 0
          /\ sender'[d] = "sent" /\ ~ cancelled' => Copies(d)' = 1
    <2> SUFFICES ASSUME NEW d \in Event
                 PROVE  /\ Copies(d)' <= 1
                        /\ sender'[d] # "sent" => Copies(d)' = 0
                        /\ sender'[d] = "sent" /\ ~ cancelled' => Copies(d)' = 1
      OBVIOUS
    <2>1. /\ In(d, heap) \in Nat /\ In(d, batch) \in Nat /\ In(d, received) \in Nat
          /\ In(d, deleted) \in Nat /\ In(d, failed) \in Nat
      BY DEF In
    <2>2. /\ Copies(d) <= 1
          /\ sender[d] # "sent" => Copies(d) = 0
          /\ sender[d] = "sent" /\ ~ cancelled => Copies(d) = 1
      BY DEF IInv, UnsentNowhere, Conserved
    <2>3. CASE d = e
      <3>1. Sum(d) = 0
        BY <1>1, <1>6, <2>2, <2>3
      <3>2. \/ Sum(d)' = 0 /\ sender'[d] # "sent"
            \/ Sum(d)' = 1 /\ sender'[d] = "sent"
        BY <1>2, <1>4, <1>5, <2>1, <2>3, <3>1 DEF Sum
      <3> QED
        BY <1>6, <3>2
    <2>4. CASE d # e
      <3>1. Queued(d)' = Queued(d)
        BY <1>4, <1>5, <2>4
      <3>2. Sum(d)' = Sum(d)
        BY <1>2, <3>1 DEF Sum
      <3> QED
        BY <1>3, <1>6, <2>2, <2>4, <3>2
    <2> QED
      BY <2>3, <2>4
  <1> QED
    BY <1>7 DEF UnsentNowhere, Conserved

(* Every step keeps the number of copies. *)
LEMMA CopiesNext == IInv /\ [Next]_vars => UnsentNowhere' /\ Conserved'
  <1> SUFFICES ASSUME IInv, [Next]_vars PROVE UnsentNowhere' /\ Conserved'
    OBVIOUS
  <1>1. TypeOK /\ TypeOK'
    BY TypeNext DEF IInv
  <1>2. CASE \E e \in Event : CanRunTask(e) \/ SendEvent(e)
    BY <1>1, <1>2, SendEventKeeps
  <1>3. CASE ~ \E e \in Event : CanRunTask(e) \/ SendEvent(e)
    <2>1. sender' = sender /\ (cancelled => cancelled')
      BY <1>3 DEF Next, vars, chanVars, heapVars, HeapUnchanged, Advance, Cancel,
         receiveEvents, receivePush, Tick, Scan, sendBatch, flushHeap, tryHandle,
         processBatchStops, handler, processTasks
    <2>2. ASSUME NEW e \in Event
          PROVE  /\ Sum(e)' \in Nat /\ Sum(e)' <= Sum(e)
                 /\ ~ cancelled' => Sum(e)' = Sum(e)
      <3>1. /\ Queued(e) \in Nat /\ Batched(e) \in Nat /\ Handled(e) \in Nat
            /\ In(e, heap) \in Nat /\ In(e, batch) \in Nat /\ In(e, received) \in Nat
            /\ In(e, deleted) \in Nat /\ In(e, failed) \in Nat
        BY <1>1, CountsType DEF CountsOK, In
      <3>2. Sum(e) \in Nat
        BY <3>1 DEF Sum
      <3>3. CASE Sum(e)' = Sum(e)
        BY <3>2, <3>3
      <3>4. CASE \/ Advance \/ Cancel \/ Tick \/ processBatchStops \/ processTasks
                 \/ UNCHANGED vars
        <4>1. /\ eventCh' = eventCh /\ batchCh' = batchCh /\ handlers' = handlers
              /\ received' = received /\ heap' = heap /\ batch' = batch
              /\ deleted' = deleted /\ failed' = failed
          BY <3>4 DEF vars, chanVars, heapVars, HeapUnchanged, Advance, Cancel, Tick,
             processBatchStops, processTasks
        <4> QED
          BY <1>1, <3>3, <4>1, SumUnmoved
      <3>5. CASE receiveEvents \/ receivePush \/ Scan \/ tryHandle
        BY <1>1, <3>3, <3>5, ReceiveMoves, PushMoves, ScanMoves, HandleMoves
      <3>6. CASE \E b \in handlers : handler(b)
        BY <1>1, <3>3, <3>6, HandlerMoves
      <3>7. CASE sendBatch \/ flushHeap
        BY <1>1, <3>7, SendMoves, FlushMoves
      <3> QED
        BY <1>3, <3>4, <3>5, <3>6, <3>7 DEF Next
    <2> QED
      BY <1>1, <2>1, <2>2, SumKept
  <1> QED
    BY <1>2, <1>3

-----------------------------------------------------------------------------
(* Where an event is that has left the heap. *)
OffHeap(e) ==
  \/ e \in batch \/ \E i \in DOMAIN batchCh : e \in batchCh[i]
  \/ \E b \in handlers : e \in b
  \/ e \in deleted \/ e \in failed

(* An event whose CanRunTask has not begun is not there. *)
LEMMA UnsentOnHeap ==
  ASSUME IInv, NEW e \in Event, sender[e] # "sent"
  PROVE  ~ OffHeap(e)
  <1>1. Sum(e) = 0
    BY CopiesSum DEF IInv, UnsentNowhere
  <1>2. /\ Queued(e) \in Nat /\ Batched(e) \in Nat /\ Handled(e) \in Nat
        /\ In(e, heap) \in Nat /\ In(e, batch) \in Nat /\ In(e, received) \in Nat
        /\ In(e, deleted) \in Nat /\ In(e, failed) \in Nat
    BY CountsType DEF IInv, CountsOK, In
  <1>3. /\ Batched(e) = 0 /\ Handled(e) = 0 /\ In(e, batch) = 0
        /\ In(e, deleted) = 0 /\ In(e, failed) = 0
    <2>1. Queued(e) + Batched(e) + Handled(e) + In(e, received) + In(e, heap) + In(e, batch)
            + In(e, deleted) + In(e, failed) = 0
      BY <1>1 DEF Sum
    <2>2. Batched(e) <= 0
      BY <1>2, <2>1
    <2>3. Handled(e) = 0
      BY <1>2, <2>1
    <2>4. In(e, batch) = 0
      BY <1>2, <2>1
    <2>5. In(e, deleted) = 0 /\ In(e, failed) = 0
      BY <1>2, <2>1
    <2> QED
      BY <1>2, <2>2, <2>3, <2>4, <2>5
  <1>4. ~ (\E i \in DOMAIN batchCh : e \in batchCh[i]) /\ ~ \E b \in handlers : e \in b
    BY <1>3, CountsType DEF IInv, CountsOK
  <1>5. e \notin batch /\ e \notin deleted /\ e \notin failed
    BY <1>3 DEF In
  <1> QED
    BY <1>4, <1>5 DEF OffHeap

(* What a step that is not Scan or flushHeap has off the heap was off it. *)
LEMMA OffHeapKept ==
  ASSUME TypeOK, [Next]_vars, ~ Scan, ~ flushHeap, NEW e \in Event, OffHeap(e)'
  PROVE  OffHeap(e)
  <1> USE DEF OffHeap, chanVars, heapVars, HeapUnchanged
  <1>1. CASE /\ batchCh' = batchCh /\ handlers' = handlers /\ batch' = batch
             /\ deleted' = deleted /\ failed' = failed
    BY <1>1
  <1>2. CASE sendBatch
    <2>1. CASE batchCh' = batchCh
      BY <1>2, <2>1 DEF sendBatch
    <2>2. CASE batchCh' = Append(batchCh, batch)
      <3>1. handlers' = handlers /\ batch' = {} /\ deleted' = deleted /\ failed' = failed
        BY <1>2 DEF sendBatch
      <3>2. \A i \in DOMAIN batchCh' :
              batchCh'[i] = batch \/ (i \in DOMAIN batchCh /\ batchCh'[i] = batchCh[i])
        BY <2>2 DEF TypeOK
      <3> QED
        BY <3>1, <3>2
    <2> QED
      BY <1>2, <2>1, <2>2 DEF sendBatch
  <1>3. CASE tryHandle
    <2>1. batchCh \in Seq(SUBSET Event) /\ batchCh # <<>>
      BY <1>3 DEF TypeOK, tryHandle
    <2>2. 1 \in DOMAIN batchCh /\ Head(batchCh) = batchCh[1]
      BY <2>1
    <2>3. \A i \in DOMAIN Tail(batchCh) :
            i + 1 \in DOMAIN batchCh /\ Tail(batchCh)[i] = batchCh[i + 1]
      BY <2>1
    <2>4. /\ handlers' = handlers \cup {Head(batchCh)} /\ batchCh' = Tail(batchCh)
          /\ batch' = batch /\ deleted' = deleted /\ failed' = failed
      BY <1>3 DEF tryHandle
    <2>5. CASE \E i \in DOMAIN batchCh' : e \in batchCh'[i]
      BY <2>3, <2>4, <2>5
    <2>6. CASE \E b \in handlers' : e \in b
      BY <2>2, <2>4, <2>6
    <2> QED
      BY <2>4, <2>5, <2>6
  <1>4. ASSUME NEW b \in handlers, handler(b) PROVE OffHeap(e)
    BY <1>4 DEF handler
  <1> QED
    <2> HIDE DEF OffHeap
    <2> QED
      BY <1>1, <1>2, <1>3, <1>4 DEF Next, vars, Advance, Cancel, CanRunTask, SendEvent,
         receiveEvents, receivePush, Tick, processBatchStops, processTasks

(* Every step keeps the delay. *)
LEMMA DueNext == IInv /\ [Next]_vars => DueSinceTick'
  <1> SUFFICES ASSUME IInv, [Next]_vars PROVE DueSinceTick'
    OBVIOUS
  <1>1. TypeOK /\ TypeOK'
    BY TypeNext DEF IInv
  <1>2. /\ now \in Nat /\ now' \in Nat /\ tickTime \in Nat /\ eventDelay \in Nat
        /\ \A e \in Event : time[e] \in Nat
    BY <1>1, CleanerAssumption DEF TypeOK
  <1>3. /\ now <= now'
        /\ tickTime' = tickTime \/ (tickTime' = now /\ now' = now)
        /\ cancelled => cancelled'
    BY <1>2 DEF Next, vars, chanVars, heapVars, HeapUnchanged, Advance, Cancel, CanRunTask,
       SendEvent, receiveEvents, receivePush, Tick, Scan, sendBatch, flushHeap, tryHandle,
       processBatchStops, handler, processTasks
  <1>4. tickTime <= now
    BY DEF IInv, DueSinceTick
  <1>5. tickTime' <= now'
    BY <1>2, <1>3, <1>4
  <1>6. ASSUME ~ cancelled', NEW e \in Event, OffHeap(e)'
        PROVE  now' >= time'[e] + eventDelay
    <2>1. OffHeap(e) => now >= time[e] + eventDelay
      BY <1>3, <1>6 DEF IInv, DueSinceTick, OffHeap
    <2>2. CASE Scan
      <3>1. /\ now' = now /\ time' = time
            /\ OffHeap(e) \/ e \in batch'
        BY <1>6, <2>2 DEF Scan, HeapUnchanged, OffHeap
      <3>2. e \in batch' => now >= time[e] + eventDelay
        <4>1. e \in batch' => tickTime - time[e] >= eventDelay
          BY <2>2 DEF Scan, NextBatches, Due
        <4> QED
          BY <1>2, <1>4, <4>1
      <3> QED
        BY <2>1, <3>1, <3>2
    <2>3. CASE flushHeap
      BY <1>6, <2>3 DEF flushHeap, HeapUnchanged
    <2>4. CASE ~ Scan /\ ~ flushHeap
      <3>1. OffHeap(e)
        BY <1>1, <1>6, <2>4, OffHeapKept
      <3>2. sender[e] = "sent"
        BY <3>1, UnsentOnHeap
      <3>3. time'[e] = time[e]
        BY <1>1, <3>2 DEF Next, vars, chanVars, heapVars, HeapUnchanged, Advance, Cancel,
           CanRunTask, SendEvent, receiveEvents, receivePush, Tick, Scan, sendBatch,
           flushHeap, tryHandle, processBatchStops, handler, processTasks, TypeOK
      <3> QED
        BY <1>2, <1>3, <2>1, <3>1, <3>3
    <2> QED
      BY <2>2, <2>3, <2>4
  <1> QED
    BY <1>5, <1>6 DEF DueSinceTick, OffHeap

-----------------------------------------------------------------------------
(* The initial state. *)
LEMMA InitIInv == Init => IInv
  <1> SUFFICES ASSUME Init PROVE IInv
    OBVIOUS
  <1>1. TypeOK
    <2>1. eventCh \in Seq(Event) /\ Len(eventCh) = 0
      BY DEF Init
    <2>2. batchCh \in Seq(SUBSET Event) /\ Len(batchCh) = 0
      BY DEF Init
    <2>3. 0 \in 0 .. MaxNow /\ 0 <= BufferSize /\ 0 <= BatchChSize
      BY CleanerAssumption
    <2> QED
      BY <2>1, <2>2, <2>3 DEF Init, TypeOK
  <1>2. HandsEmpty
    BY DEF Init, HandsEmpty
  <1>3. \A e \in Event : Copies(e) = 0 /\ sender[e] # "sent"
    <2> SUFFICES ASSUME NEW e \in Event PROVE Sum(e) = 0 /\ sender[e] # "sent"
      BY <1>1, CopiesSum
    <2>1. Queued(e) = 0 /\ Batched(e) = 0
      BY CountEmpty DEF Init, Queued, Batched
    <2>2. {b \in handlers : e \in b} = {}
      BY DEF Init
    <2>3. Handled(e) = 0
      BY <2>2, FS_EmptySet DEF Handled
    <2> QED
      BY <2>1, <2>3 DEF Init, Sum, In
  <1>4. UnsentNowhere /\ Conserved
    BY <1>3 DEF UnsentNowhere, Conserved
  <1>5. DueSinceTick
    BY DEF Init, DueSinceTick
  <1> QED
    BY <1>1, <1>2, <1>4, <1>5 DEF IInv

(* A step keeps the inductive invariant. *)
LEMMA NextIInv == IInv /\ [Next]_vars => IInv'
  BY TypeNext, HandsNext, CopiesNext, DueNext DEF IInv

(* The inductive invariant holds in every state. *)
LEMMA AlwaysIInv == Spec => []IInv
  BY InitIInv, NextIInv, PTL DEF Spec

(* Every variable of event_cleaner.go keeps its type, and neither eventCh nor *)
(* batchCh ever holds more than its capacity.                                 *)
THEOREM CleanerTypeCorrect == Spec => []TypeOK
  <1>1. IInv => TypeOK
    BY DEF IInv
  <1> QED
    BY <1>1, AlwaysIInv, PTL

(* For any number of events, capacities and batch size: an event that         *)
(* SendEvent has accepted is in exactly one place, until a shutdown.          *)
THEOREM EventsConserved == Spec => []Conserved
  <1>1. IInv => Conserved
    BY DEF IInv
  <1> QED
    BY <1>1, AlwaysIInv, PTL

(* While the node runs, no handler gets a key before its delay is over.       *)
THEOREM NeverDeletedEarly == Spec => []DeletedWhenDue
  <1>1. IInv => DeletedWhenDue
    <2> SUFFICES ASSUME IInv, ~ cancelled, NEW e \in (UNION handlers) \cup deleted \cup failed
                 PROVE  now >= time[e] + eventDelay
      BY DEF DeletedWhenDue
    <2>1. e \in Event
      BY DEF IInv, TypeOK
    <2> QED
      BY <2>1 DEF IInv, DueSinceTick
  <1> QED
    BY <1>1, AlwaysIInv, PTL

=============================================================================
