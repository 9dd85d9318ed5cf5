---------------------------- MODULE EventCleaner ----------------------------
(***************************************************************************)
(* The event cleaner of a node (event_cleaner.go), which deletes the key of *)
(* an execution some time after the execution: CanRunTask sends an event,   *)
(* receiveEvents moves it from a channel to a heap ordered by time,         *)
(* processHeap takes the events that are due off the heap and sends them in *)
(* batches, processBatch starts a handler for each batch, and the handler   *)
(* deletes the keys.  processTasks waits for the injected sweep of old keys. *)
(* The context is cancelled at the end of waitForShutdown.                  *)
(*                                                                         *)
(* An event stands for its key: no two executions have the same one.        *)
(***************************************************************************)
EXTENDS Integers, Sequences, FiniteSets

CONSTANTS
  Event,
  BufferSize,    \* capacity of eventCh
  BatchChSize,   \* capacity of batchCh
  batchSize,
  eventDelay,
  MaxNow         \* bound on the time that is explored

ASSUME CleanerAssumption ==
  /\ IsFiniteSet(Event)
  /\ BufferSize \in Nat \ {0} /\ BatchChSize \in Nat \ {0} /\ batchSize \in Nat \ {0}
  /\ eventDelay \in Nat /\ MaxNow \in Nat

VARIABLES
  now,
  cancelled,   \* ctx is done
  sender,      \* sender[e]: the CanRunTask that created the key of e
  time,        \* time[e]: its execTime
  eventCh, heap, batchCh,
  recvPc, received,         \* receiveEvents, and the event it holds
  heapPc, tickTime, batch,  \* processHeap
  batchPc,                  \* processBatch
  tasksPc,                  \* processTasks and the injected task
  handlers,    \* the batches that handlers are deleting
  deleted,     \* the events whose key has been deleted
  failed       \* the events whose batch the backend has refused to delete

chanVars == <<eventCh, heap, batchCh>>
heapVars == <<heapPc, tickTime, batch>>
vars == <<now, cancelled, sender, time, chanVars, recvPc, received, heapVars,
          batchPc, tasksPc, handlers, deleted, failed>>

(* Every variable holds a value of its type, and the channels their capacity. *)
TypeOK ==
  /\ now \in 0 .. MaxNow /\ tickTime \in 0 .. MaxNow
  /\ cancelled \in BOOLEAN
  /\ sender \in [Event -> {"idle", "sending", "sent", "rejected"}]
  /\ time \in [Event -> 0 .. MaxNow]
  /\ eventCh \in Seq(Event) /\ Len(eventCh) <= BufferSize
  /\ heap \subseteq Event
  /\ batchCh \in Seq(SUBSET Event) /\ Len(batchCh) <= BatchChSize
  /\ recvPc \in {"select", "push", "done"}
  /\ received \subseteq Event
  /\ heapPc \in {"select", "scan", "sendFull", "sendRest", "done"}
  /\ batch \subseteq Event
  /\ batchPc \in {"select", "drain", "done"}
  /\ tasksPc \in {"tasks", "wait", "done"}
  /\ handlers \subseteq SUBSET Event
  /\ deleted \subseteq Event /\ failed \subseteq Event

Init ==
  /\ now = 0 /\ tickTime = 0
  /\ cancelled = FALSE
  /\ sender = [e \in Event |-> "idle"]
  /\ time = [e \in Event |-> 0]
  /\ eventCh = <<>> /\ heap = {} /\ batchCh = <<>>
  /\ recvPc = "select" /\ received = {}
  /\ heapPc = "select" /\ batch = {}
  /\ batchPc = "select"
  /\ tasksPc = "tasks"
  /\ handlers = {} /\ deleted = {} /\ failed = {}

Advance ==
  /\ now < MaxNow
  /\ now' = now + 1
  /\ UNCHANGED <<cancelled, sender, time, chanVars, recvPc, received, heapVars,
                 batchPc, tasksPc, handlers, deleted, failed>>

(* The context that Register was given.  waitForShutdown cancels it when the *)
(* last jobs are over; the cleaner does not rely on that.                     *)
Cancel ==
  /\ ~ cancelled
  /\ cancelled' = TRUE
  /\ UNCHANGED <<now, sender, time, chanVars, recvPc, received, heapVars,
                 batchPc, tasksPc, handlers, deleted, failed>>

-----------------------------------------------------------------------------
(* SendEvent, in a run that was granted at time[e]. *)

CanRunTask(e) ==
  /\ sender[e] = "idle" /\ ~ cancelled
  /\ now + eventDelay <= MaxNow
  /\ sender' = [sender EXCEPT ![e] = "sending"]
  /\ time' = [time EXCEPT ![e] = now]
  /\ UNCHANGED <<now, cancelled, chanVars, recvPc, received, heapVars, batchPc,
                 tasksPc, handlers, deleted, failed>>

SendEvent(e) ==
  /\ sender[e] = "sending"
  /\ \/ /\ Len(eventCh) < BufferSize
        /\ eventCh' = Append(eventCh, e)
        /\ sender' = [sender EXCEPT ![e] = "sent"]
     \/ /\ cancelled
        /\ sender' = [sender EXCEPT ![e] = "rejected"]
        /\ UNCHANGED eventCh
  /\ UNCHANGED <<now, cancelled, time, heap, batchCh, recvPc, received, heapVars,
                 batchPc, tasksPc, handlers, deleted, failed>>

-----------------------------------------------------------------------------
(* receiveEvents. *)

receiveEvents ==
  /\ recvPc = "select"
  /\ \/ /\ eventCh # <<>>
        /\ received' = {Head(eventCh)}
        /\ eventCh' = Tail(eventCh)
        /\ recvPc' = "push"
     \/ /\ cancelled
        /\ recvPc' = "done"
        /\ UNCHANGED <<received, eventCh>>
  /\ UNCHANGED <<now, cancelled, sender, time, heap, batchCh, heapVars, batchPc,
                 tasksPc, handlers, deleted, failed>>

(* processHeap keeps heapMu while it scans, and while a full batch waits. *)
Locked == heapPc \in {"scan", "sendFull"}

receivePush ==
  /\ recvPc = "push" /\ ~ Locked
  /\ heap' = heap \cup received
  /\ received' = {}
  /\ recvPc' = "select"
  /\ UNCHANGED <<now, cancelled, sender, time, eventCh, batchCh, heapVars, batchPc,
                 tasksPc, handlers, deleted, failed>>

-----------------------------------------------------------------------------
(* processHeap. *)

HeapUnchanged ==
  UNCHANGED <<now, cancelled, sender, time, eventCh, recvPc, received, batchPc,
              tasksPc, handlers, deleted, failed>>

Tick ==
  /\ heapPc = "select"
  /\ tickTime' = now
  /\ heapPc' = "scan"
  /\ UNCHANGED <<heap, batchCh, batch>> /\ HeapUnchanged

(* Mutant of Due: the delay is not waited for. *)
DueAtOnce == heap

Due == {e \in heap : tickTime - time[e] >= eventDelay}

(* The batches that popping the earliest events first can build. *)
NextBatches ==
  {b \in SUBSET Due :
     /\ \/ Cardinality(b) = batchSize
        \/ Cardinality(b) < batchSize /\ b = Due
     /\ \A e \in b, f \in Due \ b : time[e] <= time[f]}

(* Mutant of Scan: an event that is not due ends the goroutine, not the loop. *)
ScanReturns ==
  /\ heapPc = "scan"
  /\ \E b \in NextBatches :
       /\ batch' = b
       /\ heap' = heap \ b
       /\ heapPc' = IF Cardinality(b) = batchSize THEN "sendFull"
                    ELSE IF heap # b THEN "done"
                    ELSE IF b # {} THEN "sendRest" ELSE "select"
  /\ UNCHANGED <<tickTime, batchCh>> /\ HeapUnchanged

(* The loop under the lock, up to a full batch or the end of the due events. *)
Scan ==
  /\ heapPc = "scan"
  /\ \E b \in NextBatches :
       /\ batch' = b
       /\ heap' = heap \ b
       /\ heapPc' = IF Cardinality(b) = batchSize THEN "sendFull"
                    ELSE IF b # {} THEN "sendRest" ELSE "select"
  /\ UNCHANGED <<tickTime, batchCh>> /\ HeapUnchanged

(* Mutant of sendBatch: does not wait for room in batchCh, and drops the batch. *)
sendBatchOrDrop ==
  /\ heapPc \in {"sendFull", "sendRest"}
  /\ batchCh' = IF Len(batchCh) < BatchChSize THEN Append(batchCh, batch) ELSE batchCh
  /\ heapPc' = IF heapPc = "sendFull" THEN "scan" ELSE "select"
  /\ batch' = {}
  /\ UNCHANGED <<heap, tickTime>> /\ HeapUnchanged

(* Mutant of sendBatch: a cancelled context is not looked at. *)
sendBatchNoCancel ==
  /\ heapPc \in {"sendFull", "sendRest"}
  /\ Len(batchCh) < BatchChSize
  /\ batchCh' = Append(batchCh, batch)
  /\ heapPc' = IF heapPc = "sendFull" THEN "scan" ELSE "select"
  /\ batch' = {}
  /\ UNCHANGED <<heap, tickTime>> /\ HeapUnchanged

(* The sends of processHeap: a cancelled context ends it, and the batch that *)
(* it holds is lost.                                                         *)
sendBatch ==
  /\ heapPc \in {"sendFull", "sendRest"}
  /\ \/ /\ Len(batchCh) < BatchChSize
        /\ batchCh' = Append(batchCh, batch)
        /\ heapPc' = IF heapPc = "sendFull" THEN "scan" ELSE "select"
     \/ /\ cancelled
        /\ heapPc' = "done"
        /\ UNCHANGED batchCh
  /\ batch' = {}
  /\ UNCHANGED <<heap, tickTime>> /\ HeapUnchanged

(* Mutant of flushHeap: sends without asking whether there is room. *)
flushHeapOverfull ==
  /\ heapPc = "select" /\ cancelled
  /\ batchCh' = IF heap # {} THEN Append(batchCh, heap) ELSE batchCh
  /\ heap' = {}
  /\ heapPc' = "done"
  /\ UNCHANGED <<tickTime, batch>> /\ HeapUnchanged

(* Cancelled: what is left in the heap, due or not, goes out as one batch if  *)
(* there is room for it, and is lost otherwise.                               *)
flushHeap ==
  /\ heapPc = "select" /\ cancelled
  /\ batchCh' = IF heap # {} /\ Len(batchCh) < BatchChSize
                THEN Append(batchCh, heap) ELSE batchCh
  /\ heap' = {}
  /\ heapPc' = "done"
  /\ UNCHANGED <<tickTime, batch>> /\ HeapUnchanged

-----------------------------------------------------------------------------
(* processBatch. *)

(* tryHandle starts a goroutine for the batch and returns. *)
tryHandle ==
  /\ batchPc \in {"select", "drain"}
  /\ batchCh # <<>>
  /\ handlers' = handlers \cup {Head(batchCh)}
  /\ batchCh' = Tail(batchCh)
  /\ UNCHANGED <<now, cancelled, sender, time, eventCh, heap, recvPc, received,
                 heapVars, batchPc, tasksPc, deleted, failed>>

(* Cancelled: handles what is in batchCh at that moment, then returns. *)
processBatchStops ==
  /\ \/ batchPc = "select" /\ cancelled /\ batchPc' = "drain"
     \/ batchPc = "drain" /\ batchCh = <<>> /\ batchPc' = "done"
  /\ UNCHANGED <<now, cancelled, sender, time, chanVars, recvPc, received, heapVars,
                 tasksPc, handlers, deleted, failed>>

(* The handler of a batch: one transaction of the backend, all or nothing. *)
handler(b) ==
  /\ b \in handlers
  /\ handlers' = handlers \ {b}
  /\ \/ deleted' = deleted \cup b /\ UNCHANGED failed
     \/ failed' = failed \cup b /\ UNCHANGED deleted
  /\ UNCHANGED <<now, cancelled, sender, time, chanVars, recvPc, received, heapVars,
                 batchPc, tasksPc>>

(* processTasks: the injected task returns when it sees the cancelled context, *)
(* and then processTasks does.                                                 *)
processTasks ==
  /\ \/ tasksPc = "tasks" /\ cancelled /\ tasksPc' = "wait"
     \/ tasksPc = "wait" /\ tasksPc' = "done"
  /\ UNCHANGED <<now, cancelled, sender, time, chanVars, recvPc, received, heapVars,
                 batchPc, handlers, deleted, failed>>

Next ==
  \/ Advance
  \/ Cancel
  \/ \E e \in Event : CanRunTask(e) \/ SendEvent(e)
  \/ receiveEvents \/ receivePush
  \/ Tick \/ Scan \/ sendBatch \/ flushHeap
  \/ tryHandle \/ processBatchStops
  \/ \E b \in handlers : handler(b)
  \/ processTasks

Spec == Init /\ [][Next]_vars

(* Go runs every ready goroutine, serves blocked senders and waiters of a     *)
(* mutex in turn, and picks at random among the ready cases of a select; time *)
(* passes, tickers tick, the backend answers.  Of the senders and of the      *)
(* handlers it is enough that some one goes on.  Nothing is assumed of        *)
(* CanRunTask and Cancel.                                                     *)
Fairness ==
  /\ WF_vars(Advance)
  /\ SF_vars(\E e \in Event : SendEvent(e))
  /\ WF_vars(receiveEvents) /\ SF_vars(receivePush)
  /\ WF_vars(Tick) /\ WF_vars(Scan) /\ WF_vars(sendBatch) /\ SF_vars(flushHeap)
  /\ WF_vars(tryHandle) /\ WF_vars(processBatchStops)
  /\ WF_vars(\E b \in handlers : handler(b))
  /\ WF_vars(processTasks)

FairSpec == Spec /\ Fairness

-----------------------------------------------------------------------------
(* How many times event e is on its way or at its end. *)
Copies(e) ==
  LET in(S) == IF e \in S THEN 1 ELSE 0
  IN  Cardinality({i \in DOMAIN eventCh : eventCh[i] = e})
      + Cardinality({i \in DOMAIN batchCh : e \in batchCh[i]})
      + Cardinality({b \in handlers : e \in b})
      + in(received) + in(heap) + in(batch) + in(deleted) + in(failed)

(* No key is forgotten and none is deleted twice: between the channels, the   *)
(* heap, its lock and the handlers, an event that SendEvent has accepted is   *)
(* in exactly one place; only a shutdown loses events.                        *)
Conserved ==
  \A e \in Event :
    /\ Copies(e) <= 1
    /\ sender[e] = "sent" /\ ~ cancelled => Copies(e) = 1

(* While the node runs, a key is deleted only after the delay: ExecLock needs *)
(* it there as long as another node may still ask for the same execution.     *)
DeletedWhenDue ==
  ~ cancelled =>
    \A e \in (UNION handlers) \cup deleted \cup failed : now >= time[e] + eventDelay

(* Unless the node shuts down, every key gets its turn, although its sender,  *)
(* receiveEvents and processHeap may all be waiting for each other's channel  *)
(* or lock.                                                                   *)
EveryKeyHandled ==
  \A e \in Event : sender[e] = "sending" ~> (e \in deleted \cup failed \/ cancelled)

(* After a shutdown every goroutine returns, even one that is blocked on a    *)
(* full channel or on the lock that a blocked one holds.                      *)
AllReturn ==
  cancelled ~> /\ recvPc = "done" /\ heapPc = "done"
               /\ batchPc = "done" /\ tasksPc = "done"
               /\ \A e \in Event : sender[e] # "sending"

=============================================================================
