----------------------------- MODULE WorkerPool -----------------------------
(***************************************************************************)
(* CardGenerationWorkerPool (src/workers/cardGenerationWorkerPool.ts): a   *)
(* fixed pool of worker threads.  A task goes to the idle worker with the  *)
(* lowest index or, when there is none, waits for a 'taskComplete' event.  *)
(* The main thread handles the events of the worker threads one at a time; *)
(* a thread runs beside it.                                                *)
(***************************************************************************)
EXTENDS Naturals, Sequences, FiniteSets

CONSTANTS
  Task,
  PoolSize,
  Faults,      \* subset of {"fail", "crash"}
  MaxCrashes,  \* bound on crashes
  NoTask

ASSUME PoolSizeAssumption == PoolSize \in Nat \ {0}
ASSUME MaxCrashesAssumption == MaxCrashes \in Nat
ASSUME NoTaskAssumption == NoTask \notin Task

VARIABLES
  task,      \* task[t]: where the promise of task t is
  result,    \* result[t]: the task whose result resolved the promise of t
  slot,      \* workerTasks: the task each worker is running
  waiters,   \* tasks whose once('taskComplete') listener is registered
  thread,    \* "up" or "dead"
  inbox,     \* messages posted to each worker thread
  events,    \* events of each worker not yet handled by the main thread
  phase,     \* of shutdown()
  awaited,   \* the active tasks shutdown() still waits for
  crashes

vars == <<task, result, slot, waiters, thread, inbox, events, phase, awaited, crashes>>

Worker == 0..(PoolSize - 1)
Message == [kind : {"ok", "failed"}, id : Task]
Event == Message \cup [kind : {"error", "exit"}]
Settled == {"resolved", "rejected"}

TypeOK ==
  /\ task \in [Task -> {"new", "waiting", "assigned"} \cup Settled]
  /\ result \in [Task -> Task \cup {NoTask}]
  /\ slot \in [Worker -> Task \cup {NoTask}]
  /\ waiters \in Seq(Task)
  /\ thread \in [Worker -> {"up", "dead"}]
  /\ inbox \in [Worker -> Seq(Task)]
  /\ events \in [Worker -> Seq(Event)]
  /\ phase \in {"open", "draining", "terminating", "closed"}
  /\ awaited \subseteq Task
  /\ crashes \in 0..MaxCrashes

Init ==
  /\ task = [t \in Task |-> "new"]
  /\ result = [t \in Task |-> NoTask]
  /\ slot = [w \in Worker |-> NoTask]
  /\ waiters = <<>>
  /\ thread = [w \in Worker |-> "up"]
  /\ inbox = [w \in Worker |-> <<>>]
  /\ events = [w \in Worker |-> <<>>]
  /\ phase = "open"
  /\ awaited = {}
  /\ crashes = 0

Idle(sl) == {w \in Worker : sl[w] = NoTask}

\* executeTask called for the tasks of q in order, with the slots sl: the
\* first ones take the idle workers from the lowest index up, the others
\* register their listener.  A message posted to a dead thread is lost.
ExecuteAll(q, sl, tk) ==
  LET Rank(w) == Cardinality({v \in Idle(sl) : v <= w})
      Taken == {w \in Idle(sl) : Rank(w) <= Len(q)}
      rest == SubSeq(q, Cardinality(Taken) + 1, Len(q))
      started == {q[Rank(w)] : w \in Taken}
  IN /\ slot' = [w \in Worker |-> IF w \in Taken THEN q[Rank(w)] ELSE sl[w]]
     /\ inbox' = [w \in Worker |->
                    IF w \in Taken /\ thread[w] = "up"
                      THEN Append(inbox[w], q[Rank(w)]) ELSE inbox[w]]
     /\ waiters' = rest
     /\ task' = [t \in Task |-> IF t \in started THEN "assigned"
                                ELSE IF \E i \in DOMAIN rest : rest[i] = t THEN "waiting"
                                ELSE tk[t]]

-----------------------------------------------------------------------------
\* A caller's executeTask.  The listeners already registered stay in place.
ExecuteTask(t) ==
  /\ task[t] = "new"
  /\ IF Idle(slot) # {}
       THEN \E w \in Idle(slot) :
              /\ \A v \in Idle(slot) : w <= v
              /\ slot' = [slot EXCEPT ![w] = t]
              /\ inbox' = IF thread[w] = "up"
                            THEN [inbox EXCEPT ![w] = Append(@, t)] ELSE inbox
              /\ task' = [task EXCEPT ![t] = "assigned"]
              /\ UNCHANGED waiters
       ELSE /\ waiters' = Append(waiters, t)
            /\ task' = [task EXCEPT ![t] = "waiting"]
            /\ UNCHANGED <<slot, inbox>>
  /\ UNCHANGED <<result, thread, events, phase, awaited, crashes>>

-----------------------------------------------------------------------------
(* The worker threads.                                                     *)

\* The thread's message handler: run a task, post its result.
RunTask(w) ==
  /\ thread[w] = "up"
  /\ inbox[w] # <<>>
  /\ \E kind \in {"ok"} \cup (IF "fail" \in Faults THEN {"failed"} ELSE {}) :
       events' = [events EXCEPT ![w] = Append(@, [kind |-> kind, id |-> Head(inbox[w])])]
  /\ inbox' = [inbox EXCEPT ![w] = Tail(@)]
  /\ UNCHANGED <<task, result, slot, waiters, thread, phase, awaited, crashes>>

\* The thread dies of an uncaught error or of its memory limit: 'error', then
\* 'exit' with code 1.
Crash(w) ==
  /\ "crash" \in Faults
  /\ crashes < MaxCrashes
  /\ thread[w] = "up"
  /\ thread' = [thread EXCEPT ![w] = "dead"]
  /\ inbox' = [inbox EXCEPT ![w] = <<>>]
  /\ events' = [events EXCEPT ![w] = @ \o <<[kind |-> "error"], [kind |-> "exit"]>>]
  /\ crashes' = crashes + 1
  /\ UNCHANGED <<task, result, slot, waiters, phase, awaited>>

-----------------------------------------------------------------------------
(* The main thread's event handlers.                                       *)

NextEvent(w, kinds) == events[w] # <<>> /\ Head(events[w]).kind \in kinds
Consume(w) == events' = [events EXCEPT ![w] = Tail(@)]

\* Mutant of HandleWorkerMessage: the event is emitted for a success only.
HandleWorkerMessageOnSuccess(w) ==
  LET t == slot[w]
      msg == Head(events[w])
      freed == [slot EXCEPT ![w] = NoTask]
      settled == [task EXCEPT ![t] = IF msg.kind = "ok" THEN "resolved" ELSE "rejected"]
  IN /\ NextEvent(w, {"ok", "failed"})
     /\ Consume(w)
     /\ IF t = NoTask
          THEN UNCHANGED <<task, result, slot, waiters, inbox, awaited>>
          ELSE IF msg.kind = "ok"
          THEN /\ result' = [result EXCEPT ![t] = msg.id]
               /\ awaited' = awaited \ {t}
               /\ ExecuteAll(waiters, freed, settled)
          ELSE /\ task' = settled
               /\ slot' = freed
               /\ UNCHANGED <<result, waiters, inbox, awaited>>
     /\ UNCHANGED <<thread, phase, crashes>>

\* Mutant of HandleWorkerMessage: the wrapper of shutdown() is not called.
HandleWorkerMessageUnwrapped(w) ==
  LET t == slot[w]
      msg == Head(events[w])
      freed == [slot EXCEPT ![w] = NoTask]
  IN /\ NextEvent(w, {"ok", "failed"})
     /\ Consume(w)
     /\ IF t = NoTask
          THEN UNCHANGED <<task, result, slot, waiters, inbox>>
          ELSE /\ result' = [result EXCEPT ![t] = msg.id]
               /\ ExecuteAll(waiters, freed, [task EXCEPT ![t] = "resolved"])
     /\ UNCHANGED <<thread, phase, awaited, crashes>>

\* handleWorkerMessage.  The promise of the task in the slot is settled, then
\* 'taskComplete' runs every registered listener in order.  shutdown() wrapped
\* resolve, not reject.
HandleWorkerMessage(w) ==
  LET t == slot[w]
      msg == Head(events[w])
      freed == [slot EXCEPT ![w] = NoTask]
  IN /\ NextEvent(w, {"ok", "failed"})
     /\ Consume(w)
     /\ IF t = NoTask
          THEN UNCHANGED <<task, result, slot, waiters, inbox, awaited>>
          ELSE /\ result' = IF msg.kind = "ok" THEN [result EXCEPT ![t] = msg.id] ELSE result
               /\ awaited' = IF msg.kind = "ok" THEN awaited \ {t} ELSE awaited
               /\ ExecuteAll(waiters, freed,
                    [task EXCEPT ![t] = IF msg.kind = "ok" THEN "resolved" ELSE "rejected"])
     /\ UNCHANGED <<thread, phase, crashes>>

\* Mutant of HandleWorkerError: the slot of the crashed worker is not freed.
HandleWorkerErrorKeepsSlot(w) ==
  /\ NextEvent(w, {"error"})
  /\ Consume(w)
  /\ task' = IF slot[w] = NoTask THEN task ELSE [task EXCEPT ![slot[w]] = "rejected"]
  /\ UNCHANGED <<result, slot, waiters, thread, inbox, phase, awaited, crashes>>

\* handleWorkerError: the slot is freed and the task rejected, without the
\* event a waiting task listens for.
HandleWorkerError(w) ==
  /\ NextEvent(w, {"error"})
  /\ Consume(w)
  /\ IF slot[w] = NoTask
       THEN UNCHANGED <<task, slot>>
       ELSE /\ slot' = [slot EXCEPT ![w] = NoTask]
            /\ task' = [task EXCEPT ![slot[w]] = "rejected"]
  /\ UNCHANGED <<result, waiters, thread, inbox, phase, awaited, crashes>>

\* 'exit' with a code other than 0: createWorker(index).  The slot keeps what
\* was assigned between 'error' and 'exit'.
HandleExit(w) ==
  /\ NextEvent(w, {"exit"})
  /\ Consume(w)
  /\ thread' = [thread EXCEPT ![w] = "up"]
  /\ inbox' = [inbox EXCEPT ![w] = <<>>]
  /\ UNCHANGED <<task, result, slot, waiters, phase, awaited, crashes>>

-----------------------------------------------------------------------------
(* shutdown().                                                             *)

Shutdown ==
  /\ phase = "open"
  /\ phase' = "draining"
  /\ awaited' = {slot[w] : w \in Worker} \ {NoTask}
  /\ UNCHANGED <<task, result, slot, waiters, thread, inbox, events, crashes>>

\* worker.terminate() of every worker; a terminated thread exits with code 1.
Terminate ==
  /\ phase = "draining"
  /\ awaited = {}
  /\ phase' = "terminating"
  /\ thread' = [w \in Worker |-> "dead"]
  /\ inbox' = [w \in Worker |-> <<>>]
  /\ events' = [w \in Worker |-> IF thread[w] = "up"
                                   THEN Append(events[w], [kind |-> "exit"]) ELSE events[w]]
  /\ UNCHANGED <<task, result, slot, waiters, awaited, crashes>>

\* The promises of terminate() resolve after the 'exit' events.
Closed ==
  /\ phase = "terminating"
  /\ \A w \in Worker : \A i \in DOMAIN events[w] : events[w][i].kind # "exit"
  /\ phase' = "closed"
  /\ UNCHANGED <<task, result, slot, waiters, thread, inbox, events, awaited, crashes>>

WorkerStep(w) ==
  RunTask(w) \/ HandleWorkerMessage(w) \/ HandleWorkerError(w) \/ HandleExit(w)

Next ==
  \/ \E t \in Task : ExecuteTask(t)
  \/ \E w \in Worker : WorkerStep(w) \/ Crash(w)
  \/ Shutdown \/ Terminate \/ Closed

Spec == Init /\ [][Next]_vars

\* Threads and the main event loop keep running; nobody has to shut down.
Fairness ==
  /\ \A w \in Worker : WF_vars(RunTask(w)) /\ WF_vars(HandleWorkerMessage(w))
                       /\ WF_vars(HandleWorkerError(w)) /\ WF_vars(HandleExit(w))
  /\ WF_vars(Terminate) /\ WF_vars(Closed)
FairSpec == Spec /\ Fairness

-----------------------------------------------------------------------------
\* workerTasks, the registered listeners and the promises agree: a task is in
\* exactly one slot while it is assigned, registered exactly once while it
\* waits, and in neither once it is settled.
OnePlacePerTask ==
  \A t \in Task :
    /\ Cardinality({w \in Worker : slot[w] = t}) = (IF task[t] = "assigned" THEN 1 ELSE 0)
    /\ Cardinality({i \in DOMAIN waiters : waiters[i] = t})
         = (IF task[t] = "waiting" THEN 1 ELSE 0)
    /\ result[t] # NoTask => result[t] = t

\* Every task handed to the pool is resolved or rejected, as long as no worker
\* crashes and the pool is not shut down.
EveryTaskSettles ==
  \A t \in Task :
    task[t] # "new" ~> (task[t] \in Settled \/ crashes > 0 \/ phase # "open")

\* shutdown() comes to an end, unless a task it waits for was rejected: nothing
\* tells it of a rejection.
ShutdownEnds ==
  phase = "draining" ~> (phase = "closed" \/ crashes > 0
                         \/ \E t \in awaited : task[t] = "rejected")
=============================================================================
