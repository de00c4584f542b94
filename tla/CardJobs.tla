------------------------------ MODULE CardJobs ------------------------------
(***************************************************************************)
(* Asynchronous card generation: the Bull queue as src/services/           *)
(* jobQueue.ts configures it, processCardGenerationJob of                  *)
(* src/services/cardGenerationQueue.ts and the worker processes of         *)
(* src/workers/cardGenerationWorker.ts.                                    *)
(*                                                                         *)
(* An execution is one run of the processor for one job.  A job that times *)
(* out or looks stalled is taken again, but nothing stops the code of the  *)
(* execution it had: that goes on beside the retry.  Bull lets go of the   *)
(* promise of one that timed out; one that lost its lock to the check for  *)
(* stalled jobs it still waits for, and has its end told to Redis.         *)
(***************************************************************************)
EXTENDS Naturals, FiniteSets

CONSTANTS
  Job,
  WorkerProc,    \* worker processes
  Concurrency,   \* bullQueue.concurrency
  MaxAttempts,   \* bullQueue.defaultJobAttempts
  Faults,        \* subset of {"throw", "timeout", "stall", "crash", "redis"}
  MaxCrashes,    \* bound on crashes of worker processes
  NoWorker

ASSUME ConcurrencyAssumption == Concurrency \in Nat \ {0}
ASSUME MaxAttemptsAssumption == MaxAttempts \in Nat \ {0}
ASSUME MaxCrashesAssumption == MaxCrashes \in Nat
ASSUME NoWorkerAssumption == NoWorker \notin WorkerProc

\* settings.maxStalledCount
MaxStalled == 1
\* Bound of the model: a job is executed once per attempt, and each time it
\* stalls the attempts may be counted anew.
Execution == 1..(MaxAttempts * (MaxStalled + 1))

VARIABLES
  state,      \* the state of each job in the queue
  failures,   \* attemptsMade of the job's key
  reason,     \* does the key have a failedReason?
  stalls,     \* how often the job was found stalled
  started,    \* executions started
  made,       \* made[j][e]: attemptsMade as execution e read it when it began
  lock,       \* the execution the job was locked for, 0 for none
  at,         \* at[j][e]: where execution e of job j is
  where,      \* where[j][e]: the worker process running it
  result,     \* the execution whose return value the job carries
  worker,     \* "up", "closing" or "down"
  crashes

queueVars == <<state, failures, reason, stalls, started, made, lock, result>>
vars == <<queueVars, at, where, worker, crashes>>

\* Where an execution is while Bull waits for its promise.  One that timed out is
\* "left": its code runs on, but Bull has let go of it.
Running == {"begin", "announce", "generate", "finish", "return", "throw"}
Settled == {"completed", "failed"}

TypeOK ==
  /\ state \in [Job -> {"none", "waiting", "delayed", "active", "removed"} \cup Settled]
  /\ failures \in [Job -> Nat] /\ reason \in [Job -> BOOLEAN]
  /\ stalls \in [Job -> 0..(MaxStalled + 1)]
  /\ started \in [Job -> Execution \cup {0}]
  /\ made \in [Job -> [Execution -> Nat]]
  /\ lock \in [Job -> Execution \cup {0}]
  /\ at \in [Job -> [Execution -> Running \cup {"idle", "left", "done", "dead"}]]
  /\ where \in [Job -> [Execution -> WorkerProc \cup {NoWorker}]]
  /\ result \in [Job -> Execution \cup {0}]
  /\ worker \in [WorkerProc -> {"up", "closing", "down"}]
  /\ crashes \in 0..MaxCrashes

Init ==
  /\ state = [j \in Job |-> "none"]
  /\ failures = [j \in Job |-> 0]
  /\ reason = [j \in Job |-> FALSE]
  /\ stalls = [j \in Job |-> 0]
  /\ started = [j \in Job |-> 0]
  /\ made = [j \in Job |-> [e \in Execution |-> 0]]
  /\ lock = [j \in Job |-> 0]
  /\ at = [j \in Job |-> [e \in Execution |-> "idle"]]
  /\ where = [j \in Job |-> [e \in Execution |-> NoWorker]]
  /\ result = [j \in Job |-> 0]
  /\ worker = [w \in WorkerProc |-> "up"]
  /\ crashes = 0

Move(j, e, l) == at' = [at EXCEPT ![j][e] = l]

\* The executions a worker process counts against its concurrency: those whose
\* promise Bull still waits for.
Busy(w) == {x \in Job \X Execution : at[x[1]][x[2]] \in Running /\ where[x[1]][x[2]] = w}

\* Does Redis take what execution e says for the holder's word? A lock is a
\* process's: it carries the token of the process, the same for every
\* execution there, and a process that starts anew has another.
Holds(j, e) ==
  /\ lock[j] # 0
  /\ where[j][lock[j]] = where[j][e]
  /\ at[j][lock[j]] # "dead"

\* Is there a key of job j? One that was removed may be written again.
KeyExists(j) == state[j] \notin {"none", "removed"} \/ reason[j]

-----------------------------------------------------------------------------
(* The server.                                                             *)

\* generateCardsAsync, once its parameters are valid.
CreateJob(j) ==
  /\ state[j] = "none"
  /\ state' = [state EXCEPT ![j] = "waiting"]
  /\ UNCHANGED <<failures, reason, stalls, started, lock, result, made, at, where,
                 worker, crashes>>

\* cancelJob: job.remove() deletes the key with all it says; it throws when the
\* job is locked, and the caller is told false.
CancelJob(j) ==
  /\ KeyExists(j)
  /\ lock[j] = 0
  /\ state' = [state EXCEPT ![j] = "removed"]
  /\ failures' = [failures EXCEPT ![j] = 0]
  /\ reason' = [reason EXCEPT ![j] = FALSE]
  /\ result' = [result EXCEPT ![j] = 0]
  /\ UNCHANGED <<stalls, started, lock, made, at, where, worker, crashes>>

-----------------------------------------------------------------------------
(* Bull.                                                                   *)

\* A worker takes a job and its lock.
TakeJob(j, w) ==
  LET e == started[j] + 1 IN
  /\ state[j] = "waiting" /\ e \in Execution
  /\ worker[w] = "up"
  /\ Cardinality(Busy(w)) < Concurrency
  /\ state' = [state EXCEPT ![j] = "active"]
  /\ started' = [started EXCEPT ![j] = e]
  /\ made' = [made EXCEPT ![j][e] = failures[j]]
  /\ lock' = [lock EXCEPT ![j] = e]
  /\ at' = [at EXCEPT ![j][e] = "begin"]
  /\ where' = [where EXCEPT ![j][e] = w]
  /\ UNCHANGED <<failures, reason, stalls, result, worker, crashes>>

\* Mutant of FailAttempt: a retry is decided on whoever holds the lock.
FailAttemptUnlocked(j, e) ==
  /\ failures' = [failures EXCEPT ![j] = made[j][e] + 1]
  /\ reason' = [reason EXCEPT ![j] = TRUE]
  /\ state' = [state EXCEPT ![j] = IF made[j][e] + 1 < MaxAttempts THEN "delayed" ELSE "failed"]
  /\ lock' = [lock EXCEPT ![j] = 0]

\* moveToFailed: attemptsMade, as this execution counts it, and failedReason are
\* written to the key in any case, even to one that is gone.  The move that
\* follows is refused to one without the lock: a retry after a backoff while
\* attempts are left.
FailAttempt(j, e) ==
  /\ failures' = [failures EXCEPT ![j] = made[j][e] + 1]
  /\ reason' = [reason EXCEPT ![j] = TRUE]
  /\ IF Holds(j, e)
       THEN /\ state' = [state EXCEPT ![j] =
                 IF made[j][e] + 1 < MaxAttempts THEN "delayed" ELSE "failed"]
            /\ lock' = [lock EXCEPT ![j] = 0]
       ELSE UNCHANGED <<state, lock>>

\* The job's timeout passes while its execution runs on, locked or not.
Timeout(j, e) ==
  /\ "timeout" \in Faults
  /\ at[j][e] \in Running
  /\ Move(j, e, "left")
  /\ FailAttempt(j, e)
  /\ UNCHANGED <<stalls, started, made, result, where, worker, crashes>>

BackoffOver(j) ==
  /\ state[j] = "delayed"
  /\ state' = [state EXCEPT ![j] = "waiting"]
  /\ UNCHANGED <<failures, reason, stalls, started, lock, result, made, at, where,
                 worker, crashes>>

\* Mutant of Stalled: a stalled job is not put back.
StalledNotRequeued(j) ==
  /\ lock[j] # 0
  /\ at[j][lock[j]] = "dead" \/ "stall" \in Faults
  /\ stalls' = [stalls EXCEPT ![j] = @ + 1]
  /\ lock' = [lock EXCEPT ![j] = 0]
  /\ UNCHANGED <<state, failures, reason, started, result, made, at, where,
                 worker, crashes>>

\* The lock was not renewed: its process is dead, or its event loop was blocked.
\* A job that stalls too often fails, with a reason of its own.
Stalled(j) ==
  /\ lock[j] # 0
  /\ at[j][lock[j]] = "dead" \/ "stall" \in Faults
  /\ stalls' = [stalls EXCEPT ![j] = @ + 1]
  /\ IF stalls[j] < MaxStalled
       THEN state' = [state EXCEPT ![j] = "waiting"] /\ UNCHANGED reason
       ELSE /\ state' = [state EXCEPT ![j] = "failed"]
            /\ reason' = [reason EXCEPT ![j] = TRUE]
  /\ lock' = [lock EXCEPT ![j] = 0]
  /\ UNCHANGED <<failures, started, result, made, at, where, worker, crashes>>

-----------------------------------------------------------------------------
(* processCardGenerationJob.                                               *)

\* job.progress(n): written whoever holds the lock; throws when the job's key is
\* gone or Redis fails.
Report(j, e, next) ==
  \/ KeyExists(j) /\ Move(j, e, next)
  \/ (~KeyExists(j) \/ "redis" \in Faults) /\ Move(j, e, "throw")

\* progress(10), then the progress of the mode: 20, 30 or 40.
Begin(j, e) ==
  /\ at[j][e] = "begin"
  /\ Report(j, e, "announce")
  /\ UNCHANGED <<queueVars, where, worker, crashes>>

Announce(j, e) ==
  /\ at[j][e] = "announce"
  /\ Report(j, e, "generate")
  /\ UNCHANGED <<queueVars, where, worker, crashes>>

\* One of the three generateAndSave calls.
Generate(j, e) ==
  /\ at[j][e] = "generate"
  /\ \/ Move(j, e, "finish")
     \/ "throw" \in Faults /\ Move(j, e, "throw")
  /\ UNCHANGED <<queueVars, where, worker, crashes>>

Finish(j, e) ==
  /\ at[j][e] = "finish"
  /\ Report(j, e, "return")
  /\ UNCHANGED <<queueVars, where, worker, crashes>>

\* Mutant of Return: the result is stored whoever holds the lock.
ReturnUnlocked(j, e) ==
  /\ at[j][e] = "return"
  /\ Move(j, e, "done")
  /\ state' = [state EXCEPT ![j] = "completed"]
  /\ result' = [result EXCEPT ![j] = e]
  /\ lock' = [lock EXCEPT ![j] = 0]
  /\ UNCHANGED <<failures, reason, stalls, started, made, where, worker, crashes>>

\* The processor returns.  Only with the lock is the job completed, and a reason
\* from an earlier attempt stays.  Without it the move is refused, and the
\* refusal goes the way of an error of the processor.
Return(j, e) ==
  /\ at[j][e] = "return"
  /\ Move(j, e, "done")
  /\ IF Holds(j, e)
       THEN /\ state' = [state EXCEPT ![j] = "completed"]
            /\ result' = [result EXCEPT ![j] = e]
            /\ lock' = [lock EXCEPT ![j] = 0]
            /\ UNCHANGED <<failures, reason>>
       ELSE FailAttempt(j, e) /\ UNCHANGED result
  /\ UNCHANGED <<stalls, started, made, where, worker, crashes>>

Throw(j, e) ==
  /\ at[j][e] = "throw"
  /\ Move(j, e, "done")
  /\ FailAttempt(j, e)
  /\ UNCHANGED <<stalls, started, made, result, where, worker, crashes>>

\* An execution that timed out comes to its end unheard.  On the way it still
\* reports its progress, which is all it can write to the job's key.
RunOut(j, e) ==
  /\ at[j][e] = "left"
  /\ Move(j, e, "done")
  /\ UNCHANGED <<queueVars, where, worker, crashes>>

ExecutionStep(j, e) ==
  Begin(j, e) \/ Announce(j, e) \/ Generate(j, e) \/ Finish(j, e)
  \/ Return(j, e) \/ Throw(j, e) \/ RunOut(j, e)

-----------------------------------------------------------------------------
(* The worker processes.                                                   *)

KillExecutions(w) ==
  at' = [j \in Job |-> [e \in Execution |->
           IF where[j][e] = w /\ at[j][e] \in Running \cup {"left"} THEN "dead" ELSE at[j][e]]]

\* SIGTERM or SIGINT: queue.close() stops taking jobs ...
Close(w) ==
  /\ worker[w] = "up"
  /\ worker' = [worker EXCEPT ![w] = "closing"]
  /\ UNCHANGED <<queueVars, at, where, crashes>>

\* ... waits for the jobs in hand, then the process exits, abandoned executions
\* and all.
Exit(w) ==
  /\ worker[w] = "closing"
  /\ Busy(w) = {}
  /\ worker' = [worker EXCEPT ![w] = "down"]
  /\ KillExecutions(w)
  /\ UNCHANGED <<queueVars, where, crashes>>

Crash(w) ==
  /\ "crash" \in Faults
  /\ crashes < MaxCrashes
  /\ worker[w] # "down"
  /\ worker' = [worker EXCEPT ![w] = "down"]
  /\ KillExecutions(w)
  /\ crashes' = crashes + 1
  /\ UNCHANGED <<queueVars, where>>

\* startWorker in a new process.
Start(w) ==
  /\ worker[w] = "down"
  /\ worker' = [worker EXCEPT ![w] = "up"]
  /\ UNCHANGED <<queueVars, at, where, crashes>>

-----------------------------------------------------------------------------
JobStep(j) ==
  \/ CreateJob(j) \/ CancelJob(j) \/ BackoffOver(j) \/ Stalled(j)
  \/ \E w \in WorkerProc : TakeJob(j, w)
  \/ \E e \in Execution : Timeout(j, e) \/ ExecutionStep(j, e)

WorkerStep(w) == Close(w) \/ Exit(w) \/ Crash(w) \/ Start(w)

Next == (\E j \in Job : JobStep(j)) \/ (\E w \in WorkerProc : WorkerStep(w))

Spec == Init /\ [][Next]_vars

\* Bull's timers fire, executions proceed, and an orchestrator restarts workers
\* often enough that a waiting job is taken.  Nobody has to time out or stall
\* while the process lives.
Fairness ==
  /\ \A j \in Job :
       /\ WF_vars(BackoffOver(j))
       /\ WF_vars(lock[j] # 0 /\ at[j][lock[j]] = "dead" /\ Stalled(j))
       /\ SF_vars(\E w \in WorkerProc : TakeJob(j, w))
       /\ \A e \in Execution : WF_vars(ExecutionStep(j, e))
  /\ \A w \in WorkerProc : WF_vars(Start(w)) /\ WF_vars(Exit(w))

FairSpec == Spec /\ Fairness

-----------------------------------------------------------------------------
\* A job is active exactly while it is locked, and locked for its latest
\* execution, which Bull still waits for or which died with its process.  A
\* worker that is asked to stop waits for all of its executions: without crashes
\* no lock is left to a process that is gone.
LockMeansActive ==
  \A j \in Job :
    /\ (lock[j] # 0) <=> (state[j] = "active")
    /\ lock[j] \in {0, started[j]}
    /\ lock[j] # 0 => at[j][lock[j]] \in Running \cup {"dead"}
    /\ crashes = 0 /\ lock[j] # 0 => at[j][lock[j]] # "dead"

\* A job carries a result exactly when it is completed, that of an execution
\* that ran to its end.  A job is given up as failed only when it was tried as
\* often as it may be or stalled too often: executions that lost the lock make
\* attemptsMade jump back and forth, but never past the executions there were.
OutcomeIsEarned ==
  \A j \in Job :
    /\ (result[j] # 0) <=> (state[j] = "completed")
    /\ result[j] # 0 => at[j][result[j]] = "done"
    /\ state[j] = "failed" => started[j] >= MaxAttempts \/ stalls[j] > MaxStalled
    /\ failures[j] <= started[j]

\* A failed job has an error to show.  An error means a failed attempt is
\* counted or the job stalled too often, and a counted attempt has its error;
\* a completed job may have one too.
ErrorsAreCounted ==
  \A j \in Job :
    /\ state[j] = "failed" => reason[j]
    /\ failures[j] > 0 => reason[j]
    /\ reason[j] => failures[j] > 0 \/ stalls[j] > MaxStalled

\* What the job's keys in Redis say of it agrees: state and lock, result,
\* attempts and error.
KeysAgree == LockMeansActive /\ OutcomeIsEarned /\ ErrorsAreCounted

\* A settled job stays settled with the same result, whatever the executions
\* abandoned on the way still do: it can only be removed.
SettledIsFinal ==
  [][\A j \in Job : state[j] \in Settled =>
        \/ state'[j] = state[j] /\ result'[j] = result[j]
        \/ state'[j] = "removed"]_vars

\* Every job created is completed, failed or removed in the end.
EveryJobSettles ==
  \A j \in Job : state[j] = "waiting" ~> state[j] \in Settled \cup {"removed"}
=============================================================================
