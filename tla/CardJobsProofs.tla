--------------------------- MODULE CardJobsProofs ---------------------------
(***************************************************************************)
(* Proofs about card generation jobs, for every number of jobs, worker     *)
(* processes and attempts, under every set of faults.                      *)
(***************************************************************************)
EXTENDS CardJobs, TLAPS

-----------------------------------------------------------------------------
(* The inductive invariant.                                                *)

\* Nothing is known of an execution that has not begun; one that Bull waits for
\* has counted fewer attempts than there were executions before it; a job that
\* is not over has not stalled too often.
CountOf(j) ==
  /\ failures[j] <= started[j]
  /\ \A e \in Execution : at[j][e] \in Running => made[j][e] < e /\ e <= started[j]
  /\ state[j] \notin {"failed", "removed"} => stalls[j] <= MaxStalled

LockOf(j) ==
  /\ (lock[j] # 0) <=> (state[j] = "active")
  /\ lock[j] \in {0, started[j]}
  /\ lock[j] # 0 => at[j][lock[j]] \in Running \cup {"dead"}
  /\ crashes = 0 /\ lock[j] # 0 => at[j][lock[j]] # "dead"

OutcomeOf(j) ==
  /\ (result[j] # 0) <=> (state[j] = "completed")
  /\ result[j] # 0 => at[j][result[j]] = "done"
  /\ state[j] = "failed" => started[j] >= MaxAttempts \/ stalls[j] > MaxStalled

ErrorOf(j) ==
  /\ state[j] = "failed" => reason[j]
  /\ failures[j] > 0 => reason[j]
  /\ reason[j] => failures[j] > 0 \/ stalls[j] > MaxStalled

JobInv(j) == CountOf(j) /\ LockOf(j) /\ OutcomeOf(j) /\ ErrorOf(j)

IInv == TypeOK /\ \A j \in Job : JobInv(j)

\* The parts of KeysAgree are parts of the invariant.
LEMMA IInvImpliesKeysAgree == IInv => KeysAgree
BY DEF IInv, JobInv, KeysAgree, LockMeansActive, OutcomeIsEarned, ErrorsAreCounted,
       CountOf, LockOf, OutcomeOf, ErrorOf

\* It holds of an empty queue.
LEMMA InitIInv == Init => IInv
<1> SUFFICES ASSUME Init PROVE IInv
  OBVIOUS
<1> USE MaxAttemptsAssumption, MaxCrashesAssumption DEF MaxStalled
<1>1. TypeOK
  BY DEF Init, TypeOK, Execution, Running, Settled
<1>2. ASSUME NEW j \in Job PROVE JobInv(j)
  BY DEF Init, JobInv, CountOf, LockOf, OutcomeOf, ErrorOf, Running
<1> QED
  BY <1>1, <1>2 DEF IInv

-----------------------------------------------------------------------------
(* Steps of one job leave the others alone.                                *)

\* What the invariant says of job q depends only on what is kept of q.
SameJob(q) ==
  /\ state'[q] = state[q] /\ failures'[q] = failures[q] /\ reason'[q] = reason[q]
  /\ stalls'[q] = stalls[q] /\ started'[q] = started[q] /\ made'[q] = made[q]
  /\ lock'[q] = lock[q] /\ result'[q] = result[q] /\ at'[q] = at[q] /\ crashes' = crashes

\* A job of which nothing changes keeps what the invariant says of it.
LEMMA SameJobKeeps ==
  ASSUME NEW q, SameJob(q), JobInv(q)
  PROVE  JobInv(q)'
BY DEF SameJob, JobInv, CountOf, LockOf, OutcomeOf, ErrorOf

\* The types of one job's numbers.
LEMMA Typing ==
  ASSUME TypeOK, NEW j \in Job
  PROVE  /\ failures[j] \in Nat /\ reason[j] \in BOOLEAN /\ stalls[j] \in 0..2
         /\ started[j] \in Nat /\ lock[j] \in Nat /\ result[j] \in Nat
         /\ Execution \subseteq Nat \ {0} /\ MaxAttempts \in Nat \ {0}
         /\ started[j] \in Execution \cup {0} /\ lock[j] \in Execution \cup {0}
         /\ \A e \in Execution : made[j][e] \in Nat
BY MaxAttemptsAssumption DEF TypeOK, Execution, MaxStalled

\* Creating a job.
LEMMA CreateJobKeeps ==
  ASSUME IInv, NEW j \in Job, CreateJob(j)
  PROVE  IInv'
<1>1. TypeOK'
  BY DEF IInv, CreateJob, TypeOK
<1>2. ASSUME NEW q \in Job PROVE JobInv(q)'
  BY DEF IInv, CreateJob, TypeOK, JobInv, CountOf, LockOf, OutcomeOf, ErrorOf
<1> QED
  BY <1>1, <1>2 DEF IInv

\* Removing a job nobody works on: its key is gone, or gone again.
LEMMA CancelJobKeeps ==
  ASSUME IInv, NEW j \in Job, CancelJob(j)
  PROVE  IInv'
<1>0. TypeOK /\ JobInv(j)
  BY DEF IInv
<1>1. /\ state'[j] = "removed" /\ failures'[j] = 0 /\ reason'[j] = FALSE /\ result'[j] = 0
      /\ lock[j] = 0
  BY <1>0 DEF CancelJob, TypeOK
<1>2. UNCHANGED <<stalls, started, made, lock, at, where, worker, crashes>>
  BY DEF CancelJob
<1>3. TypeOK'
  <2>1. /\ state' \in [Job -> {"none", "waiting", "delayed", "active", "removed"} \cup Settled]
        /\ failures' \in [Job -> Nat] /\ reason' \in [Job -> BOOLEAN]
        /\ result' \in [Job -> Execution \cup {0}]
    BY <1>0 DEF CancelJob, TypeOK
  <2> QED
    BY <2>1, <1>0, <1>2 DEF TypeOK
<1>4. JobInv(j)'
  BY <1>0, <1>1, <1>2, Typing DEF JobInv, CountOf, LockOf, OutcomeOf, ErrorOf
<1>5. ASSUME NEW q \in Job \ {j} PROVE SameJob(q)
  BY <1>0 DEF CancelJob, TypeOK, SameJob
<1> QED
  BY <1>3, <1>4, <1>5, SameJobKeeps DEF IInv

\* Taking a job: the new execution counts the attempts the key shows, which are
\* no more than the executions there were.
LEMMA TakeJobKeeps ==
  ASSUME IInv, NEW j \in Job, NEW w \in WorkerProc, TakeJob(j, w)
  PROVE  IInv'
<1> DEFINE n == started[j] + 1
<1>0. TypeOK /\ JobInv(j)
  BY DEF IInv
<1>1. state[j] = "waiting" /\ lock[j] = 0 /\ result[j] = 0 /\ n \in Execution
  BY <1>0 DEF TakeJob, JobInv, LockOf, OutcomeOf
<1>2. TypeOK'
  <2>1. /\ state' \in [Job -> {"none", "waiting", "delayed", "active", "removed"} \cup Settled]
        /\ started' \in [Job -> Execution \cup {0}] /\ lock' \in [Job -> Execution \cup {0}]
    BY <1>0, <1>1 DEF TakeJob, TypeOK
  <2>2. made' \in [Job -> [Execution -> Nat]]
    BY <1>0, <1>1, Typing DEF TakeJob, TypeOK
  <2>3. at' \in [Job -> [Execution -> Running \cup {"idle", "left", "done", "dead"}]]
    BY <1>0, <1>1 DEF TakeJob, TypeOK, Running
  <2>4. where' \in [Job -> [Execution -> WorkerProc \cup {NoWorker}]]
    BY <1>0, <1>1 DEF TakeJob, TypeOK
  <2> QED
    BY <2>1, <2>2, <2>3, <2>4, <1>0 DEF TakeJob, TypeOK
<1>3. /\ state'[j] = "active" /\ started'[j] = n /\ lock'[j] = n
      /\ at'[j][n] = "begin" /\ made'[j][n] = failures[j]
      /\ \A e \in Execution \ {n} : at'[j][e] = at[j][e] /\ made'[j][e] = made[j][e]
      /\ UNCHANGED <<failures, reason, stalls, result, crashes>>
  BY <1>0, <1>1 DEF TakeJob, TypeOK
<1>4. n = started[j] + 1 /\ n \in Nat
  BY <1>0, Typing
<1> HIDE DEF n
<1>5. CountOf(j)'
  <2>1. failures[j] \in Nat /\ started[j] \in Nat /\ Execution \subseteq Nat \ {0}
    BY <1>0, Typing
  <2>2. failures'[j] <= started'[j]
    BY <2>1, <1>0, <1>3, <1>4 DEF JobInv, CountOf
  <2>3. ASSUME NEW e \in Execution, at'[j][e] \in Running PROVE made'[j][e] < e /\ e <= started'[j]
    <3>1. CASE e = n
      BY <3>1, <2>1, <1>0, <1>3, <1>4 DEF JobInv, CountOf
    <3>2. CASE e # n
      <4>1. at[j][e] \in Running /\ made'[j][e] = made[j][e]
        BY <3>2, <2>3, <1>3
      <4>2. made[j][e] < e /\ e <= started[j]
        BY <4>1, <1>0 DEF JobInv, CountOf
      <4> QED
        BY <4>1, <4>2, <2>1, <1>3, <1>4
    <3> QED
      BY <3>1, <3>2
  <2>4. state'[j] \notin {"failed", "removed"} => stalls'[j] <= MaxStalled
    BY <1>0, <1>1, <1>3 DEF JobInv, CountOf
  <2> QED
    BY <2>2, <2>3, <2>4 DEF CountOf
<1>6. LockOf(j)' /\ OutcomeOf(j)' /\ ErrorOf(j)'
  BY <1>0, <1>1, <1>3, <1>4, Typing DEF JobInv, LockOf, OutcomeOf, ErrorOf, Running
<1>7. ASSUME NEW q \in Job \ {j} PROVE SameJob(q)
  BY <1>0 DEF TakeJob, TypeOK, SameJob
<1> QED
  BY <1>2, <1>5, <1>6, <1>7, SameJobKeeps DEF IInv, JobInv

\* The end of a back-off.
LEMMA BackoffOverKeeps ==
  ASSUME IInv, NEW j \in Job, BackoffOver(j)
  PROVE  IInv'
<1>1. TypeOK'
  BY DEF IInv, BackoffOver, TypeOK
<1>2. ASSUME NEW q \in Job PROVE JobInv(q)'
  BY DEF IInv, BackoffOver, TypeOK, JobInv, CountOf, LockOf, OutcomeOf, ErrorOf
<1> QED
  BY <1>1, <1>2 DEF IInv

\* A stall gives the lock up and costs one of the stalls.
LEMMA StalledKeeps ==
  ASSUME IInv, NEW j \in Job, Stalled(j)
  PROVE  IInv'
<1>0. TypeOK /\ JobInv(j)
  BY DEF IInv
<1>1. state[j] = "active" /\ result[j] = 0 /\ stalls[j] <= 1
  BY <1>0 DEF Stalled, JobInv, CountOf, LockOf, OutcomeOf, MaxStalled
<1>2. /\ stalls'[j] = stalls[j] + 1 /\ lock'[j] = 0
      /\ UNCHANGED <<failures, started, made, result, at, where, worker, crashes>>
  BY <1>0 DEF Stalled, TypeOK
<1>3. IF stalls[j] < 1 THEN state'[j] = "waiting" /\ reason' = reason
      ELSE state'[j] = "failed" /\ reason'[j] = TRUE
  BY <1>0 DEF Stalled, TypeOK, MaxStalled
<1>4. TypeOK'
  <2>1. stalls[j] + 1 \in 0..2
    BY <1>0, <1>1, Typing
  <2>2. stalls' \in [Job -> 0..(MaxStalled + 1)]
    BY <2>1, <1>0 DEF Stalled, TypeOK, MaxStalled
  <2>3. /\ state' \in [Job -> {"none", "waiting", "delayed", "active", "removed"} \cup Settled]
        /\ reason' \in [Job -> BOOLEAN] /\ lock' \in [Job -> Execution \cup {0}]
    BY <1>0 DEF Stalled, TypeOK, Settled
  <2> QED
    BY <2>2, <2>3, <1>0, <1>2 DEF TypeOK
<1>5. JobInv(j)'
  <2>1. CASE stalls[j] < 1
    BY <2>1, <1>0, <1>1, <1>2, <1>3, Typing
    DEF JobInv, CountOf, LockOf, OutcomeOf, ErrorOf, MaxStalled
  <2>2. CASE ~(stalls[j] < 1)
    BY <2>2, <1>0, <1>1, <1>2, <1>3, Typing
    DEF JobInv, CountOf, LockOf, OutcomeOf, ErrorOf, MaxStalled
  <2> QED
    BY <2>1, <2>2
<1>6. ASSUME NEW q \in Job \ {j} PROVE SameJob(q)
  BY <1>0 DEF Stalled, TypeOK, SameJob
<1> QED
  BY <1>4, <1>5, <1>6, SameJobKeeps DEF IInv

-----------------------------------------------------------------------------
(* Executions.                                                             *)

\* An execution comes to l, and nothing else of any execution changes.
LEMMA MoveTyping ==
  ASSUME TypeOK, NEW j \in Job, NEW e \in Execution,
         NEW l \in Running \cup {"left", "done"}, Move(j, e, l)
  PROVE  /\ at' \in [Job -> [Execution -> Running \cup {"idle", "left", "done", "dead"}]]
         /\ at'[j][e] = l /\ \A f \in Execution \ {e} : at'[j][f] = at[j][f]
         /\ \A q \in Job \ {j} : at'[q] = at[q]
BY DEF TypeOK, Move

\* One that has the word of its process's lock, or whose job is nobody else's.
LEMMA OwnLockHolds ==
  ASSUME TypeOK, NEW j \in Job, NEW e \in Execution, at[j][e] \in Running, lock[j] = e
  PROVE  Holds(j, e)
BY Typing DEF Holds, Running

\* An attempt fails: with the lock of its process the job moves on, without it
\* only the count and the error are written.
LEMMA FailAttemptKeeps ==
  ASSUME IInv, NEW j \in Job, NEW e \in Execution, at[j][e] \in Running, FailAttempt(j, e),
         NEW l \in {"left", "done"}, Move(j, e, l),
         UNCHANGED <<stalls, started, made, result, where, worker, crashes>>
  PROVE  IInv'
<1>0. TypeOK /\ JobInv(j)
  BY DEF IInv
<1>1. /\ at' \in [Job -> [Execution -> Running \cup {"idle", "left", "done", "dead"}]]
      /\ at'[j][e] = l /\ \A f \in Execution \ {e} : at'[j][f] = at[j][f]
      /\ \A q \in Job \ {j} : at'[q] = at[q]
  BY <1>0, MoveTyping
<1>2. failures'[j] = made[j][e] + 1 /\ reason'[j] = TRUE
  BY <1>0 DEF FailAttempt, TypeOK
<1>3. made[j][e] \in Nat /\ made[j][e] + 1 <= started[j] /\ made[j][e] + 1 > 0
  BY <1>0, Typing DEF JobInv, CountOf
<1>4. /\ state' \in [Job -> {"none", "waiting", "delayed", "active", "removed"} \cup Settled]
      /\ lock' \in [Job -> Execution \cup {0}]
      /\ failures' \in [Job -> Nat] /\ reason' \in [Job -> BOOLEAN]
      /\ \A q \in Job \ {j} : /\ state'[q] = state[q] /\ lock'[q] = lock[q]
                              /\ failures'[q] = failures[q] /\ reason'[q] = reason[q]
  <2>1. /\ failures' \in [Job -> Nat] /\ reason' \in [Job -> BOOLEAN]
        /\ \A q \in Job \ {j} : failures'[q] = failures[q] /\ reason'[q] = reason[q]
    BY <1>0, <1>3 DEF FailAttempt, TypeOK
  <2>2. CASE Holds(j, e)
    <3>1. PICK s \in {"delayed"} \cup Settled : state' = [state EXCEPT ![j] = s]
      BY <2>2 DEF FailAttempt, Settled
    <3>2. lock' = [lock EXCEPT ![j] = 0]
      BY <2>2 DEF FailAttempt
    <3> QED
      BY <2>1, <3>1, <3>2, <1>0 DEF TypeOK
  <2>3. CASE ~Holds(j, e)
    BY <2>1, <2>3, <1>0 DEF FailAttempt, TypeOK
  <2> QED
    BY <2>2, <2>3
<1>5. TypeOK'
  BY <1>0, <1>1, <1>4 DEF TypeOK
<1>6. l \notin Running
  BY DEF Running
<1>7. CountOf(j)' /\ (result[j] # 0 => at'[j][result[j]] = "done")
  <2>1. \A f \in Execution : at'[j][f] \in Running => at[j][f] \in Running
    BY <1>1, <1>6
  <2>2. state'[j] \notin {"failed", "removed"} => state[j] \notin {"failed", "removed"}
    <3>1. CASE Holds(j, e)
      BY <3>1, <1>0 DEF Holds, JobInv, LockOf
    <3>2. CASE ~Holds(j, e)
      BY <3>2 DEF FailAttempt
    <3> QED
      BY <3>1, <3>2
  <2>3. result[j] # 0 => at'[j][result[j]] = "done"
    <3>1. result[j] # 0 => result[j] \in Execution \ {e}
      BY <1>0 DEF JobInv, OutcomeOf, TypeOK, Running
    <3> QED
      BY <3>1, <1>0, <1>1 DEF JobInv, OutcomeOf
  <2> QED
    BY <2>1, <2>2, <2>3, <1>0, <1>2, <1>3 DEF JobInv, CountOf
<1>8. LockOf(j)' /\ OutcomeOf(j)' /\ ErrorOf(j)'
  <2>1. CASE Holds(j, e)
    <3>1. /\ state[j] = "active" /\ result[j] = 0 /\ lock'[j] = 0
          /\ state'[j] = IF made[j][e] + 1 < MaxAttempts THEN "delayed" ELSE "failed"
      BY <2>1, <1>0 DEF Holds, JobInv, LockOf, OutcomeOf, FailAttempt, TypeOK
    <3>2. state'[j] \in {"delayed", "failed"} /\ (state'[j] = "failed" => started[j] >= MaxAttempts)
      BY <3>1, <1>0, <1>3, Typing
    <3> QED
      BY <3>1, <3>2, <1>2, <1>3 DEF LockOf, OutcomeOf, ErrorOf
  <2>2. CASE ~Holds(j, e)
    <3>1. UNCHANGED <<state, lock>> /\ lock[j] # e
      BY <2>2, <1>0, OwnLockHolds DEF FailAttempt
    <3>2. lock[j] # 0 => at'[j][lock[j]] = at[j][lock[j]]
      BY <3>1, <1>0, <1>1, Typing
    <3>3. LockOf(j)'
      BY <3>1, <3>2, <1>0 DEF JobInv, LockOf
    <3>4. OutcomeOf(j)' /\ ErrorOf(j)'
      BY <3>1, <1>0, <1>2, <1>3, <1>7 DEF JobInv, OutcomeOf, ErrorOf
    <3> QED
      BY <3>3, <3>4
  <2> QED
    BY <2>1, <2>2
<1>9. ASSUME NEW q \in Job \ {j} PROVE SameJob(q)
  BY <1>1, <1>4 DEF SameJob
<1> QED
  BY <1>5, <1>7, <1>8, <1>9, SameJobKeeps DEF IInv, JobInv

\* A time-out is a failed attempt whose execution runs on.
LEMMA TimeoutKeeps ==
  ASSUME IInv, NEW j \in Job, NEW e \in Execution, Timeout(j, e)
  PROVE  IInv'
BY FailAttemptKeeps DEF Timeout

\* So is a throw, and the execution is done.
LEMMA ThrowKeeps ==
  ASSUME IInv, NEW j \in Job, NEW e \in Execution, Throw(j, e)
  PROVE  IInv'
BY FailAttemptKeeps DEF Throw, Running

\* The end of an execution, with and without the lock.
LEMMA ReturnKeeps ==
  ASSUME IInv, NEW j \in Job, NEW e \in Execution, Return(j, e)
  PROVE  IInv'
<1>0. TypeOK /\ JobInv(j)
  BY DEF IInv
<1>1. CASE ~Holds(j, e)
  BY <1>1, FailAttemptKeeps DEF Return, Running
<1>2. CASE Holds(j, e)
  <2>1. /\ at' \in [Job -> [Execution -> Running \cup {"idle", "left", "done", "dead"}]]
        /\ at'[j][e] = "done" /\ \A f \in Execution \ {e} : at'[j][f] = at[j][f]
        /\ \A q \in Job \ {j} : at'[q] = at[q]
    BY <1>0, MoveTyping DEF Return
  <2>2. /\ state'[j] = "completed" /\ result'[j] = e /\ lock'[j] = 0 /\ e # 0
        /\ state' \in [Job -> {"none", "waiting", "delayed", "active", "removed"} \cup Settled]
        /\ result' \in [Job -> Execution \cup {0}] /\ lock' \in [Job -> Execution \cup {0}]
        /\ UNCHANGED <<failures, reason, stalls, started, made, where, worker, crashes>>
    <3>1. /\ state' = [state EXCEPT ![j] = "completed"] /\ "completed" \in Settled
          /\ result' = [result EXCEPT ![j] = e] /\ lock' = [lock EXCEPT ![j] = 0]
          /\ UNCHANGED <<failures, reason, stalls, started, made, where, worker, crashes>>
      BY <1>2 DEF Return, Settled
    <3> QED
      BY <3>1, <1>0, Typing DEF TypeOK
  <2>3. state[j] = "active"
    BY <1>2, <1>0 DEF Holds, JobInv, LockOf
  <2>4. TypeOK'
    BY <2>1, <2>2, <1>0 DEF TypeOK
  <2>5. \A f \in Execution : at'[j][f] \in Running => at[j][f] \in Running
    BY <2>1 DEF Running
  <2>6. CountOf(j)'
    BY <2>2, <2>3, <2>5, <1>0 DEF JobInv, CountOf
  <2>7. LockOf(j)' /\ OutcomeOf(j)' /\ ErrorOf(j)'
    BY <2>1, <2>2, <2>3, <1>0 DEF JobInv, LockOf, OutcomeOf, ErrorOf
  <2>8. ASSUME NEW q \in Job \ {j} PROVE SameJob(q)
    BY <2>1, <2>2, <1>2, <1>0 DEF Return, TypeOK, SameJob
  <2> QED
    BY <2>4, <2>6, <2>7, <2>8, SameJobKeeps DEF IInv, JobInv
<1> QED
  BY <1>1, <1>2

\* A step of an execution that tells Bull nothing.
Proceeds(j, e) ==
  /\ \/ at[j][e] \in Running /\ \E l \in Running : Move(j, e, l)
     \/ at[j][e] = "left" /\ Move(j, e, "done")
  /\ UNCHANGED <<queueVars, where, worker, crashes>>

\* Steps of the processor before its end, and what comes after a time-out.
LEMMA StepsProceed ==
  ASSUME TypeOK, NEW j \in Job, NEW e \in Execution,
         Begin(j, e) \/ Announce(j, e) \/ Generate(j, e) \/ Finish(j, e) \/ RunOut(j, e)
  PROVE  Proceeds(j, e)
<1>1. CASE Begin(j, e)
  BY <1>1 DEF Begin, Report, Proceeds, Running
<1>2. CASE Announce(j, e)
  BY <1>2 DEF Announce, Report, Proceeds, Running
<1>3. CASE Generate(j, e)
  BY <1>3 DEF Generate, Proceeds, Running
<1>4. CASE Finish(j, e)
  BY <1>4 DEF Finish, Report, Proceeds, Running
<1>5. CASE RunOut(j, e)
  BY <1>5 DEF RunOut, Proceeds
<1> QED
  BY <1>1, <1>2, <1>3, <1>4, <1>5

\* A step of the processor changes nothing the invariant speaks of.
LEMMA ProceedsKeeps ==
  ASSUME IInv, NEW j \in Job, NEW e \in Execution, Proceeds(j, e)
  PROVE  IInv'
<1>0. TypeOK /\ JobInv(j) /\ UNCHANGED <<queueVars, where, worker, crashes>>
  BY DEF IInv, Proceeds
<1>1. PICK l \in Running \cup {"done"} :
        /\ Move(j, e, l)
        /\ (at[j][e] \in Running /\ l \in Running) \/ (at[j][e] = "left" /\ l = "done")
  <2>1. CASE at[j][e] \in Running /\ \E l \in Running : Move(j, e, l)
    <3>1. PICK l \in Running : Move(j, e, l)
      BY <2>1
    <3>2. at[j][e] \in Running /\ l \in Running \cup {"done"}
      BY <2>1
    <3> QED
      BY <3>1, <3>2
  <2>2. CASE at[j][e] = "left" /\ Move(j, e, "done")
    BY <2>2
  <2> QED
    BY <2>1, <2>2 DEF Proceeds
<1>2. /\ at' \in [Job -> [Execution -> Running \cup {"idle", "left", "done", "dead"}]]
      /\ at'[j][e] = l /\ \A f \in Execution \ {e} : at'[j][f] = at[j][f]
      /\ \A q \in Job \ {j} : at'[q] = at[q]
  BY <1>0, <1>1, MoveTyping
<1>3. TypeOK'
  BY <1>0, <1>2 DEF TypeOK, queueVars
<1>4. ASSUME NEW f \in Execution
      PROVE  /\ at[j][f] = "done" => at'[j][f] = "done"
             /\ at[j][f] \in Running => at'[j][f] \in Running
             /\ at[j][f] = "dead" => at'[j][f] = "dead"
             /\ at'[j][f] \in Running => at[j][f] \in Running
             /\ at[j][f] # "dead" => at'[j][f] # "dead"
  BY <1>1, <1>2 DEF Running
<1>5. lock[j] \in Execution \cup {0} /\ result[j] \in Execution \cup {0}
  BY <1>0 DEF TypeOK
<1>6. JobInv(j)'
  BY <1>0, <1>4, <1>5 DEF JobInv, CountOf, LockOf, OutcomeOf, ErrorOf, queueVars
<1>7. ASSUME NEW q \in Job \ {j} PROVE SameJob(q)
  BY <1>0, <1>2 DEF SameJob, queueVars
<1> QED
  BY <1>3, <1>6, <1>7, SameJobKeeps DEF IInv

-----------------------------------------------------------------------------
(* Worker processes.                                                       *)

\* A process that ends kills what runs on it and nothing else.
LEMMA KillTyping ==
  ASSUME TypeOK, NEW w \in WorkerProc, KillExecutions(w)
  PROVE  /\ at' \in [Job -> [Execution -> Running \cup {"idle", "left", "done", "dead"}]]
         /\ \A j \in Job, e \in Execution :
              /\ at[j][e] = "done" => at'[j][e] = "done"
              /\ at[j][e] \in Running \cup {"dead"} => at'[j][e] \in Running \cup {"dead"}
              /\ at'[j][e] \in Running => at[j][e] \in Running
              /\ at[j][e] # "dead" /\ where[j][e] # w => at'[j][e] # "dead"
BY DEF TypeOK, KillExecutions, Running

\* A process that leaves after its jobs are done leaves no lock behind.
LEMMA ExitKeeps ==
  ASSUME IInv, NEW w \in WorkerProc, Exit(w)
  PROVE  IInv'
<1>0. TypeOK /\ KillExecutions(w) /\ UNCHANGED <<queueVars, where, crashes>> /\ Busy(w) = {}
  BY DEF IInv, Exit
<1>1. TypeOK'
  BY <1>0, KillTyping DEF Exit, TypeOK, queueVars
<1>2. ASSUME NEW j \in Job PROVE JobInv(j)'
  <2>1. JobInv(j) /\ lock[j] \in Execution \cup {0} /\ result[j] \in Execution \cup {0}
    BY <1>0 DEF IInv, TypeOK
  <2>2. crashes = 0 /\ lock[j] # 0 => where[j][lock[j]] # w
    <3>1. SUFFICES ASSUME crashes = 0, lock[j] # 0, where[j][lock[j]] = w PROVE FALSE
      OBVIOUS
    <3>2. at[j][lock[j]] \in Running /\ lock[j] \in Execution
      BY <3>1, <2>1 DEF JobInv, LockOf
    <3>3. <<j, lock[j]>> \in Busy(w)
      BY <3>1, <3>2 DEF Busy
    <3> QED
      BY <3>3, <1>0
  <2>3. /\ result[j] # 0 => at'[j][result[j]] = "done"
        /\ lock[j] # 0 => at'[j][lock[j]] \in Running \cup {"dead"}
        /\ crashes = 0 /\ lock[j] # 0 => at'[j][lock[j]] # "dead"
        /\ \A e \in Execution : at'[j][e] \in Running => at[j][e] \in Running
    BY <1>0, <2>1, <2>2, KillTyping DEF JobInv, LockOf, OutcomeOf
  <2> QED
    BY <1>0, <2>1, <2>3 DEF JobInv, CountOf, LockOf, OutcomeOf, ErrorOf, queueVars
<1> QED
  BY <1>1, <1>2 DEF IInv

\* A crash may leave a lock to a dead execution.
LEMMA CrashKeeps ==
  ASSUME IInv, NEW w \in WorkerProc, Crash(w)
  PROVE  IInv'
<1> USE MaxCrashesAssumption
<1>0. TypeOK /\ KillExecutions(w) /\ UNCHANGED <<queueVars, where>> /\ crashes' = crashes + 1
      /\ crashes < MaxCrashes
  BY DEF IInv, Crash
<1>1. TypeOK' /\ crashes' # 0
  BY <1>0, KillTyping DEF Crash, TypeOK, queueVars
<1>2. ASSUME NEW j \in Job PROVE JobInv(j)'
  <2>1. JobInv(j) /\ lock[j] \in Execution \cup {0} /\ result[j] \in Execution \cup {0}
    BY <1>0 DEF IInv, TypeOK
  <2>2. /\ result[j] # 0 => at'[j][result[j]] = "done"
        /\ lock[j] # 0 => at'[j][lock[j]] \in Running \cup {"dead"}
        /\ \A e \in Execution : at'[j][e] \in Running => at[j][e] \in Running
    BY <1>0, <2>1, KillTyping DEF JobInv, LockOf, OutcomeOf
  <2> QED
    BY <1>0, <1>1, <2>1, <2>2 DEF JobInv, CountOf, LockOf, OutcomeOf, ErrorOf, queueVars
<1> QED
  BY <1>1, <1>2 DEF IInv

\* A process that begins to close or starts.
LEMMA CloseOrStartKeeps ==
  ASSUME IInv, NEW w \in WorkerProc, Close(w) \/ Start(w)
  PROVE  IInv'
<1>0. UNCHANGED <<queueVars, at, where, crashes>>
  BY DEF Close, Start
<1>1. TypeOK'
  BY <1>0 DEF IInv, Close, Start, TypeOK, queueVars
<1>2. ASSUME NEW j \in Job PROVE JobInv(j)'
  BY <1>0 DEF IInv, JobInv, CountOf, LockOf, OutcomeOf, ErrorOf, queueVars
<1> QED
  BY <1>1, <1>2 DEF IInv

-----------------------------------------------------------------------------
\* Every step keeps the invariant.
LEMMA NextKeeps == IInv /\ [Next]_vars => IInv'
<1> SUFFICES ASSUME IInv, [Next]_vars PROVE IInv'
  OBVIOUS
<1>1. ASSUME NEW j \in Job, JobStep(j) PROVE IInv'
  <2>1. ASSUME NEW e \in Execution, Timeout(j, e) \/ ExecutionStep(j, e) PROVE IInv'
    BY <2>1, StepsProceed, ProceedsKeeps, ReturnKeeps, ThrowKeeps, TimeoutKeeps
    DEF ExecutionStep, IInv
  <2>2. ASSUME NEW w \in WorkerProc, TakeJob(j, w) PROVE IInv'
    BY <2>2, TakeJobKeeps
  <2> QED
    BY <1>1, <2>1, <2>2, CreateJobKeeps, CancelJobKeeps, BackoffOverKeeps, StalledKeeps
    DEF JobStep
<1>2. ASSUME NEW w \in WorkerProc, WorkerStep(w) PROVE IInv'
  BY <1>2, CloseOrStartKeeps, ExitKeeps, CrashKeeps DEF WorkerStep
<1>3. CASE UNCHANGED vars
  <2>1. TypeOK'
    BY <1>3 DEF IInv, TypeOK, vars, queueVars
  <2>2. ASSUME NEW j \in Job PROVE JobInv(j)'
    BY <1>3 DEF IInv, JobInv, CountOf, LockOf, OutcomeOf, ErrorOf, vars, queueVars
  <2> QED
    BY <2>1, <2>2 DEF IInv
<1> QED
  BY <1>1, <1>2, <1>3 DEF Next

\* The inductive invariant holds: in particular an execution never counts more
\* attempts than there were executions, so no job is given up before
\* bullQueue.defaultJobAttempts of them.
THEOREM JobInvariant == Spec => []IInv
BY InitIInv, NextKeeps, PTL DEF Spec

\* The queue's keys of a job never contradict each other, whatever executions
\* without the lock, stalls, crashes and restarts do: processCardGenerationJob
\* and the worker process under Bull's lock, and the two keys Bull writes
\* without it.
THEOREM JobKeysAgree == Spec => []KeysAgree
BY JobInvariant, IInvImpliesKeysAgree, PTL

-----------------------------------------------------------------------------
(* A settled job.                                                          *)

\* A settled job has no lock, and what moves a job's state or result needs the
\* lock, or a job that waits.
LEMMA SettledStays ==
  ASSUME IInv, NEW j \in Job, state[j] \in Settled, [Next]_vars
  PROVE  (state'[j] = state[j] /\ result'[j] = result[j]) \/ state'[j] = "removed"
<1> DEFINE Stays == state'[j] = state[j] /\ result'[j] = result[j]
<1>0. TypeOK /\ LockOf(j)
  BY DEF IInv, JobInv
<1>1. lock[j] = 0 /\ state[j] \in {"completed", "failed"}
  BY <1>0 DEF LockOf, Settled
<1>2. ASSUME NEW q \in Job, JobStep(q) PROVE Stays \/ state'[j] = "removed"
  <2> USE <1>0, <1>1 DEF TypeOK
  <2>1. CASE CreateJob(q)
    BY <2>1 DEF CreateJob
  <2>2. CASE CancelJob(q)
    BY <2>2 DEF CancelJob
  <2>3. CASE BackoffOver(q)
    BY <2>3 DEF BackoffOver
  <2>4. CASE Stalled(q)
    BY <2>4 DEF Stalled
  <2>5. ASSUME NEW w \in WorkerProc, TakeJob(q, w) PROVE Stays
    BY <2>5 DEF TakeJob
  <2>6. ASSUME NEW e \in Execution, FailAttempt(q, e), UNCHANGED result PROVE Stays
    BY <2>6 DEF FailAttempt, Holds
  <2>7. ASSUME NEW e \in Execution, Timeout(q, e) \/ ExecutionStep(q, e) PROVE Stays
    <3>1. CASE Return(q, e)
      BY <3>1, <2>6 DEF Return, Holds
    <3>2. CASE Throw(q, e) \/ Timeout(q, e)
      BY <3>2, <2>6 DEF Throw, Timeout
    <3>3. CASE Begin(q, e) \/ Announce(q, e) \/ Generate(q, e) \/ Finish(q, e) \/ RunOut(q, e)
      BY <3>3, StepsProceed DEF Proceeds, queueVars
    <3> QED
      BY <2>7, <3>1, <3>2, <3>3 DEF ExecutionStep
  <2> QED
    BY <1>2, <2>1, <2>2, <2>3, <2>4, <2>5, <2>7 DEF JobStep
<1>3. ASSUME NEW w \in WorkerProc, WorkerStep(w) PROVE Stays
  BY <1>3 DEF WorkerStep, Close, Exit, Crash, Start, queueVars
<1>4. CASE UNCHANGED vars
  BY <1>4 DEF vars, queueVars
<1> QED
  BY <1>2, <1>3, <1>4 DEF Next

\* What a completed or failed job tells its owner does not change: an execution
\* that lost its lock to a timeout or a stall cannot complete or fail it anew.
THEOREM SettledJobsStaySettled == Spec => SettledIsFinal
<1>1. IInv /\ [Next]_vars => [\A j \in Job : state[j] \in Settled =>
        \/ state'[j] = state[j] /\ result'[j] = result[j]
        \/ state'[j] = "removed"]_vars
  BY SettledStays
<1> QED
  BY <1>1, JobInvariant, PTL DEF Spec, SettledIsFinal
=============================================================================
