--------------------------- MODULE ExportWorkflow ----------------------------
(***************************************************************************)
(* executeFullWorkflow: cards are generated and exported, the file is sent *)
(* to doremon-ai, which processes it while the workflow asks every few     *)
(* seconds how far it is, and the result is fetched. Every request is      *)
(* tried several times, with longer and longer pauses. Time is counted     *)
(* from where each wait began, so there is no end of it.                   *)
(***************************************************************************)
EXTENDS Integers, Sequences, FiniteSets

CONSTANTS
  Workflow,
  RetryAttempts, \* 3
  Timeout,       \* of a request, 30 seconds
  Interval,      \* between two questions, 5 seconds
  MaxWaitTime,   \* 1 hour
  KeepFor,       \* how long the progress of an ended workflow can be asked for, 1 hour
  None

VARIABLES
  workflows, \* how far each is
  processes  \* doremon-ai's, in the order they were begun: a sequence of their owners
             \* and states

workflowVars == <<workflows, processes>>

Process == 1..(RetryAttempts * Cardinality(Workflow))
Calling == {"uploading", "asking", "downloading"}
Over == {"completed", "failed"}
Stages == {"new", "generating", "exporting", "pausing", "forgotten"} \cup Calling \cup Over

Pow2 == [n \in 0..RetryAttempts |-> IF n = 0 THEN 1 ELSE 2 * n] \* 1s, 2s, 4s: the first attempts

\* Everything is of its kind: then is the call a workflow makes after a pause,
\* for how much longer it pauses, and waited the time since the first question.
TypeOK ==
  /\ \A w \in Workflow :
       /\ workflows[w].stage \in Stages /\ workflows[w].then \in Calling
       /\ workflows[w].attempt \in 0..(RetryAttempts - 1)
       /\ workflows[w].time \in Nat /\ workflows[w].waited \in 0..(MaxWaitTime + 1)
       /\ workflows[w].process \in Process \cup {None}
  /\ \A p \in DOMAIN processes : processes[p].of \in Workflow
                              /\ processes[p].status \in {"running", "completed", "failed"}

Init ==
  /\ workflows = [w \in Workflow |->
       [stage |-> "new", then |-> "uploading", attempt |-> 0, time |-> 0, waited |-> 0, process |-> None]]
  /\ processes = <<>>

-----------------------------------------------------------------------------
Set(w, fields) ==
  workflows' = [workflows EXCEPT ![w] =
    [f \in DOMAIN @ |-> IF f \in DOMAIN fields THEN fields[f] ELSE @[f]]]

\* A request is sent; a pause of so long comes first.
Pause(w, call, long) == Set(w, [stage |-> "pausing", then |-> call, time |-> long, attempt |-> 0])
Fail(w) == Set(w, [stage |-> "failed", time |-> KeepFor])

Start(w) ==
  /\ workflows[w].stage = "new"
  /\ Set(w, [stage |-> "generating"])
  /\ UNCHANGED processes

\* Cards are generated from the BIN, and exported; either may throw.
Prepare(w) ==
  /\ \/ /\ workflows[w].stage = "generating"
        /\ Set(w, [stage |-> "exporting"])
     \/ /\ workflows[w].stage = "exporting"
        /\ Pause(w, "uploading", 0)
     \/ /\ workflows[w].stage \in {"generating", "exporting"}
        /\ Fail(w)
  /\ UNCHANGED processes

\* The pause is over and the request goes out.
Call(w) ==
  /\ workflows[w].stage = "pausing" /\ workflows[w].time = 0
  /\ Set(w, [stage |-> workflows[w].then, time |-> Timeout])
  /\ UNCHANGED processes

\* Mutant of Retry: the attempts are not counted.
RetryUncounted(w) ==
  Set(w, [stage |-> "pausing", then |-> workflows[w].stage, time |-> Pow2[workflows[w].attempt]])

\* retryWithBackoff: the next attempt after a pause, or none is left.
Retry(w) ==
  IF workflows[w].attempt < RetryAttempts - 1
  THEN Set(w, [stage |-> "pausing", then |-> workflows[w].stage,
               time |-> Pow2[workflows[w].attempt], attempt |-> workflows[w].attempt + 1])
  ELSE Fail(w)

\* The request fails or its time is up. An upload whose answer is lost has begun
\* a process all the same.
CallFails(w) ==
  /\ workflows[w].stage \in Calling
  /\ Retry(w)
  /\ \/ UNCHANGED processes
     \/ /\ workflows[w].stage = "uploading"
        /\ processes' = Append(processes, [of |-> w, status |-> "running"])

\* uploadExcelToDoremon answers; maxWaitTime is counted from now.
Uploaded(w) ==
  /\ workflows[w].stage = "uploading"
  /\ processes' = Append(processes, [of |-> w, status |-> "running"])
  /\ Set(w, [stage |-> "pausing", then |-> "asking", time |-> Interval, attempt |-> 0,
             process |-> Len(processes) + 1, waited |-> 0])

\* getProcessingStatus answers. The time limit is looked at before the status is
\* found to be completed: an answer that comes too late fails the workflow.
StatusAnswered(w) ==
  /\ workflows[w].stage = "asking"
  /\ LET status == processes[workflows[w].process].status
     IN  IF status = "failed" \/ workflows[w].waited > MaxWaitTime THEN Fail(w)
         ELSE IF status = "completed" THEN Pause(w, "downloading", 0)
         ELSE Pause(w, "asking", Interval)
  /\ UNCHANGED processes

\* downloadProcessedExcel answers.
Downloaded(w) ==
  /\ workflows[w].stage = "downloading"
  /\ Set(w, [stage |-> "completed", time |-> KeepFor])
  /\ UNCHANGED processes

\* The progress of a workflow that has ended is deleted by a timer.
Forget(w) ==
  /\ workflows[w].stage \in Over /\ workflows[w].time = 0
  /\ Set(w, [stage |-> "forgotten"])
  /\ UNCHANGED processes

\* doremon-ai ends a process, when it likes or never.
ProcessEnds(p) ==
  /\ p \in DOMAIN processes /\ processes[p].status = "running"
  /\ \E status \in {"completed", "failed"} : processes' = [processes EXCEPT ![p].status = status]
  /\ UNCHANGED workflows

\* Time passes: no request lasts longer than its timeout and no timer is late.
Tick ==
  /\ \A w \in Workflow :
       workflows[w].stage \in Calling \cup Over \cup {"pausing"} => workflows[w].time > 0
  /\ \A w \in Workflow : workflows[w].stage \notin {"generating", "exporting"}
  /\ workflows' = [w \in Workflow |->
       [workflows[w] EXCEPT
          !.time = IF @ > 0 THEN @ - 1 ELSE 0,
          !.waited = IF workflows[w].process # None /\ @ <= MaxWaitTime THEN @ + 1 ELSE @]]
  /\ UNCHANGED processes

Step(w) ==
  \/ Prepare(w)
  \/ Call(w)
  \/ CallFails(w)
  \/ Uploaded(w)
  \/ StatusAnswered(w)
  \/ Downloaded(w)
  \/ Forget(w)

Next ==
  \/ \E w \in Workflow : Start(w)
  \/ \E w \in Workflow : Step(w)
  \/ \E p \in Process : ProcessEnds(p)
  \/ Tick

\* What happens by itself: requests are answered or time out, pauses end.
Proceeds ==
  \/ \E w \in Workflow : Step(w)
  \/ Tick

-----------------------------------------------------------------------------
(* Properties *)

\* Every workflow ends, whatever requests fail, are answered late or lost, and
\* though doremon-ai never finishes: at the latest once its time limit is over.
EveryWorkflowEnds ==
  \A w \in Workflow : workflows[w].stage = "generating" ~> workflows[w].stage \in Over

=============================================================================
