----------------------------- MODULE ReviewQueue -----------------------------
(***************************************************************************)
(* manualReviewQueue and its routes for administrators: conflicts that no  *)
(* source settles are listed, assigned, resolved or dismissed, and settled *)
(* ones are cleared after a while. No operation asks for the status of the *)
(* item it changes, and assigning leaves the time it was settled before.   *)
(***************************************************************************)
EXTENDS Integers, Sequences

CONSTANTS
  Conflicts, \* [critical, confidence, resolution]: the confidence out of 10
  Values,    \* what a reviewer may decide, None for no value
  DaysOld,
  MaxItems, MaxTime, \* bounds of the model
  None

VARIABLES
  now,
  resolutions, \* the conflict resolutions the merge made, which the queue shares
  queue        \* the items by id, an item that was cleared is None

queueVars == <<now, resolutions, queue>>

Settled == {"resolved", "dismissed"}
Items == {i \in DOMAIN queue : queue[i] # None}

\* Everything is of its kind.
TypeOK ==
  /\ now \in 0..MaxTime
  /\ DOMAIN resolutions = DOMAIN queue /\ Len(queue) <= MaxItems
  /\ \A i \in Items :
       /\ queue[i].status \in {"pending", "in-progress"} \cup Settled
       /\ queue[i].priority \in {"low", "medium", "high", "critical"}
       /\ queue[i].createdAt \in 0..now /\ queue[i].resolvedAt \in (0..now) \cup {None}
       /\ queue[i].status \in Settled => queue[i].resolvedAt # None

Init == now = 0 /\ resolutions = <<>> /\ queue = <<>>

calculatePriority(conflict) ==
  IF conflict.confidence < 5 THEN IF conflict.critical THEN "critical" ELSE "high"
  ELSE IF conflict.confidence < 6 THEN "medium" ELSE "low"

AddToQueue(conflict) ==
  /\ Len(queue) < MaxItems
  /\ resolutions' = Append(resolutions, [value |-> conflict.value, confidence |-> conflict.confidence])
  /\ queue' = Append(queue, [status |-> "pending", priority |-> calculatePriority(conflict),
                             createdAt |-> now, resolvedAt |-> None])
  /\ UNCHANGED now

\* assignConflict
AssignItem(i) ==
  /\ queue' = [queue EXCEPT ![i].status = "in-progress"]
  /\ UNCHANGED <<now, resolutions>>

\* resolveConflict: a value decided by hand is certain.
ResolveItem(i, value) ==
  /\ queue' = [queue EXCEPT ![i].status = "resolved", ![i].resolvedAt = now]
  /\ resolutions' = IF value = None THEN resolutions
                    ELSE [resolutions EXCEPT ![i] = [value |-> value, confidence |-> 10]]
  /\ UNCHANGED now

\* dismissConflict
DismissItem(i) ==
  /\ queue' = [queue EXCEPT ![i].status = "dismissed", ![i].resolvedAt = now]
  /\ UNCHANGED <<now, resolutions>>

\* Mutant of Old: the time it was settled is all that counts.
OldByTime(i) == queue[i].resolvedAt # None /\ queue[i].resolvedAt < now - DaysOld

Old(i) ==
  /\ queue[i].status \in Settled
  /\ queue[i].resolvedAt # None /\ queue[i].resolvedAt < now - DaysOld

ClearOldResolvedItems ==
  /\ queue' = [i \in DOMAIN queue |-> IF i \in Items /\ Old(i) THEN None ELSE queue[i]]
  /\ UNCHANGED <<now, resolutions>>

Tick ==
  /\ now < MaxTime
  /\ now' = now + 1
  /\ UNCHANGED <<resolutions, queue>>

Next ==
  \/ \E c \in Conflicts : AddToQueue(c)
  \/ \E i \in Items :
       \/ AssignItem(i)
       \/ \E v \in Values \cup {None} : ResolveItem(i, v)
       \/ DismissItem(i)
  \/ ClearOldResolvedItems
  \/ Tick

-----------------------------------------------------------------------------
(* Properties *)

\* Nothing anyone still has to decide is cleared, an item that is taken up again
\* long after it had been settled included.
OpenIsKept ==
  [][\A i \in Items : queue[i].status \notin Settled =>
       queue'[i] # None /\ queue'[i].createdAt = queue[i].createdAt]_queueVars

=============================================================================
