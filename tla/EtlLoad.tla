------------------------------ MODULE EtlLoad ------------------------------
(***************************************************************************)
(* The bins table and the scripts that change it: loadRecords of           *)
(* scripts/etl/load.ts, which upserts the merged records one by one, and   *)
(* scripts/etl/rollback-version.ts, which deletes what a run stamped.      *)
(*                                                                         *)
(* What a row says is the set of versions its fields come from: an upsert  *)
(* takes every field the record has and keeps the row's own for the rest.  *)
(***************************************************************************)
EXTENDS Naturals, FiniteSets

CONSTANTS
  Bin,
  Load,       \* runs of loadRecords
  VersionOf,  \* VersionOf[l]: the hash of the records of run l
  Records,    \* Records[l]: the BINs of the merged records of run l
  Partial,    \* Partial[l]: those whose record leaves fields empty
  Invalid,    \* Invalid[l]: those validateRecord rejects
  Original,   \* BINs in the table before the first run
  Faults,     \* subset of {"db", "etl", "redis", "restart"}
  Nobody

ASSUME RecordsAssumption ==
  /\ Records \in [Load -> SUBSET Bin]
  /\ Partial \in [Load -> SUBSET Bin]
  /\ Invalid \in [Load -> SUBSET Bin]
ASSUME OriginalAssumption == Original \subseteq Bin

\* The same records have the same hash, whichever run loads them.
ASSUME VersionAssumption ==
  \A l, m \in Load :
    VersionOf[l] = VersionOf[m] =>
      Records[l] = Records[m] /\ Partial[l] = Partial[m] /\ Invalid[l] = Invalid[m]

\* No run loads the version of the rows that were there before.
ASSUME NobodyAssumption == \A l \in Load : VersionOf[l] # Nobody

VARIABLES
  rows,     \* rows[b]: the versions the row's fields come from; {} is no row
  stamp,    \* source_version of the row
  run,      \* etl_runs: the status of each run
  todo,     \* the records a run has still to upsert
  failed,   \* failed[l]: the records counted as failed
  loader,   \* where loadRecords is
  undo,     \* where the rollback of run l is
  undone    \* runs rolled back after their load was over (history)

etlVars == <<rows, stamp, run, todo, failed, loader, undo, undone>>

Version == {VersionOf[l] : l \in Load} \cup {Nobody}

EtlTypeOK ==
  /\ rows \in [Bin -> SUBSET Version]
  /\ stamp \in [Bin -> Version]
  /\ run \in [Load -> {"none", "running", "completed", "failed", "rolled_back"}]
  /\ todo \in [Load -> SUBSET Bin]
  /\ failed \in [Load -> SUBSET Bin]
  /\ loader \in [Load -> {"idle", "loading", "ended"}]
  /\ undo \in [Load -> {"idle", "delete", "deleteRun", "mark", "ended"}]
  /\ undone \subseteq Load

EtlInit ==
  /\ rows = [b \in Bin |-> IF b \in Original THEN {Nobody} ELSE {}]
  /\ stamp = [b \in Bin |-> Nobody]
  /\ run = [l \in Load |-> "none"]
  /\ todo = Records
  /\ failed = [l \in Load |-> {}]
  /\ loader = [l \in Load |-> "idle"]
  /\ undo = [l \in Load |-> "idle"]
  /\ undone = {}

-----------------------------------------------------------------------------
(* loadRecords.                                                            *)

\* createETLRun; when it fails the script ends before it loaded anything.
StartLoad(l) ==
  /\ loader[l] = "idle"
  /\ \/ /\ run' = [run EXCEPT ![l] = "running"]
        /\ loader' = [loader EXCEPT ![l] = "loading"]
     \/ /\ "etl" \in Faults
        /\ loader' = [loader EXCEPT ![l] = "ended"]
        /\ UNCHANGED run
  /\ UNCHANGED <<rows, stamp, todo, failed, undo, undone>>

\* INSERT ... ON CONFLICT (bin) DO UPDATE, with COALESCE for the empty fields.
UpsertRecord(l, b) ==
  /\ rows' = [rows EXCEPT ![b] = IF b \in Partial[l] THEN @ \cup {VersionOf[l]} ELSE {VersionOf[l]}]
  /\ stamp' = [stamp EXCEPT ![b] = VersionOf[l]]

\* One record of the loop.  A rejected record and a failing query are counted
\* and the loop goes on; the row may have been written before the failure.
LoadRecord(l, b) ==
  /\ loader[l] = "loading"
  /\ b \in todo[l]
  /\ todo' = [todo EXCEPT ![l] = @ \ {b}]
  /\ \/ /\ b \notin Invalid[l]
        /\ UpsertRecord(l, b)
        /\ UNCHANGED failed
     \/ /\ b \in Invalid[l] \/ "etl" \in Faults
        /\ failed' = [failed EXCEPT ![l] = @ \cup {b}]
        /\ (b \notin Invalid[l] /\ UpsertRecord(l, b)) \/ UNCHANGED <<rows, stamp>>
  /\ UNCHANGED <<run, loader, undo, undone>>

\* Mutant of FinishLoad: the last batch is left out.
FinishLoadEarly(l) ==
  /\ loader[l] = "loading"
  /\ loader' = [loader EXCEPT ![l] = "ended"]
  /\ run' = [run EXCEPT ![l] = "completed"]
  /\ UNCHANGED <<rows, stamp, todo, failed, undo, undone>>

\* updateETLRun.  When it throws, the catch block tries to mark the run failed.
FinishLoad(l) ==
  /\ loader[l] = "loading"
  /\ todo[l] = {}
  /\ loader' = [loader EXCEPT ![l] = "ended"]
  /\ \/ run' = [run EXCEPT ![l] = "completed"]
     \/ /\ "etl" \in Faults
        /\ run' = [run EXCEPT ![l] = "failed"] \/ UNCHANGED run
  /\ UNCHANGED <<rows, stamp, todo, failed, undo, undone>>

-----------------------------------------------------------------------------
(* rollback-version.ts.  Any query that throws ends the script.            *)

\* --run-id needs the run's row, where resolveVersionFromRun finds the version;
\* --version goes by the version alone.
StartRollback(l) ==
  /\ undo[l] = "idle"
  /\ run[l] # "none"
  /\ \E how \in {"delete", "deleteRun"} : undo' = [undo EXCEPT ![l] = how]
  /\ UNCHANGED <<rows, stamp, run, todo, failed, loader, undone>>

AbortRollback(l) ==
  /\ "etl" \in Faults
  /\ undo[l] \in {"delete", "deleteRun", "mark"}
  /\ undo' = [undo EXCEPT ![l] = "ended"]
  /\ UNCHANGED <<rows, stamp, run, todo, failed, loader, undone>>

Stamped(l) == {b \in Bin : rows[b] # {} /\ stamp[b] = VersionOf[l]}

DeleteVersion(l) ==
  /\ undo[l] \in {"delete", "deleteRun"}
  /\ rows' = [b \in Bin |-> IF b \in Stamped(l) THEN {} ELSE rows[b]]
  /\ undo' = [undo EXCEPT ![l] = IF @ = "deleteRun" THEN "mark" ELSE "ended"]
  /\ undone' = IF loader[l] = "ended" THEN undone \cup {l} ELSE undone
  /\ UNCHANGED <<stamp, run, todo, failed, loader>>

MarkRolledBack(l) ==
  /\ undo[l] = "mark"
  /\ run' = [run EXCEPT ![l] = "rolled_back"]
  /\ undo' = [undo EXCEPT ![l] = "ended"]
  /\ UNCHANGED <<rows, stamp, todo, failed, loader, undone>>

-----------------------------------------------------------------------------
LoadStep(l) ==
  StartLoad(l) \/ FinishLoad(l) \/ \E b \in Bin : LoadRecord(l, b)

RollbackStep(l) ==
  StartRollback(l) \/ AbortRollback(l) \/ DeleteVersion(l) \/ MarkRolledBack(l)

EtlNext == \E l \in Load : LoadStep(l) \/ RollbackStep(l)

-----------------------------------------------------------------------------
\* A completed run has every record it does not report as failed in the table,
\* unless a rollback has deleted it.
LoadedIsThere ==
  \A l \in Load :
    run[l] = "completed" =>
      \A b \in Records[l] \ failed[l] :
        rows[b] = {} => \E m \in Load : b \in Records[m] /\ undo[m] \in {"mark", "ended"}

\* What a run stamped is gone once it is rolled back after its load was over,
\* except what another run of the very same records writes.
RolledBackIsGone ==
  \A l \in undone : \A b \in Stamped(l) :
    \E m \in Load \ {l} : VersionOf[m] = VersionOf[l] /\ b \in Records[m] \ todo[m]

\* What the load runs and the rollbacks leave is what they report: a run's
\* records are there until they are rolled back, and are gone then.
TableFollowsRuns == LoadedIsThere /\ RolledBackIsGone
=============================================================================
