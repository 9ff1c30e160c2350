----------------------------- MODULE MachineState -----------------------------
(***************************************************************************)
(* collect_machine_state and what the backup makes of it: inventories are  *)
(* refreshed one by one, a failure leaves the last one in place, and what  *)
(* failed is protected from the prune at the end of the same run.          *)
(***************************************************************************)
EXTENDS Naturals

CONSTANTS
  Collectors,  \* MACHINE_STATE_COLLECTORS
  Snapshot,    \* the name of the file that describes a refresh
  RunMax,      \* bound: runs
  FaultMax,    \* bound: things that go wrong
  LossMax      \* bound: outputs deleted by the owner

Names == Collectors \cup {Snapshot}
Statuses == {"none", "succeeded", "partial", "failed"}

ASSUME SnapshotAssumption == Snapshot \notin Collectors
ASSUME BoundsAssumption == {RunMax, FaultMax, LossMax} \subseteq Nat

VARIABLES
  run,        \* the number of this run
  enabled,    \* the collectors its configuration selects
  pc,         \* "off", "directory", "reconcile", "wrapper", "collect",
              \* "snapshot", "protect", "upload", "prune" or "done"
  todo,       \* the selected collectors yet to be run
  outcomes,   \* the outcome of each name, "none" if there is none
  reconciled, \* the deselected collectors' outputs were removed ...
  warnings,   \* ... but for these
  protected,  \* _prune_protected_paths
  out,        \* the run that wrote each local output, 0 if it is not there
  meta,       \* the outcomes that snapshot.json records
  drive,      \* the run whose output Drive has, 0 if it has none; this is
              \* what the manifest has entries for
  left        \* what is left of the bounds

local == <<out, meta>>
sweep == <<reconciled, warnings>>
vars == <<run, enabled, pc, todo, outcomes, sweep, protected, local, drive, left>>

NoOutcomes == [n \in Names |-> "none"]
Spend(bound) == left[bound] > 0 /\ left' = [left EXCEPT ![bound] = @ - 1]

Init ==
  /\ run = 0 /\ enabled = {} /\ pc = "off" /\ todo = {}
  /\ outcomes = NoOutcomes /\ protected = {}
  /\ reconciled = FALSE /\ warnings = {}
  /\ out = [n \in Names |-> 0] /\ meta = NoOutcomes
  /\ drive = [n \in Names |-> 0]
  /\ left = [run |-> RunMax, fault |-> FaultMax, loss |-> LossMax]

(* A run starts, with a configuration that may have changed and perhaps    *)
(* with --skip-machine-state.                                              *)
StartRun ==
  /\ pc \in {"off", "done"} /\ Spend("run")
  /\ run' = run + 1
  /\ enabled' \in SUBSET Collectors
  /\ pc' \in {"directory", "protect"}
  /\ todo' = {} /\ outcomes' = NoOutcomes /\ protected' = {}
  /\ reconciled' = FALSE /\ warnings' = {}
  /\ UNCHANGED <<local, drive>>

\* Without its directory the refresh ends, with a single outcome.
MakeDirectory ==
  /\ pc = "directory"
  /\ \/ /\ pc' = "reconcile"
        /\ UNCHANGED <<outcomes, left>>
     \/ /\ Spend("fault")
        /\ pc' = "protect"
        /\ outcomes' = [outcomes EXCEPT ![Snapshot] = "failed"]
  /\ UNCHANGED <<run, enabled, todo, sweep, protected, local, drive>>

\* Mutant: only outputs of collectors that failed before are removed.
SweptFailed(c) == outcomes[c] = "failed"
Swept(c) == c \notin enabled

(* The outputs of collectors that are not selected are removed; one that   *)
(* cannot be is a warning.                                                 *)
Reconcile ==
  /\ pc = "reconcile"
  /\ \/ warnings' = {} /\ UNCHANGED left
     \/ /\ Spend("fault")
        /\ \E c \in Collectors : Swept(c) /\ out[c] # 0 /\ warnings' = {c}
  /\ out' = [n \in Names |-> IF n \in Collectors \ warnings' /\ Swept(n) THEN 0
                                                                        ELSE out[n]]
  /\ reconciled' = TRUE
  /\ todo' = enabled
  /\ pc' = IF enabled = {} THEN "snapshot" ELSE "wrapper"
  /\ UNCHANGED <<run, enabled, outcomes, protected, meta, drive>>

\* Mutant: the failure is put down for all collectors there are.
MakeWrapperFailAll ==
  /\ pc = "wrapper"
  /\ \/ /\ pc' = "collect"
        /\ UNCHANGED <<todo, outcomes, left>>
     \/ /\ Spend("fault")
        /\ pc' = "snapshot" /\ todo' = {}
        /\ outcomes' = [n \in Names |-> IF n \in Collectors THEN "failed" ELSE "none"]
  /\ UNCHANGED <<run, enabled, sweep, protected, local, drive>>
\* Without the command wrapper every collector fails.
MakeWrapper ==
  /\ pc = "wrapper"
  /\ \/ /\ pc' = "collect"
        /\ UNCHANGED <<todo, outcomes, left>>
     \/ /\ Spend("fault")
        /\ pc' = "snapshot" /\ todo' = {}
        /\ outcomes' = [n \in Names |-> IF n \in enabled THEN "failed" ELSE "none"]
  /\ UNCHANGED <<run, enabled, sweep, protected, local, drive>>

\* Mutant: what a failed collector returned is written all the same.
WrittenAlways(status) == TRUE
Written(status) == status # "failed"

(* The next collector, in the order the configuration happens to list      *)
(* them: all its probes succeed, some do, or none does; an exception or an *)
(* output that cannot be replaced is a failure too.                        *)
Collect ==
  /\ pc = "collect"
  /\ \E c \in todo, status \in Statuses \ {"none"} :
       /\ outcomes' = [outcomes EXCEPT ![c] = status]
       /\ out' = [out EXCEPT ![c] = IF Written(status) THEN run ELSE @]
       /\ todo' = todo \ {c}
  /\ pc' = IF todo' = {} THEN "snapshot" ELSE "collect"
  /\ UNCHANGED <<run, enabled, sweep, protected, meta, drive, left>>

WriteSnapshot ==
  /\ pc = "snapshot"
  /\ \/ /\ out' = [out EXCEPT ![Snapshot] = run]
        /\ meta' = outcomes
        /\ UNCHANGED <<outcomes, left>>
     \/ /\ Spend("fault")
        /\ outcomes' = [outcomes EXCEPT ![Snapshot] = "failed"]
        /\ UNCHANGED local
  /\ pc' = "protect"
  /\ UNCHANGED <<run, enabled, todo, sweep, protected, drive>>

\* An exception nobody expected: the engine counts all of it as failed.
Escape ==
  /\ pc \in {"directory", "reconcile", "wrapper", "collect", "snapshot"}
  /\ Spend("fault")
  /\ outcomes' = [n \in Names |-> IF n \in enabled \cup {Snapshot} THEN "failed"
                                                                  ELSE "none"]
  /\ todo' = {}
  /\ pc' = "protect"
  /\ UNCHANGED <<run, enabled, sweep, protected, local, drive>>

\* Mutant: what failed is protected only if its last output is still there.
ProtectRetained ==
  /\ pc = "protect"
  /\ protected' = {n \in Names : outcomes[n] = "failed" /\ out[n] # 0}
  /\ pc' = "upload"
  /\ UNCHANGED <<run, enabled, todo, outcomes, sweep, local, drive, left>>
(* What failed is protected from this run's prune.                         *)
Protect ==
  /\ pc = "protect"
  /\ protected' = {n \in Names : outcomes[n] = "failed"}
  /\ pc' = "upload"
  /\ UNCHANGED <<run, enabled, todo, outcomes, sweep, local, drive, left>>

(* The outputs are backed up like any file; after an error no prune.       *)
Upload ==
  /\ pc = "upload"
  /\ \/ /\ drive' = [n \in Names |-> IF out[n] # 0 THEN out[n] ELSE drive[n]]
        /\ pc' \in {"prune", "done"}
        /\ UNCHANGED left
     \/ /\ Spend("fault")
        /\ \E n \in Names :
             drive' = [m \in Names |-> IF out[m] # 0 /\ m # n THEN out[m]
                                                              ELSE drive[m]]
        /\ pc' = "done"
  /\ UNCHANGED <<run, enabled, todo, outcomes, sweep, protected, local>>

(* --prune-trash.                                                          *)
Prune ==
  /\ pc = "prune"
  /\ drive' = [n \in Names |-> IF out[n] = 0 /\ n \notin protected THEN 0
                                                                   ELSE drive[n]]
  /\ pc' = "done"
  /\ UNCHANGED <<run, enabled, todo, outcomes, sweep, protected, local, left>>

Crash ==
  /\ pc \notin {"off", "done"} /\ Spend("fault")
  /\ pc' = "off"
  /\ UNCHANGED <<run, enabled, todo, outcomes, sweep, protected, local, drive>>

\* Between runs the owner deletes an output.
Delete(n) ==
  /\ pc \in {"off", "done"} /\ out[n] # 0 /\ Spend("loss")
  /\ pc' = "off"
  /\ out' = [out EXCEPT ![n] = 0]
  /\ meta' = IF n = Snapshot THEN NoOutcomes ELSE meta
  /\ UNCHANGED <<run, enabled, todo, outcomes, sweep, protected, drive>>

Next ==
  \/ StartRun \/ MakeDirectory \/ Reconcile \/ MakeWrapper \/ Collect
  \/ WriteSnapshot \/ Escape \/ Protect \/ Upload \/ Prune \/ Crash
  \/ \E n \in Names : Delete(n)

Spec == Init /\ [][Next]_vars

----------------------------------------------------------------------------
TypeOK ==
  /\ run \in 0..RunMax /\ (pc # "off" => run > 0)
  /\ enabled \subseteq Collectors
  /\ pc \in {"off", "directory", "reconcile", "wrapper", "collect", "snapshot",
             "protect", "upload", "prune", "done"}
  /\ todo \subseteq enabled /\ (pc \in {"wrapper", "collect"} => todo # {})
  /\ outcomes \in [Names -> Statuses] /\ meta \in [Names -> Statuses]
  /\ \A n \in Collectors \ enabled : outcomes[n] = "none"
  /\ reconciled \in BOOLEAN /\ warnings \subseteq Collectors \ enabled
  /\ protected \subseteq enabled \cup {Snapshot}
  /\ out \in [Names -> 0..run] /\ drive \in [Names -> 0..run]
  /\ left \in [{"run", "fault", "loss"} -> Nat] /\ run + left["run"] = RunMax

(* "A failed collector ... protects its prior remote manifest entry from   *)
(* pruning": a run prunes the copy of no collector that it has run, however*)
(* that went, and also if the last output is gone from disk.               *)
FailedKeepsBackup ==
  [][pc = "prune" =>
       \A n \in Names : outcomes[n] # "none" /\ drive[n] # 0 => drive'[n] # 0]_vars

(* What snapshot.json says of a refresh is true of the outputs, whatever   *)
(* runs were killed since: a collector it counts as done wrote its output  *)
(* in that refresh or again later, one it counts as failed did not.        *)
SnapshotIsTrue ==
  out[Snapshot] # 0 =>
    \A c \in Collectors :
      /\ meta[c] \in {"succeeded", "partial"} /\ out[c] # 0
         => out[c] >= out[Snapshot]
      /\ meta[c] = "failed" => out[c] # out[Snapshot]

(* A collector that is no longer selected disappears from Drive with the   *)
(* first prune of a run that got to remove its output, whatever earlier    *)
(* runs failed at or protected.                                            *)
DeselectedGoes ==
  [][pc = "prune" /\ pc' = "done" /\ reconciled =>
       \A c \in Collectors \ (enabled \cup warnings) : drive'[c] = 0]_vars
=============================================================================
