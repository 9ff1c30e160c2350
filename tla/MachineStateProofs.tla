------------------------- MODULE MachineStateProofs -------------------------
(***************************************************************************)
(* Proofs about MachineState, for any collectors and any number of runs,   *)
(* faults and losses: what a run failed at or refreshed keeps its backup,  *)
(* and snapshot.json never tells a lie about an output.                    *)
(***************************************************************************)
EXTENDS MachineState, TLAPS

Started == {"directory", "reconcile", "wrapper"}
Refreshing == Started \cup {"collect", "snapshot"}
Done == {"succeeded", "partial"}

(* Nothing has an outcome before the collectors run, and no collector      *)
(* before its turn.                                                        *)
NoneYet ==
  /\ pc \in Started => outcomes = NoOutcomes
  /\ \A c \in todo : outcomes[c] = "none"

(* During a refresh an output of this run has an outcome that says so, and *)
(* until the run ends such an outcome has its output.                      *)
WrittenCounts ==
  pc \in Refreshing => \A n \in Names : out[n] = run => outcomes[n] \in Done
DoneIsWritten ==
  pc \notin {"off", "done"} =>
    \A n \in Names : outcomes[n] \in Done => n \in Collectors /\ out[n] = run

(* What failed is protected by the time anything is pruned.                *)
FailedIsProtected ==
  pc \in {"upload", "prune"} =>
    \A n \in Names : outcomes[n] = "failed" => n \in protected

(* What is deselected has no output once the outputs were swept.           *)
SweptIsGone ==
  reconciled => \A c \in Collectors \ (enabled \cup warnings) : out[c] = 0

IInv ==
  /\ TypeOK /\ NoneYet /\ WrittenCounts /\ DoneIsWritten
  /\ FailedIsProtected /\ SweptIsGone /\ SnapshotIsTrue

----------------------------------------------------------------------------
(* The conjuncts hold at first.                                            *)
LEMMA InitInv == Init => IInv
<1> SUFFICES ASSUME Init PROVE IInv
  OBVIOUS
<1> USE DEF Init, NoOutcomes, Names
<1>1. TypeOK
  <2>1. RunMax \in Nat /\ FaultMax \in Nat /\ LossMax \in Nat
    BY BoundsAssumption
  <2>2. left \in [{"run", "fault", "loss"} -> Nat] /\ left["run"] = RunMax
    BY <2>1
  <2>3. reconciled \in BOOLEAN
    OBVIOUS
  <2>4. /\ outcomes \in [Names -> Statuses] /\ meta \in [Names -> Statuses]
        /\ \A n \in Names : outcomes[n] = "none"
    BY DEF Statuses
  <2>5. out \in [Names -> 0..run] /\ drive \in [Names -> 0..run]
    OBVIOUS
  <2> QED BY <2>1, <2>2, <2>3, <2>4, <2>5 DEF TypeOK
<1>2. NoneYet /\ WrittenCounts /\ DoneIsWritten /\ FailedIsProtected
  BY DEF NoneYet, WrittenCounts, DoneIsWritten, FailedIsProtected, Started,
         Refreshing
<1>3. SweptIsGone /\ SnapshotIsTrue
  BY DEF SweptIsGone, SnapshotIsTrue
<1> QED BY <1>1, <1>2, <1>3 DEF IInv

(* A bound that is spent leaves the other bounds, and the runs counted, as *)
(* they are.                                                               *)
LEMMA SpendType ==
  ASSUME TypeOK, NEW bound \in {"fault", "loss"}, Spend(bound)
  PROVE  /\ left' \in [{"run", "fault", "loss"} -> Nat]
         /\ left'["run"] = left["run"]
BY DEF TypeOK, Spend

(* Every step keeps the types.                                             *)
LEMMA TypeStep == TypeOK /\ [Next]_vars => TypeOK'
<1> SUFFICES ASSUME TypeOK, [Next]_vars PROVE TypeOK'
  OBVIOUS
<1> USE SnapshotAssumption, BoundsAssumption
    DEF TypeOK, Names, NoOutcomes, Statuses, local, sweep
<1>1. CASE StartRun
  <2>1. run' \in 1..RunMax /\ run' = run + 1
    BY <1>1 DEF StartRun, Spend
  <2>2. /\ left' \in [{"run", "fault", "loss"} -> Nat]
        /\ run' + left'["run"] = RunMax
    BY <1>1 DEF StartRun, Spend
  <2>3. out' \in [Names -> 0..run'] /\ drive' \in [Names -> 0..run']
    BY <1>1, <2>1 DEF StartRun
  <2>4. reconciled' \in BOOLEAN
    BY <1>1, Zenon DEF StartRun
  <2> QED BY <1>1, <2>1, <2>2, <2>3, <2>4 DEF StartRun
<1> USE SpendType
<1>2. CASE MakeDirectory
  BY <1>2 DEF MakeDirectory
<1>3. CASE Reconcile
  BY <1>3 DEF Reconcile, Swept
<1>4. CASE MakeWrapper
  BY <1>4 DEF MakeWrapper
<1>5. CASE Collect
  BY <1>5 DEF Collect, Written
<1>6. CASE WriteSnapshot
  BY <1>6 DEF WriteSnapshot
<1>7. CASE Escape
  BY <1>7 DEF Escape
<1>8. CASE Protect
  BY <1>8 DEF Protect
<1>9. CASE Upload
  BY <1>9 DEF Upload
<1>10. CASE Prune
  BY <1>10 DEF Prune
<1>11. CASE Crash
  BY <1>11 DEF Crash
<1>12. ASSUME NEW n \in Names, Delete(n) PROVE TypeOK'
  BY <1>12 DEF Delete
<1>13. CASE UNCHANGED vars
  BY <1>13 DEF vars
<1> QED
  BY <1>1, <1>2, <1>3, <1>4, <1>5, <1>6, <1>7, <1>8, <1>9, <1>10, <1>11,
     <1>12, <1>13 DEF Next

(* Every step keeps what the outcomes say about the outputs.               *)
LEMMA OutcomeStep ==
  IInv /\ [Next]_vars
    => (NoneYet /\ WrittenCounts /\ DoneIsWritten /\ FailedIsProtected)'
<1> SUFFICES ASSUME IInv, [Next]_vars
             PROVE  (NoneYet /\ WrittenCounts /\ DoneIsWritten
                       /\ FailedIsProtected)'
  OBVIOUS
<1> USE SnapshotAssumption
    DEF IInv, TypeOK, NoneYet, WrittenCounts, DoneIsWritten,
        FailedIsProtected, Names, NoOutcomes, Statuses, Started, Refreshing,
        Done, local, sweep
<1>1. CASE StartRun
  BY <1>1 DEF StartRun
<1>2. CASE MakeDirectory
  BY <1>2 DEF MakeDirectory
<1>3. CASE Reconcile
  BY <1>3 DEF Reconcile, Swept
<1>4. CASE MakeWrapper
  BY <1>4 DEF MakeWrapper
<1>5. CASE Collect
  BY <1>5 DEF Collect, Written
<1>6. CASE WriteSnapshot
  BY <1>6 DEF WriteSnapshot
<1>7. CASE Escape
  BY <1>7 DEF Escape
<1>8. CASE Protect
  BY <1>8 DEF Protect
<1>9. CASE Upload
  BY <1>9 DEF Upload
<1>10. CASE Prune
  BY <1>10 DEF Prune
<1>11. CASE Crash
  BY <1>11 DEF Crash
<1>12. ASSUME NEW n \in Names, Delete(n)
       PROVE  (NoneYet /\ WrittenCounts /\ DoneIsWritten /\ FailedIsProtected)'
  BY <1>12 DEF Delete
<1>13. CASE UNCHANGED vars
  BY <1>13 DEF vars
<1> QED
  BY <1>1, <1>2, <1>3, <1>4, <1>5, <1>6, <1>7, <1>8, <1>9, <1>10, <1>11,
     <1>12, <1>13 DEF Next

(* Every step keeps the swept outputs away: only what is selected is       *)
(* written.                                                                *)
LEMMA SweepStep == IInv /\ [Next]_vars => SweptIsGone'
<1> SUFFICES ASSUME IInv, [Next]_vars PROVE SweptIsGone'
  OBVIOUS
<1> USE SnapshotAssumption DEF IInv, TypeOK, SweptIsGone, Names, local, sweep
<1>1. CASE StartRun
  BY <1>1 DEF StartRun
<1>2. CASE Reconcile
  BY <1>2 DEF Reconcile, Swept
<1>3. CASE Collect
  BY <1>3 DEF Collect
<1>4. CASE WriteSnapshot
  BY <1>4 DEF WriteSnapshot
<1>5. ASSUME NEW n \in Names, Delete(n) PROVE SweptIsGone'
  BY <1>5 DEF Delete
<1>6. CASE MakeDirectory \/ MakeWrapper \/ Escape \/ Protect \/ Upload \/ Prune
             \/ Crash \/ UNCHANGED vars
  BY <1>6 DEF MakeDirectory, MakeWrapper, Escape, Protect, Upload, Prune, Crash,
              vars
<1> QED BY <1>1, <1>2, <1>3, <1>4, <1>5, <1>6 DEF Next

(* Every step keeps snapshot.json true: it is written when the outcomes    *)
(* are, and until the next one is, outputs only get newer or lost.         *)
LEMMA SnapshotStep == IInv /\ [Next]_vars => SnapshotIsTrue'
<1> SUFFICES ASSUME IInv, [Next]_vars PROVE SnapshotIsTrue'
  OBVIOUS
<1> USE SnapshotAssumption
    DEF IInv, TypeOK, SnapshotIsTrue, Names, Statuses, local, sweep
<1>1. CASE WriteSnapshot
  <2>1. ASSUME out' = [out EXCEPT ![Snapshot] = run], meta' = outcomes
        PROVE  SnapshotIsTrue'
    BY <1>1, <2>1
       DEF WriteSnapshot, WrittenCounts, DoneIsWritten, Refreshing, Done
  <2>2. CASE UNCHANGED local
    BY <2>2
  <2> QED BY <1>1, <2>1, <2>2 DEF WriteSnapshot
<1>2. CASE Collect
  <2>1. out[Snapshot] # run
    BY <1>2 DEF Collect, WrittenCounts, DoneIsWritten, Refreshing, Done
  <2> QED BY <1>2, <2>1 DEF Collect
<1>3. CASE Reconcile
  BY <1>3 DEF Reconcile, Swept
<1>4. ASSUME NEW n \in Names, Delete(n) PROVE SnapshotIsTrue'
  BY <1>4 DEF Delete, NoOutcomes
<1>5. CASE StartRun \/ MakeDirectory \/ MakeWrapper \/ Escape \/ Protect
             \/ Upload \/ Prune \/ Crash \/ UNCHANGED vars
  BY <1>5 DEF StartRun, MakeDirectory, MakeWrapper, Escape, Protect, Upload,
              Prune, Crash, vars
<1> QED BY <1>1, <1>2, <1>3, <1>4, <1>5 DEF Next

(* The invariant is one.                                                   *)
LEMMA Invariance == Spec => []IInv
<1>1. IInv /\ [Next]_vars => IInv'
  BY TypeStep, OutcomeStep, SweepStep, SnapshotStep DEF IInv
<1> QED BY InitInv, <1>1, PTL DEF Spec

----------------------------------------------------------------------------
(* The variables of collect_machine_state keep their types: an outcome is  *)
(* there only for what the configuration selects, an output only from a    *)
(* run there was.                                                          *)
THEOREM TypeCorrect == Spec => []TypeOK
BY Invariance, PTL DEF IInv

(* snapshot.json and the outputs beside it agree, however many refreshes   *)
(* failed, were killed or lost a file since it was written.                *)
THEOREM SnapshotsAreTrue == Spec => []SnapshotIsTrue
BY Invariance, PTL DEF IInv

(* The prune of a run that refreshed a collector, or failed to, leaves the *)
(* copy on Drive alone: what was refreshed is there, what failed is        *)
(* protected.                                                              *)
THEOREM FailuresKeepBackups == Spec => FailedKeepsBackup
<1>1. IInv /\ [Next]_vars =>
        [pc = "prune" =>
           \A n \in Names :
             outcomes[n] # "none" /\ drive[n] # 0 => drive'[n] # 0]_vars
  <2> SUFFICES ASSUME IInv, Next, pc = "prune", NEW n \in Names,
                      outcomes[n] # "none", drive[n] # 0
               PROVE  drive'[n] # 0
    OBVIOUS
  <2>1. CASE Prune
    <3>1. out[n] # 0 \/ n \in protected
      BY <2>1 DEF IInv, TypeOK, DoneIsWritten, FailedIsProtected, Statuses, Done
    <3> QED BY <2>1, <3>1 DEF Prune
  <2>2. CASE Crash
    BY <2>2 DEF Crash
  <2> QED
    BY <2>1, <2>2
       DEF Next, StartRun, MakeDirectory, Reconcile, MakeWrapper, Collect,
           WriteSnapshot, Escape, Protect, Upload, Delete
<1> QED BY <1>1, Invariance, PTL DEF FailedKeepsBackup, Spec

(* The prune of a run that swept the outputs of deselected collectors      *)
(* takes their copies off Drive, whatever was protected before.            *)
THEOREM DeselectedGo == Spec => DeselectedGoes
<1>1. IInv /\ [Next]_vars =>
        [pc = "prune" /\ pc' = "done" /\ reconciled =>
           \A c \in Collectors \ (enabled \cup warnings) : drive'[c] = 0]_vars
  <2> SUFFICES ASSUME IInv, Next, pc = "prune", pc' = "done", reconciled,
                      NEW c \in Collectors \ (enabled \cup warnings)
               PROVE  drive'[c] = 0
    OBVIOUS
  <2>1. Prune
    BY DEF Next, StartRun, MakeDirectory, Reconcile, MakeWrapper, Collect,
           WriteSnapshot, Escape, Protect, Upload, Crash, Delete
  <2>2. out[c] = 0 /\ c \notin protected
    BY SnapshotAssumption DEF IInv, TypeOK, SweptIsGone
  <2> QED BY <2>1, <2>2 DEF Prune, Names
<1> QED BY <1>1, Invariance, PTL DEF DeselectedGoes, Spec
=============================================================================
