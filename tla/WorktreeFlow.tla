---------------------------- MODULE WorktreeFlow ----------------------------
(***************************************************************************)
(* The resumable flow of .omp/scripts/worktree_flow: a run gets a feature  *)
(* worktree, has a coding harness implement and audit a plan in it, builds *)
(* one integration commit in a second worktree, fast-forwards the base     *)
(* branch to it, commits an archive of its records and removes what it     *)
(* created.  Every step is checkpointed in a state file outside the        *)
(* repository; a run that goes down is resumed from its last checkpoint.   *)
(*                                                                         *)
(* Several runs share one repository and its owner keeps using it.  A run  *)
(* is killed between any two steps.  A git command is one step; what the   *)
(* code reads before the command is read in the same step only when no     *)
(* other actor can change it in between.  A commit is named by the history *)
(* that ends in it, so `is an ancestor of' is IsPrefix.                    *)
(***************************************************************************)
EXTENDS Naturals, Sequences, FiniteSets, SequencesExt

CONSTANTS
  Runs,        \* identifiers of the runs (time stamped, so never equal)
  NoRun,       \* the author of the owner's own commits
  PlanOf,      \* the plan of each run
  NamesOf,     \* NamesOf[r]: the names it may take, in turn: slug, slug-2, ...
  ConfigsOf,   \* the command lines [mode, keep] each run may be started with
  MaxHead,     \* bound: commits on a feature branch
  MaxSuffix,   \* bound: names tried for one run
  FaultMax,    \* bound: kills and failing harness phases, all runs together
  UserMax,     \* bound: steps of the owner
  MayConflict, \* whether merges may conflict when the base has moved
  None         \* an absent value

Modes == {"squash", "no-ff", "stop"}

ASSUME BoundsAssumption ==
  /\ {MaxHead, MaxSuffix} \subseteq Nat \ {0}
  /\ {FaultMax, UserMax} \subseteq Nat
  /\ MayConflict \in BOOLEAN
ASSUME ConfigsAssumption ==
  \A r \in Runs : ConfigsOf[r] \subseteq [mode : Modes, keep : BOOLEAN]

VARIABLES
  name,     \* the feature names a run has chosen
  st,       \* the state file of a run, None before its first save
  pc,       \* where the process of a run is
  fresh,    \* whether that process was started by run() rather than resume()
  feat,     \* the feature worktree and branch of each name
  integ,    \* the integration worktree and branch of each run
  archive,  \* the archive directory of each run, in the primary worktree
  base,     \* the base branch
  budget    \* what is left of FaultMax and UserMax

vars == <<name, st, pc, fresh, feat, integ, archive, base, budget>>
world == <<name, fresh, feat, integ, archive, base, budget>>

(* The slug is six words of the title, so different plans may share a name.*)
Names == UNION {{NamesOf[r][n] : n \in 1..MaxSuffix} : r \in Runs}

----------------------------------------------------------------------------
(* Stages and the transitions the state store accepts.                     *)

FeatureStages == {"feature_allocated", "feature_worktree_created",
  "plan_copied", "implementation_started", "implementation_complete",
  "audit_started", "audit_complete"}

ConflictStages == {"integration_conflicts_detected",
  "conflict_resolution_started", "conflict_resolution_complete",
  "post_conflict_audit_started", "post_conflict_audit_complete"}

BuildStages == ConflictStages \cup {"integration_allocated",
  "integration_worktree_created", "integration_merge_applied",
  "integration_changes_staged", "integration_committed"}

RemovalStages == {"integration_worktree_removed", "feature_worktree_removed",
  "worktrees_pruned", "integration_branch_removed", "feature_branch_removed",
  "cleanup_complete"}

RecordStages == {"artifacts_committed", "worktrees_retained"} \cup RemovalStages

Stages == FeatureStages \cup BuildStages \cup RecordStages \cup
  {"stopped_before_merge", "integration_rebuild_cleanup",
   "base_fast_forwarded", "handoff_archived", "complete"}

Allowed(stage) ==
  CASE stage = "feature_allocated" -> {"feature_worktree_created"}
    [] stage = "feature_worktree_created" -> {"plan_copied"}
    [] stage = "plan_copied" -> {"implementation_started"}
    [] stage = "implementation_started" ->
         {"implementation_started", "implementation_complete"}
    [] stage = "implementation_complete" -> {"audit_started"}
    [] stage = "audit_started" -> {"audit_started", "audit_complete"}
    [] stage = "audit_complete" ->
         {"audit_started", "stopped_before_merge", "integration_allocated"}
    [] stage = "stopped_before_merge" ->
         {"audit_started", "stopped_before_merge"}
    [] stage = "integration_allocated" -> {"integration_worktree_created"}
    [] stage = "integration_worktree_created" ->
         {"integration_merge_applied", "integration_conflicts_detected"}
    [] stage = "integration_merge_applied" -> {"integration_changes_staged"}
    [] stage = "integration_conflicts_detected" ->
         {"conflict_resolution_started"}
    [] stage = "conflict_resolution_started" ->
         {"conflict_resolution_started", "conflict_resolution_complete"}
    [] stage = "conflict_resolution_complete" ->
         {"post_conflict_audit_started"}
    [] stage = "post_conflict_audit_started" ->
         {"post_conflict_audit_started", "post_conflict_audit_complete"}
    [] stage = "integration_changes_staged" -> {"integration_committed"}
    [] stage = "integration_committed" ->
         {"base_fast_forwarded", "integration_rebuild_cleanup"}
    [] stage = "integration_rebuild_cleanup" -> {"audit_complete"}
    [] stage = "base_fast_forwarded" -> {"handoff_archived"}
    [] stage = "handoff_archived" -> {"artifacts_committed"}
    [] stage = "artifacts_committed" ->
         {"integration_worktree_removed", "worktrees_retained"}
    [] stage = "integration_worktree_removed" -> {"feature_worktree_removed"}
    [] stage = "feature_worktree_removed" -> {"worktrees_pruned"}
    [] stage = "worktrees_pruned" -> {"integration_branch_removed"}
    [] stage = "integration_branch_removed" -> {"feature_branch_removed"}
    [] stage = "feature_branch_removed" -> {"cleanup_complete"}
    [] stage = "cleanup_complete" -> {"complete"}
    [] stage = "worktrees_retained" -> {"complete"}
    [] stage = "complete" -> {"complete"}
    [] OTHER -> {}

----------------------------------------------------------------------------
(* The data: commits, the state file of a run, its two worktrees.          *)

Kinds == {"user", "integration", "archive", "stop", "finalize"}
Commit == [kind : Kinds, run : Runs \cup {NoRun}, of : Nat]
History == Seq(Commit)
Trees == {"clean", "merged", "empty", "conflicted", "resolved", "moved"}

State == [stage : Stages, mode : Modes, keep : BOOLEAN,
          auditHead : 0..MaxHead, intFeature : 0..MaxHead,
          fp : Trees \cup {None},
          featBase : History, intBase : History \cup {None},
          intCommit : History \cup {None},
          archiveCommit : History \cup {None},
          finalCommit : History \cup {None}]
Feature == [wt : BOOLEAN, branch : BOOLEAN, from : History \cup {None},
            head : 0..MaxHead, dirty : BOOLEAN, impl : BOOLEAN,
            audit : BOOLEAN]
Integration == [wt : BOOLEAN, branch : BOOLEAN, tip : History \cup {None},
                tree : Trees, summary : BOOLEAN]

ASSUME NoneAssumption == None \notin State \cup Names /\ NoRun \notin Runs

----------------------------------------------------------------------------
(* Helpers.                                                                *)

CommitOf(kind, r, h) == [kind |-> kind, run |-> r, of |-> h]
HasLanded(b, r, h) == \E i \in DOMAIN b : b[i] = CommitOf("integration", r, h)

(* Other work is on top of that: it may have changed it or taken it back.  *)
Overlaid(b, r, h) ==
  \E j \in DOMAIN b :
    /\ b[j].kind \in {"user", "integration"}
    /\ \A i \in j..Len(b) : b[i] # CommitOf("integration", r, h)

Tops(b, kind, r) == b # << >> /\ Last(b).kind = kind /\ Last(b).run = r

Stage(r) == IF st[r] = None THEN "none" ELSE st[r].stage
At(r, label, stage) == pc[r] = label /\ Stage(r) = stage

NoFeature == [wt |-> FALSE, branch |-> FALSE, from |-> None, head |-> 0,
              dirty |-> FALSE, impl |-> FALSE, audit |-> FALSE]
NoInteg == [wt |-> FALSE, branch |-> FALSE, tip |-> None, tree |-> "clean",
            summary |-> FALSE]
\* Mutant: the rebuild forgets the audit as well.
NoBuildAtAll(s) ==
  [s EXCEPT !.intBase = None, !.intFeature = 0, !.fp = None,
            !.intCommit = None, !.auditHead = 0]
NoBuild(s) ==
  [s EXCEPT !.intBase = None, !.intFeature = 0, !.fp = None,
            !.intCommit = None]

Feat(r) == feat[name[r]]
CleanFeature(r) == Feat(r).wt /\ ~Feat(r).dirty
HasCommits(r) == Feat(r).head > 0
IsAncestor(b, c) == IsPrefix(b, c)

(* The integration tree is the one of the last checkpoint; and something   *)
(* in it is staged.                                                        *)
AtCheckpoint(r) == integ[r].tree = st[r].fp
HasStaged(r) == integ[r].tree # "empty"

(* No process holds the lock of the run.                                   *)
LockFree(r) == pc[r] = "down"

(* FlowError: the process ends, what it wrote stays.                       *)
Refuse(r) ==
  /\ pc' = [pc EXCEPT ![r] = "down"]
  /\ UNCHANGED <<st, world>>

(* _transition: the store saves the new state if the table allows it.      *)
Transition(r, stage, changed, label) ==
  IF stage \in Allowed(st[r].stage)
  THEN /\ st' = [st EXCEPT ![r] = [changed EXCEPT !.stage = stage]]
       /\ pc' = [pc EXCEPT ![r] = label]
  ELSE /\ pc' = [pc EXCEPT ![r] = "down"]
       /\ UNCHANGED st

Advance(r, stage, changed, label) ==
  Transition(r, stage, changed, label) /\ UNCHANGED world

(* Git changes a feature worktree or branch, or those of an integration.   *)
SetFeat(r, f) ==
  /\ feat' = [feat EXCEPT ![name[r]] = f]
  /\ UNCHANGED <<name, fresh, integ, archive, base>>
SetInteg(r, i) ==
  /\ integ' = [integ EXCEPT ![r] = i]
  /\ UNCHANGED <<name, fresh, feat, archive, base>>
GoTo(r, label) == pc' = [pc EXCEPT ![r] = label]

SpendFault == budget.fault > 0 /\ budget' = [budget EXCEPT !.fault = @ - 1]
SpendUser == budget.user > 0 /\ budget' = [budget EXCEPT !.user = @ - 1]

----------------------------------------------------------------------------
Init ==
  /\ name = [r \in Runs |-> None]
  /\ st = [r \in Runs |-> None]
  /\ pc = [r \in Runs |-> "none"]
  /\ fresh = [r \in Runs |-> TRUE]
  /\ feat = [n \in Names |-> NoFeature]
  /\ integ = [r \in Runs |-> NoInteg]
  /\ archive = [r \in Runs |-> [cand |-> FALSE, dirty |-> FALSE,
                                final |-> FALSE]]
  /\ base = << >>
  /\ budget = [fault |-> FaultMax, user |-> UserMax]

(* run(): choose the first names no branch or worktree has.  A plan that a *)
(* finished run owns is refused.                                           *)
ChooseNames(r) ==
  /\ pc[r] = "none"
  /\ ~\E q \in Runs : PlanOf[q] = PlanOf[r] /\ Stage(q) = "complete"
  /\ \E n \in 1..MaxSuffix :
       /\ ~feat[NamesOf[r][n]].branch /\ ~feat[NamesOf[r][n]].wt
       /\ \A m \in 1..(n - 1) :
            feat[NamesOf[r][m]].branch \/ feat[NamesOf[r][m]].wt
       /\ name' = [name EXCEPT ![r] = NamesOf[r][n]]
  /\ GoTo(r, "named")
  /\ UNCHANGED <<st, fresh, feat, integ, archive, base, budget>>

(* reserve_run: make the directory of the run.                             *)
Reserve(r) ==
  /\ pc[r] = "named"
  /\ GoTo(r, "reserved")
  /\ UNCHANGED <<st, world>>

(* _new_state and the first save.                                          *)
CreateState(r) ==
  /\ pc[r] = "reserved"
  /\ \E c \in ConfigsOf[r] :
       st' = [st EXCEPT ![r] =
               [stage |-> "feature_allocated", mode |-> c.mode,
                keep |-> c.keep, featBase |-> base, auditHead |-> 0,
                intBase |-> None, intFeature |-> 0, fp |-> None,
                intCommit |-> None, archiveCommit |-> None,
                finalCommit |-> None]]
  /\ GoTo(r, "alloc")
  /\ UNCHANGED world

(* _allocate_feature: add the worktree, or adopt the one that is there.    *)
AddFeatureWorktree(r) ==
  /\ At(r, "alloc", "feature_allocated")
  /\ ~Feat(r).wt
  /\ IF Feat(r).branch
     THEN Refuse(r)
     ELSE /\ SetFeat(r, [NoFeature EXCEPT !.wt = TRUE, !.branch = TRUE,
                                          !.from = st[r].featBase])
          /\ UNCHANGED <<st, pc, budget>>

SaveFeatureWorktree(r) ==
  /\ At(r, "alloc", "feature_allocated")
  /\ Feat(r).wt
  /\ IF Feat(r).from = st[r].featBase /\ Feat(r).head = 0
     THEN Advance(r, "feature_worktree_created", st[r], "feature")
     ELSE Refuse(r)

----------------------------------------------------------------------------
(* The feature stages.                                                     *)

CopyPlan(r) ==
  /\ At(r, "feature", "feature_worktree_created")
  /\ Advance(r, "plan_copied", st[r], "feature")

StartImplementation(r) ==
  /\ At(r, "feature", "plan_copied")
  /\ Advance(r, "implementation_started", st[r], "feature")

(* The outputs of a phase and of those after it are removed before its     *)
(* harness is launched.                                                    *)
RemovePhaseOutputs(r) ==
  [Feat(r) EXCEPT !.impl = @ /\ Stage(r) # "implementation_started",
                  !.audit = FALSE]

LaunchImplementation(r) ==
  /\ At(r, "feature", "implementation_started")
  /\ SetFeat(r, RemovePhaseOutputs(r))
  /\ GoTo(r, "harness")
  /\ UNCHANGED <<st, budget>>

StartAudit(r) ==
  /\ At(r, "feature", "implementation_complete")
  /\ Advance(r, "audit_started", st[r], "feature")

LaunchAudit(r) ==
  /\ At(r, "feature", "audit_started")
  /\ SetFeat(r, RemovePhaseOutputs(r))
  /\ GoTo(r, "harness")
  /\ UNCHANGED <<st, budget>>

(* The harness works in the feature worktree: it commits or not, and ends  *)
(* well, with an error, without a summary, or leaving changes behind.      *)
HarnessOutcomes == {"good", "error", "no summary", "dirty"}

RunFeatureHarness(r) ==
  /\ pc[r] = "harness"
  /\ Stage(r) \in {"implementation_started", "audit_started"}
  /\ \E outcome \in HarnessOutcomes, more \in 0..1 :
       LET head == Feat(r).head + more
           told == outcome # "no summary"
       IN  /\ head <= MaxHead
           /\ IF outcome = "good" /\ head > 0
              THEN UNCHANGED budget
              ELSE SpendFault
           /\ SetFeat(r, [Feat(r) EXCEPT
                !.head = head,
                !.dirty = outcome = "dirty",
                !.impl = @ \/ (told /\ Stage(r) = "implementation_started"),
                !.audit = @ \/ (told /\ Stage(r) = "audit_started")])
           /\ GoTo(r, IF outcome = "error" THEN "down" ELSE "returned")
  /\ UNCHANGED st

AcceptImplementation(r) ==
  /\ At(r, "returned", "implementation_started")
  /\ IF Feat(r).impl /\ CleanFeature(r) /\ HasCommits(r)
     THEN Advance(r, "implementation_complete", st[r], "feature")
     ELSE Refuse(r)

AcceptAudit(r) ==
  /\ At(r, "returned", "audit_started")
  /\ IF Feat(r).audit /\ CleanFeature(r)
     THEN Advance(r, "audit_complete",
                  [st[r] EXCEPT !.auditHead = Feat(r).head], "audited")
     ELSE Refuse(r)

(* A resumed run whose audit is complete: a feature branch that has moved  *)
(* is audited again.                                                       *)
CheckAudit(r) ==
  /\ At(r, "feature", "audit_complete")
  /\ IF Feat(r).head # st[r].auditHead
     THEN Advance(r, "audit_started", st[r], "feature")
     ELSE IF CleanFeature(r) /\ Feat(r).audit
          THEN GoTo(r, "audited") /\ UNCHANGED <<st, world>>
          ELSE Refuse(r)

(* run() stops before the merge when asked to; resume() just returns.      *)
LeaveFeature(r) ==
  /\ pc[r] = "audited"
  /\ \/ /\ st[r].mode # "stop"
        /\ GoTo(r, "finish") /\ UNCHANGED <<st, world>>
     \/ /\ st[r].mode = "stop" /\ fresh[r]
        /\ Advance(r, "stopped_before_merge", st[r], "stopping")
     \/ /\ st[r].mode = "stop" /\ ~fresh[r]
        /\ Refuse(r)

----------------------------------------------------------------------------
(* Stopping before the merge: archive, candidate state, commit, receipt.   *)

SetArchive(r, a) ==
  /\ archive' = [archive EXCEPT ![r] = a]
  /\ UNCHANGED <<name, fresh, feat, integ, base, budget>>

ArchiveStop(r) ==
  /\ pc[r] = "stopping"
  /\ ~archive[r].cand
  /\ SetArchive(r, [archive[r] EXCEPT !.cand = TRUE, !.dirty = TRUE])
  /\ UNCHANGED <<st, pc>>

CommitStop(r) ==
  /\ pc[r] = "stopping"
  /\ archive[r].dirty
  /\ base' = Append(base, CommitOf("stop", r, 0))
  /\ archive' = [archive EXCEPT ![r].dirty = FALSE]
  /\ GoTo(r, "stopped")
  /\ UNCHANGED <<st, name, fresh, feat, integ, budget>>

(* The receipt of _commit_stop_archive: HEAD must still be that commit.    *)
SaveStop(r) ==
  /\ pc[r] = "stopped"
  /\ IF Tops(base, "stop", r)
     THEN /\ st' = [st EXCEPT ![r].archiveCommit = base]
          /\ GoTo(r, "down")
          /\ UNCHANGED world
     ELSE Refuse(r)

----------------------------------------------------------------------------
(* resume(): the saved state must fit the repository.                      *)

\* Mutant: an allocated integration need not have its worktree.
CanResumeAllocated(r) ==
  /\ Stage(r) \notin RemovalStages \cup {"feature_allocated"} => Feat(r).wt
  /\ Stage(r) \in BuildStages \ {"integration_allocated"} => integ[r].wt
CanResume(r) ==
  /\ Stage(r) \notin RemovalStages \cup {"feature_allocated"} => Feat(r).wt
  /\ Stage(r) \in {"integration_worktree_removed", "feature_worktree_removed",
                   "worktrees_pruned"} => Feat(r).wt \/ Feat(r).branch
  /\ Stage(r) \in BuildStages \cup {"base_fast_forwarded",
                   "handoff_archived", "worktrees_retained"} => integ[r].wt
  /\ Stage(r) \in {"artifacts_committed", "integration_worktree_removed",
                   "feature_worktree_removed"} =>
        integ[r].wt \/ integ[r].branch

\* Mutant: the feature stages are run before the worktree is there.
ResumeLabelUnallocated(stage) ==
  IF stage \in FeatureStages THEN "feature" ELSE "finish"
ResumeLabel(stage) ==
  CASE stage = "feature_allocated" -> "alloc"
    [] stage \in FeatureStages -> "feature"
    [] OTHER -> "finish"

Resume(r) ==
  /\ LockFree(r)
  /\ Stage(r) \notin {"none", "complete", "stopped_before_merge"}
  /\ CanResume(r)
  /\ GoTo(r, ResumeLabel(Stage(r)))
  /\ fresh' = [fresh EXCEPT ![r] = FALSE]
  /\ UNCHANGED <<st, name, feat, integ, archive, base, budget>>

(* A stopped run: adopt its archive commit when that is still HEAD, and go *)
(* on only with a merge mode.                                              *)
ResumeStopped(r) ==
  /\ LockFree(r)
  /\ Stage(r) = "stopped_before_merge"
  /\ CanResume(r)
  /\ fresh' = [fresh EXCEPT ![r] = FALSE]
  /\ \/ /\ st[r].archiveCommit = None /\ Tops(base, "stop", r)
        /\ st' = [st EXCEPT ![r].archiveCommit = base]
        /\ UNCHANGED pc
     \/ \E m \in {"squash", "no-ff"} :
          Transition(r, "audit_started",
            [st[r] EXCEPT !.mode = m, !.archiveCommit = None], "feature")
  /\ UNCHANGED <<name, feat, integ, archive, base, budget>>

----------------------------------------------------------------------------
(* Integration: allocate, merge, resolve conflicts, commit.                *)

(* There is nothing to merge: b holds this very head, landed by an earlier *)
(* attempt.  A squashed commit is no merge, so git then compares contents. *)
Contained(r, b) ==
  /\ HasLanded(b, r, Feat(r).head)
  /\ ~(st[r].mode = "squash" /\ Overlaid(b, r, Feat(r).head))

AllocateIntegration(r) ==
  /\ At(r, "finish", "audit_complete")
  /\ IF Feat(r).head # st[r].auditHead
     THEN Refuse(r)
     ELSE Advance(r, "integration_allocated",
                  [st[r] EXCEPT !.intBase = base, !.intFeature = Feat(r).head,
                                !.fp = None, !.intCommit = None], "finish")

AddIntegrationWorktree(r) ==
  /\ At(r, "finish", "integration_allocated")
  /\ ~integ[r].wt
  /\ SetInteg(r, [NoInteg EXCEPT !.wt = TRUE, !.branch = TRUE,
                                 !.tip = st[r].intBase])
  /\ UNCHANGED <<st, pc, budget>>

SaveIntegrationWorktree(r) ==
  /\ At(r, "finish", "integration_allocated")
  /\ integ[r].wt
  /\ Advance(r, "integration_worktree_created", st[r], "finish")

(* git merge: it may bring nothing, also because the base has the same     *)
(* changes from elsewhere or the commits of the feature undo one another;  *)
(* it conflicts only when the base has moved since the feature began.      *)
\* Mutant: a merge of what the base has already still brings something.
MergeOutcomesAlways(r) == {"merged"}
MergeOutcomes(r) ==
  IF Contained(r, st[r].intBase) THEN {"empty"}
  ELSE {"merged", "empty"} \cup
       (IF MayConflict /\ st[r].intBase # st[r].featBase
        THEN {"conflicted"} ELSE {})

Merge(r) ==
  /\ At(r, "finish", "integration_worktree_created")
  /\ IF Feat(r).head = st[r].intFeature /\ integ[r].tree = "clean"
     THEN /\ \E tree \in MergeOutcomes(r) :
               SetInteg(r, [integ[r] EXCEPT !.tree = tree])
          /\ GoTo(r, "merged")
          /\ UNCHANGED <<st, budget>>
     ELSE Refuse(r)

SaveMerge(r) ==
  /\ pc[r] = "merged"
  /\ Advance(r, IF integ[r].tree = "conflicted"
                THEN "integration_conflicts_detected"
                ELSE "integration_merge_applied",
             [st[r] EXCEPT !.fp = integ[r].tree], "finish")

StartResolution(r) ==
  /\ At(r, "finish", "integration_conflicts_detected")
  /\ Advance(r, "conflict_resolution_started", st[r], "finish")

StartPostAudit(r) ==
  /\ At(r, "finish", "conflict_resolution_complete")
  /\ Advance(r, "post_conflict_audit_started", st[r], "finish")

HarnessStages == {"conflict_resolution_started", "post_conflict_audit_started"}

(* The tree must be the one of the checkpoint before a harness touches it. *)
LaunchInIntegration(r) ==
  /\ pc[r] = "finish"
  /\ Stage(r) \in HarnessStages
  /\ IF AtCheckpoint(r)
     THEN /\ SetInteg(r, [integ[r] EXCEPT !.summary = FALSE])
          /\ GoTo(r, "harness")
          /\ UNCHANGED <<st, budget>>
     ELSE Refuse(r)

(* A phase that ends with an error has its tree taken as the new           *)
(* checkpoint; one that ends well is checked by the next action.           *)
RunIntegrationHarness(r) ==
  /\ pc[r] = "harness"
  /\ Stage(r) \in HarnessStages
  /\ \E tree \in {"conflicted", "resolved", "moved"}, told, ok \in BOOLEAN :
       /\ IF tree = "resolved" /\ told /\ ok
          THEN UNCHANGED budget
          ELSE SpendFault
       /\ SetInteg(r, [integ[r] EXCEPT !.tree = tree, !.summary = told])
       /\ \/ ok /\ GoTo(r, "returned") /\ UNCHANGED st
          \/ ~ok /\ GoTo(r, "down") /\ st' = [st EXCEPT ![r].fp = tree]

AcceptInIntegration(r) ==
  /\ pc[r] = "returned"
  /\ Stage(r) \in HarnessStages
  /\ IF integ[r].tree = "resolved" /\ integ[r].summary
     THEN Advance(r, IF Stage(r) = "conflict_resolution_started"
                     THEN "conflict_resolution_complete"
                     ELSE "post_conflict_audit_complete",
                  [st[r] EXCEPT !.fp = integ[r].tree], "finish")
     ELSE Refuse(r)

(* _stage_integration: git add, something must be staged, then the         *)
(* transition; the index of a clean merge is staged already.               *)
StageIntegration(r) ==
  /\ pc[r] = "finish"
  /\ Stage(r) \in {"integration_merge_applied", "post_conflict_audit_complete"}
  /\ IF AtCheckpoint(r) /\ HasStaged(r)
     THEN Advance(r, "integration_changes_staged", st[r], "finish")
     ELSE Refuse(r)

CommitIntegration(r) ==
  /\ At(r, "finish", "integration_changes_staged")
  /\ integ[r].tip = st[r].intBase
  /\ IF AtCheckpoint(r)
     THEN /\ SetInteg(r, [integ[r] EXCEPT !.tree = "clean",
               !.tip = Append(@, CommitOf("integration", r,
                                          st[r].intFeature))])
          /\ UNCHANGED <<st, pc, budget>>
     ELSE Refuse(r)

(* The commit just made, or one an earlier process made, is adopted.       *)
SaveIntegrationCommit(r) ==
  /\ At(r, "finish", "integration_changes_staged")
  /\ integ[r].tip # st[r].intBase
  /\ Advance(r, "integration_committed",
             [st[r] EXCEPT !.intCommit = integ[r].tip], "finish")

----------------------------------------------------------------------------
(* _fast_forward: the base moves to the integration commit, or a base that *)
(* has moved makes the run build its commit again.                         *)

ReadyToLand(r) ==
  /\ CleanFeature(r)
  /\ Feat(r).head = st[r].auditHead
  /\ Feat(r).head = st[r].intFeature
  /\ integ[r].wt /\ integ[r].tree = "clean"
  /\ integ[r].tip = st[r].intCommit

\* Mutant: a base that has moved is an error, never a rebuild.
CheckFastForwardOnce(r) ==
  /\ At(r, "finish", "integration_committed")
  /\ IF ReadyToLand(r) /\ base = st[r].intBase
     THEN GoTo(r, "ff") /\ UNCHANGED <<st, world>>
     ELSE Refuse(r)
CheckFastForward(r) ==
  /\ At(r, "finish", "integration_committed")
  /\ IF ~ReadyToLand(r)
     THEN Refuse(r)
     ELSE \/ /\ base = st[r].intBase
             /\ GoTo(r, "ff")
             /\ UNCHANGED <<st, world>>
          \/ /\ base # st[r].intBase
             /\ IsAncestor(st[r].intBase, base)
             /\ Advance(r, "integration_rebuild_cleanup", st[r], "rebuild")
          \/ /\ ~IsAncestor(st[r].intBase, base)
             /\ Refuse(r)

\* Mutant: the base is reset to the integration commit (no --ff-only).
ResetBase(r) ==
  /\ pc[r] = "ff"
  /\ base' = st[r].intCommit
  /\ GoTo(r, "ffd")
  /\ UNCHANGED <<st, name, fresh, feat, integ, archive, budget>>
FastForward(r) ==
  /\ pc[r] = "ff"
  /\ IF IsAncestor(base, st[r].intCommit)
     THEN /\ base' = st[r].intCommit
          /\ GoTo(r, "ffd")
          /\ UNCHANGED <<st, name, fresh, feat, integ, archive, budget>>
     ELSE Refuse(r)

SaveFastForward(r) ==
  /\ pc[r] = "ffd"
  /\ IF IsAncestor(st[r].intCommit, base)
     THEN Advance(r, "base_fast_forwarded", st[r], "finish")
     ELSE Refuse(r)

(* A rebuild that was interrupted is checked again before it goes on.      *)
CheckRebuild(r) ==
  /\ At(r, "finish", "integration_rebuild_cleanup")
  /\ IF base # st[r].intBase /\ IsAncestor(st[r].intBase, base)
     THEN GoTo(r, "rebuild") /\ UNCHANGED <<st, world>>
     ELSE Refuse(r)

(* _cleanup_generated_integration, then the save that forgets the build.   *)
RemoveBuild(r) ==
  /\ pc[r] = "rebuild"
  /\ \/ /\ integ[r].wt
        /\ SetInteg(r, [integ[r] EXCEPT !.wt = FALSE])
     \/ /\ ~integ[r].wt /\ integ[r].branch
        /\ SetInteg(r, NoInteg)
  /\ UNCHANGED <<st, pc, budget>>

SaveRebuild(r) ==
  /\ pc[r] = "rebuild"
  /\ ~integ[r].wt /\ ~integ[r].branch
  /\ st' = [st EXCEPT ![r] = [NoBuild(@) EXCEPT !.stage = "audit_complete"]]
  /\ GoTo(r, "finish")
  /\ UNCHANGED world

----------------------------------------------------------------------------
(* Archive commit.                                                         *)

ArchiveHandoff(r) ==
  /\ At(r, "finish", "base_fast_forwarded")
  /\ IF /\ CleanFeature(r) /\ Feat(r).head = st[r].auditHead
        /\ integ[r].wt /\ integ[r].tip = st[r].intCommit
     THEN /\ Transition(r, "handoff_archived", st[r], "archived")
          /\ SetArchive(r, [archive[r] EXCEPT !.dirty = TRUE])
     ELSE Refuse(r)

WriteCandidate(r) ==
  /\ pc[r] = "archived"
  /\ SetArchive(r, [archive[r] EXCEPT !.cand = TRUE])
  /\ GoTo(r, "finish")
  /\ UNCHANGED st

(* _commit_archive: commit, unless HEAD is that commit already.            *)
CommitArchive(r) ==
  /\ At(r, "finish", "handoff_archived")
  /\ ~Tops(base, "archive", r)
  /\ IF archive[r].cand /\ archive[r].dirty
     THEN /\ base' = Append(base, CommitOf("archive", r, 0))
          /\ archive' = [archive EXCEPT ![r].dirty = FALSE]
          /\ UNCHANGED <<st, pc, name, fresh, feat, integ, budget>>
     ELSE Refuse(r)

(* _archive_receipt: its parent must be the integration commit.            *)
\* Mutant: the parent of the archive commit is not looked at.
SaveArchiveAnywhere(r) ==
  /\ At(r, "finish", "handoff_archived")
  /\ Tops(base, "archive", r)
  /\ Advance(r, "artifacts_committed",
             [st[r] EXCEPT !.archiveCommit = base], "finish")
SaveArchive(r) ==
  /\ At(r, "finish", "handoff_archived")
  /\ Tops(base, "archive", r)
  /\ IF Front(base) = st[r].intCommit
     THEN Advance(r, "artifacts_committed",
                  [st[r] EXCEPT !.archiveCommit = base], "finish")
     ELSE Refuse(r)

----------------------------------------------------------------------------
(* _cleanup_stage: what was created is removed, one saved stage at a time. *)

Retain(r) ==
  /\ At(r, "finish", "artifacts_committed")
  /\ st[r].keep
  /\ Advance(r, "worktrees_retained", st[r], "finish")

RemoveIntegrationWorktree(r) ==
  /\ At(r, "finish", "artifacts_committed")
  /\ ~st[r].keep
  /\ IF integ[r].wt
     THEN /\ SetInteg(r, [integ[r] EXCEPT !.wt = FALSE])
          /\ UNCHANGED <<st, pc, budget>>
     ELSE Advance(r, "integration_worktree_removed", st[r], "finish")

(* Before either removal the branch must still end in the audited head.    *)
\* Mutant: the branch is removed whatever it holds by now.
BranchAsItIs(r) == TRUE
BranchUnchanged(r) == Feat(r).branch => Feat(r).head = st[r].auditHead

RemoveFeatureWorktree(r) ==
  /\ At(r, "finish", "integration_worktree_removed")
  /\ IF ~BranchUnchanged(r)
     THEN Refuse(r)
     ELSE IF Feat(r).wt
     THEN /\ SetFeat(r, [Feat(r) EXCEPT !.wt = FALSE])
          /\ UNCHANGED <<st, pc, budget>>
     ELSE Advance(r, "feature_worktree_removed", st[r], "finish")

PruneWorktrees(r) ==
  /\ At(r, "finish", "feature_worktree_removed")
  /\ Advance(r, "worktrees_pruned", st[r], "finish")

DeleteIntegrationBranch(r) ==
  /\ At(r, "finish", "worktrees_pruned")
  /\ IF integ[r].branch
     THEN /\ SetInteg(r, NoInteg)
          /\ UNCHANGED <<st, pc, budget>>
     ELSE Advance(r, "integration_branch_removed", st[r], "finish")

DeleteFeatureBranch(r) ==
  /\ At(r, "finish", "integration_branch_removed")
  /\ IF ~Feat(r).branch
     THEN Advance(r, "feature_branch_removed", st[r], "finish")
     ELSE IF BranchUnchanged(r)
     THEN /\ SetFeat(r, [Feat(r) EXCEPT !.branch = FALSE])
          /\ UNCHANGED <<st, pc, budget>>
     ELSE Refuse(r)

CleanupDone(r) ==
  /\ At(r, "finish", "feature_branch_removed")
  /\ Advance(r, "cleanup_complete", st[r], "finish")

(* _finalize: the completed state is committed in the archive.  A commit   *)
(* with nothing new in it fails.                                           *)
FinalStages == {"cleanup_complete", "worktrees_retained"}

CommitFinal(r) ==
  /\ pc[r] = "finish"
  /\ Stage(r) \in FinalStages
  /\ ~Tops(base, "finalize", r)
  /\ IF ~archive[r].final
     THEN /\ base' = Append(base, CommitOf("finalize", r, 0))
          /\ archive' = [archive EXCEPT ![r].final = TRUE]
          /\ UNCHANGED <<st, pc, name, fresh, feat, integ, budget>>
     ELSE Refuse(r)

SaveFinal(r) ==
  /\ pc[r] = "finish"
  /\ Stage(r) \in FinalStages
  /\ Tops(base, "finalize", r)
  /\ IF Front(base) = st[r].archiveCommit
     THEN Advance(r, "complete", [st[r] EXCEPT !.finalCommit = base], "done")
     ELSE Refuse(r)

----------------------------------------------------------------------------
(* The rest of the world: kills, and the owner of the repository.          *)

Kill(r) ==
  /\ pc[r] \notin {"none", "named", "down", "done"}
  /\ SpendFault
  /\ GoTo(r, "down")
  /\ UNCHANGED <<name, st, fresh, feat, integ, archive, base>>

OwnerCommits ==
  /\ SpendUser
  /\ base' = Append(base, CommitOf("user", NoRun, budget.user))
  /\ UNCHANGED <<name, st, pc, fresh, feat, integ, archive>>

OwnerAmends ==
  /\ SpendUser
  /\ Tops(base, "user", NoRun)
  /\ base' = Append(Front(base), CommitOf("user", NoRun, budget.user))
  /\ UNCHANGED <<name, st, pc, fresh, feat, integ, archive>>

OwnerCommitsToFeature(n) ==
  /\ SpendUser
  /\ feat[n].wt /\ feat[n].head < MaxHead
  /\ feat' = [feat EXCEPT ![n].head = @ + 1]
  /\ UNCHANGED <<name, st, pc, fresh, integ, archive, base>>

----------------------------------------------------------------------------
Step(r) ==
  \/ Reserve(r) \/ CreateState(r)
  \/ AddFeatureWorktree(r) \/ SaveFeatureWorktree(r)
  \/ CopyPlan(r) \/ StartImplementation(r) \/ LaunchImplementation(r)
  \/ RunFeatureHarness(r) \/ AcceptImplementation(r)
  \/ StartAudit(r) \/ LaunchAudit(r) \/ AcceptAudit(r) \/ CheckAudit(r)
  \/ LeaveFeature(r) \/ ArchiveStop(r) \/ CommitStop(r) \/ SaveStop(r)
  \/ AllocateIntegration(r)
  \/ AddIntegrationWorktree(r) \/ SaveIntegrationWorktree(r)
  \/ Merge(r) \/ SaveMerge(r) \/ StartResolution(r) \/ StartPostAudit(r)
  \/ LaunchInIntegration(r) \/ RunIntegrationHarness(r)
  \/ AcceptInIntegration(r) \/ StageIntegration(r)
  \/ CommitIntegration(r) \/ SaveIntegrationCommit(r)
  \/ CheckFastForward(r) \/ FastForward(r) \/ SaveFastForward(r)
  \/ CheckRebuild(r) \/ RemoveBuild(r) \/ SaveRebuild(r)
  \/ ArchiveHandoff(r) \/ WriteCandidate(r)
  \/ CommitArchive(r) \/ SaveArchive(r)
  \/ Retain(r) \/ RemoveIntegrationWorktree(r) \/ RemoveFeatureWorktree(r)
  \/ PruneWorktrees(r) \/ DeleteIntegrationBranch(r)
  \/ DeleteFeatureBranch(r) \/ CleanupDone(r)
  \/ CommitFinal(r) \/ SaveFinal(r)

Next ==
  \/ \E r \in Runs :
       ChooseNames(r) \/ Step(r) \/ Resume(r) \/ ResumeStopped(r) \/ Kill(r)
  \/ OwnerCommits \/ OwnerAmends
  \/ \E n \in Names : OwnerCommitsToFeature(n)

(* A process that was started goes on, and a run that went down is resumed *)
(* as long as it can be: the flow prints the command for it.               *)
Spec == Init /\ [][Next]_vars
FairSpec == Spec /\ \A r \in Runs : WF_vars(Step(r)) /\ WF_vars(Resume(r))

----------------------------------------------------------------------------
(* Every variable has its type; a run that was audited has a head to land. *)
TypeOK ==
  /\ name \in [Runs -> Names \cup {None}]
  /\ st \in [Runs -> State \cup {None}]
  /\ pc \in [Runs -> {"none", "named", "reserved", "alloc", "feature",
       "harness", "returned", "audited", "stopping", "stopped", "finish",
       "merged", "ff", "ffd", "rebuild", "archived", "down", "done"}]
  /\ fresh \in [Runs -> BOOLEAN]
  /\ feat \in [Names -> Feature]
  /\ integ \in [Runs -> Integration]
  /\ archive \in [Runs -> [cand : BOOLEAN, dirty : BOOLEAN, final : BOOLEAN]]
  /\ base \in History
  /\ budget \in [fault : 0..FaultMax, user : 0..UserMax]
  /\ \A r \in Runs : Stage(r) = "audit_complete" => st[r].auditHead > 0

(* What the saved stage claims is what git holds, whatever happened to the *)
(* processes: from base_fast_forwarded on the integration commit is in the *)
(* history of the base, built on the recorded base from the audited head;  *)
(* the archive commit is its child and the final commit the child of that. *)
(* A completed run has removed what it created unless it was to keep it.   *)
ReceiptsHold ==
  \A r \in Runs : st[r] # None =>
    /\ Stage(r) \in RecordStages \cup
         {"base_fast_forwarded", "handoff_archived", "complete"} =>
         /\ IsPrefix(st[r].intCommit, base)
         /\ Last(st[r].intCommit) =
              CommitOf("integration", r, st[r].auditHead)
         /\ Front(st[r].intCommit) = st[r].intBase
    /\ Stage(r) \in RecordStages \cup {"complete"} =>
         /\ IsPrefix(st[r].archiveCommit, base)
         /\ Front(st[r].archiveCommit) = st[r].intCommit
    /\ Stage(r) = "complete" =>
         /\ IsPrefix(st[r].finalCommit, base)
         /\ Front(st[r].finalCommit) = st[r].archiveCommit
         /\ Feat(r).wt = st[r].keep /\ Feat(r).branch = st[r].keep
         /\ integ[r].wt = st[r].keep /\ integ[r].branch = st[r].keep

(* No commit on a feature branch is lost: the branch is there, or its head *)
(* has landed.  The branch is deleted by force, and the owner may commit   *)
(* to it between any two steps of the run.                                 *)
NoWorkLost ==
  \A r \in Runs : st[r] # None /\ Feat(r).head > 0 =>
    \/ Feat(r).branch
    \/ HasLanded(base, r, Feat(r).head)

(* What lands is what the run recorded as audited: the step that puts an   *)
(* integration commit on the base only extends the base, the commit holds  *)
(* the head of the recorded audit, and that audit left its summary,        *)
(* although the owner and other runs move both branches in the meantime.   *)
(* A head that is merged (no-ff) has not landed before.                    *)
LandsAudited ==
  [][\A r \in Runs :
       base' # base /\ Tops(base', "integration", r) =>
         /\ Front(base') = base
         /\ Last(base').of = st[r].auditHead
         /\ Feat(r).audit
         /\ st[r].mode = "no-ff" => ~HasLanded(base, r, Last(base').of)]_vars

(* The runs whose feature branch is gone although it once had work.        *)
Freed == {r \in Runs : name[r] # None /\ Feat(r).head > 0 /\ ~Feat(r).branch}

L == INSTANCE Landing WITH freed <- Freed

(* The flow implements the abstract landing of work: in particular no head *)
(* lands twice in a row, also when a run is killed between the fast-forward*)
(* and the save of its receipt and builds its commit again.                *)
ImplementsLanding == L!Spec

(* States no resume leads out of.  The windows a kill must not fall in, and*)
(* a merge that brings nothing (or would, if it was made):                 *)
Stranded(r) ==
  \/ pc[r] = "down" /\ Stage(r) = "none"
  \/ pc[r] = "down" /\ Stage(r) = "integration_allocated" /\ ~integ[r].wt
  \/ /\ pc[r] # "merged" /\ Stage(r) = "integration_worktree_created"
     /\ integ[r].tree # "clean"
  \/ /\ pc[r] # "archived" /\ Stage(r) = "handoff_archived" /\ ~archive[r].cand
  \/ /\ Stage(r) \in FeatureStages /\ st[r].mode = "stop" /\ ~fresh[r]
  \/ /\ Stage(r) \in {"integration_committed", "integration_rebuild_cleanup",
          "audit_complete"}
     /\ pc[r] # "ffd" /\ Contained(r, base)
  \/ /\ Stage(r) \in {"integration_allocated", "integration_worktree_created"}
     /\ Contained(r, st[r].intBase)
  \/ Stage(r) = "integration_merge_applied" /\ integ[r].tree = "empty"

(* a conflict, which has no way out of post_conflict_audit_complete:       *)
Conflicted(r) == Stage(r) \in ConflictStages

(* a base somebody else moved after the fast-forward, or rewrote before:   *)
Overtaken(r) ==
  \/ /\ Stage(r) \in {"base_fast_forwarded", "handoff_archived"}
     /\ base \notin {st[r].intCommit,
          Append(st[r].intCommit, CommitOf("archive", r, 0))}
  \/ /\ Stage(r) \in RecordStages
     /\ base \notin {st[r].archiveCommit,
          Append(st[r].archiveCommit, CommitOf("finalize", r, 0))}
  \/ /\ Stage(r) \in BuildStages \cup {"integration_rebuild_cleanup"}
     /\ ~IsPrefix(st[r].intBase, base)

(* a feature branch the owner added to before the save that follows its    *)
(* creation, or after its integration was started.                         *)
Outdated(r) ==
  /\ Stage(r) \in BuildStages \cup RemovalStages \cup
       {"feature_allocated", "base_fast_forwarded", "artifacts_committed"}
  /\ Stage(r) = "artifacts_committed" => ~st[r].keep
  /\ Feat(r).branch
  /\ Feat(r).head # st[r].auditHead

Stuck(r) == Stranded(r) \/ Conflicted(r) \/ Overtaken(r) \/ Outdated(r)

(* Every run that was started gets to its end (complete, or stopped when   *)
(* asked to stop) if its operator keeps resuming it, unless it gets stuck  *)
(* in one of the ways above: no other kill, failure or concurrent change   *)
(* makes a resumed run fail for ever.                                      *)
RunsFinish ==
  \A r \in Runs :
    pc[r] = "reserved" ~>
      \/ Stage(r) = "complete"
      \/ Stage(r) = "stopped_before_merge" /\ pc[r] = "down"
      \/ Stuck(r)

(* And each of those ways is one for good: nothing but the owner's own     *)
(* commits, or the work of another run, gets a stuck run going again.      *)
StuckForGood ==
  [][\A r \in Runs :
       /\ Stuck(r) /\ budget'.user = budget.user
       /\ \A q \in Runs \ {r} : base' # base => ~Tops(base', "integration", q)
       => Stuck(r)']_vars
=============================================================================
