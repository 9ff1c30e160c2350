---------------------------- MODULE LandingProofs ----------------------------
(***************************************************************************)
(* Proofs that WorktreeFlow implements Landing, for any number of runs, any*)
(* configurations and any number of kills and steps of the owner, as long  *)
(* as no two runs choose one name: each step of the flow lands one head, a *)
(* second time only over other work, commits a record, gives up a branch   *)
(* whose work has landed, is the owner's, or is invisible to the owner.    *)
(***************************************************************************)
EXTENDS WorktreeFlowProofs

----------------------------------------------------------------------------
(* What each step changes of the base, the names and the features.         *)

Quiet == UNCHANGED <<name, feat, base>>

\* A step that only saves a state, or that is refused, is quiet.
LEMMA QuietShapes ==
  ASSUME NEW r \in Runs
  PROVE  /\ Refuse(r) => Quiet
         /\ \A stage, s, p : Advance(r, stage, s, p) => Quiet
         /\ \A g : SetInteg(r, g) => Quiet
         /\ \A a : SetArchive(r, a) => Quiet
BY DEF Refuse, Advance, SetInteg, SetArchive, world, Quiet

\* The steps of a run that commit nothing and leave its feature branch alone.
LEMMA QuietSteps ==
  ASSUME NEW r \in Runs,
         \/ Reserve(r) \/ CreateState(r) \/ Resume(r) \/ ResumeStopped(r)
         \/ Kill(r) \/ SaveFeatureWorktree(r)
         \/ CopyPlan(r) \/ StartImplementation(r) \/ AcceptImplementation(r)
         \/ StartAudit(r) \/ AcceptAudit(r) \/ CheckAudit(r) \/ LeaveFeature(r)
         \/ ArchiveStop(r) \/ SaveStop(r) \/ AllocateIntegration(r)
         \/ AddIntegrationWorktree(r) \/ SaveIntegrationWorktree(r)
         \/ Merge(r) \/ SaveMerge(r) \/ StartResolution(r) \/ StartPostAudit(r)
         \/ LaunchInIntegration(r) \/ RunIntegrationHarness(r)
         \/ AcceptInIntegration(r) \/ StageIntegration(r)
         \/ CommitIntegration(r) \/ SaveIntegrationCommit(r)
         \/ CheckFastForward(r) \/ SaveFastForward(r) \/ CheckRebuild(r)
         \/ RemoveBuild(r) \/ SaveRebuild(r) \/ ArchiveHandoff(r)
         \/ WriteCandidate(r) \/ SaveArchive(r) \/ Retain(r)
         \/ RemoveIntegrationWorktree(r) \/ PruneWorktrees(r)
         \/ DeleteIntegrationBranch(r) \/ CleanupDone(r) \/ SaveFinal(r)
  PROVE  Quiet
<1> USE QuietShapes
<1>1. CASE \/ Reserve(r) \/ CreateState(r) \/ Resume(r) \/ ResumeStopped(r)
           \/ Kill(r)
  BY <1>1 DEF Reserve, CreateState, Resume, ResumeStopped, Kill, world, Quiet
<1>2. CASE \/ SaveFeatureWorktree(r) \/ CopyPlan(r) \/ StartImplementation(r)
           \/ AcceptImplementation(r) \/ StartAudit(r) \/ AcceptAudit(r)
  BY <1>2 DEF SaveFeatureWorktree, CopyPlan, StartImplementation,
     AcceptImplementation, StartAudit, AcceptAudit
<1>3. CASE \/ CheckAudit(r) \/ LeaveFeature(r) \/ ArchiveStop(r) \/ SaveStop(r)
           \/ AllocateIntegration(r)
  BY <1>3 DEF CheckAudit, LeaveFeature, ArchiveStop, SaveStop,
     AllocateIntegration, world, Quiet
<1>4. CASE \/ AddIntegrationWorktree(r) \/ SaveIntegrationWorktree(r)
           \/ Merge(r) \/ SaveMerge(r) \/ StartResolution(r)
           \/ StartPostAudit(r)
  BY <1>4 DEF AddIntegrationWorktree, SaveIntegrationWorktree, Merge, SaveMerge,
     StartResolution, StartPostAudit
<1>5. CASE \/ LaunchInIntegration(r) \/ RunIntegrationHarness(r)
           \/ AcceptInIntegration(r) \/ StageIntegration(r)
           \/ CommitIntegration(r) \/ SaveIntegrationCommit(r)
  BY <1>5 DEF LaunchInIntegration, RunIntegrationHarness, AcceptInIntegration,
     StageIntegration, CommitIntegration, SaveIntegrationCommit
<1>6. CASE \/ CheckFastForward(r) \/ SaveFastForward(r) \/ CheckRebuild(r)
           \/ RemoveBuild(r) \/ SaveRebuild(r)
  BY <1>6 DEF CheckFastForward, SaveFastForward, CheckRebuild, RemoveBuild,
     SaveRebuild, world, Quiet
<1>7. CASE ArchiveHandoff(r) \/ WriteCandidate(r) \/ SaveArchive(r)
  BY <1>7 DEF ArchiveHandoff, WriteCandidate, SaveArchive
<1>8. CASE \/ Retain(r) \/ RemoveIntegrationWorktree(r) \/ PruneWorktrees(r)
           \/ DeleteIntegrationBranch(r) \/ CleanupDone(r) \/ SaveFinal(r)
  BY <1>8 DEF Retain, RemoveIntegrationWorktree, PruneWorktrees,
     DeleteIntegrationBranch, CleanupDone, SaveFinal
<1> QED BY <1>1, <1>2, <1>3, <1>4, <1>5, <1>6, <1>7, <1>8

\* The steps that change a feature worktree or branch.
FeatureStep(r) ==
  \/ AddFeatureWorktree(r) \/ LaunchImplementation(r) \/ LaunchAudit(r)
  \/ RunFeatureHarness(r) \/ RemoveFeatureWorktree(r) \/ DeleteFeatureBranch(r)

\* They commit nothing.
LEMMA FeatureSteps ==
  ASSUME NEW r \in Runs, FeatureStep(r)
  PROVE  UNCHANGED <<name, base>>
<1>1. /\ Refuse(r) => UNCHANGED <<name, base>>
      /\ \A f : SetFeat(r, f) => UNCHANGED <<name, base>>
      /\ \A stage, s, p : Advance(r, stage, s, p) => UNCHANGED <<name, base>>
  BY DEF Refuse, SetFeat, Advance, world
<1> QED
  BY <1>1 DEF FeatureStep, AddFeatureWorktree, LaunchImplementation,
     LaunchAudit, RunFeatureHarness, RemoveFeatureWorktree, DeleteFeatureBranch

\* The flow's own records.
LEMMA RecordSteps ==
  ASSUME NEW r \in Runs, CommitStop(r) \/ CommitArchive(r) \/ CommitFinal(r)
  PROVE  \/ Quiet
         \/ /\ \E kind \in {"archive", "stop", "finalize"} :
                 base' = Append(base, CommitOf(kind, r, 0))
            /\ UNCHANGED <<name, feat>>
BY QuietShapes DEF CommitStop, CommitArchive, CommitFinal

\* The fast-forward.
LEMMA LandStep ==
  ASSUME IInv, NEW r \in Runs, FastForward(r)
  PROVE  \/ Quiet
         \/ /\ base' = Append(base, CommitOf("integration", r, st[r].auditHead))
            /\ HasLanded(base, r, st[r].auditHead) =>
                 st[r].mode = "squash" /\ Overlaid(base, r, st[r].auditHead)
            /\ st[r].auditHead \in 1..MaxHead
            /\ Feat(r).audit
            /\ UNCHANGED <<name, feat>>
<1>1. pc[r] = "ff" /\ Stage(r) # "none"
  BY Started DEF FastForward
<1>2. CASE Refuse(r)
  BY <1>2, QuietShapes
<1>3. CASE ~Refuse(r)
  <2> DEFINE s == st[r]
             c == Integrated(r, s)
  <2>1. /\ IsPrefix(base, s.intCommit) /\ base' = s.intCommit
        /\ UNCHANGED <<name, feat>>
    BY <1>3 DEF FastForward, IsAncestor
  <2>2. /\ s \in State /\ base \in History
        /\ Fits(r, s, "ff", Feat(r), integ[r], base)
    BY <1>1, Known
  <2> HIDE DEF s
  <2>3. s.stage = "integration_committed"
    BY <2>2 DEF Fits, LabelFits
  <2>4. /\ s.intBase \in History /\ s.intFeature = s.auditHead
        /\ s.auditHead > 0 /\ Feat(r).audit
    BY <2>2, <2>3 DEF Fits, HeadFits, IntegratedStages, BuildStages,
       AuditedStages, Stages
  <2>5. /\ s.intCommit \in History /\ s.intCommit = Append(s.intBase, c)
        /\ MayLand(r, s)
    BY <2>2, <2>3 DEF Fits, BuildFits
  <2>6. Len(s.intBase) <= Len(base)
    BY <2>2 DEF Fits, BaseFits
  <2>7. c \in Commit /\ s.auditHead \in 1..MaxHead
    BY <2>2, <2>4, BoundsAssumption, CommitType DEF Integrated, Kinds, State
  <2> HIDE DEF c
  <2>8. /\ Len(base) \in Nat /\ Len(s.intBase) \in Nat
        /\ Len(Append(s.intBase, c)) = Len(s.intBase) + 1
        /\ \A i \in 1..Len(s.intBase) : Append(s.intBase, c)[i] = s.intBase[i]
    BY <2>2, <2>4, <2>7, AppendCommit, LenProperties DEF History
  <2>9. /\ Len(base) <= Len(s.intCommit)
        /\ \A i \in 1..Len(base) : base[i] = s.intCommit[i]
    BY <2>1, <2>2, <2>5, PrefixElements
  <2>10. CASE Len(base) = Len(s.intBase)
    <3>1. \A i \in 1..Len(base) : base[i] = s.intBase[i]
      BY <2>5, <2>8, <2>9, <2>10
    <3>2. base = s.intBase
      BY <2>2, <2>4, <2>10, <3>1, SeqEqual DEF History
    <3> QED BY <2>1, <2>4, <2>5, <2>7, <3>2 DEF c, s, Integrated, MayLand
  <2>11. CASE Len(base) # Len(s.intBase)
    <3>1. Len(base) = Len(s.intCommit)
      BY <2>5, <2>6, <2>8, <2>9, <2>11
    <3>2. base = s.intCommit
      BY <2>2, <2>5, <2>9, <3>1, SeqEqual DEF History
    <3> QED BY <2>1, <3>2 DEF Quiet
  <2> QED BY <2>10, <2>11
<1> QED BY <1>2, <1>3

\* Every step is of one of these kinds.
LEMMA StepKinds ==
  ASSUME IInv, Next
  PROVE  \/ Quiet
         \/ \E r \in Runs : ChooseNames(r)
         \/ \E r \in Runs : FeatureStep(r)
         \/ \E r \in Runs : CommitStop(r) \/ CommitArchive(r) \/ CommitFinal(r)
         \/ \E r \in Runs : FastForward(r)
         \/ OwnerCommits \/ OwnerAmends
         \/ \E n \in Names : OwnerCommitsToFeature(n)
<1>1. ASSUME NEW r \in Runs, Step(r)
      PROVE  \/ Quiet \/ FeatureStep(r) \/ FastForward(r)
             \/ CommitStop(r) \/ CommitArchive(r) \/ CommitFinal(r)
  BY <1>1, QuietSteps DEF Step, FeatureStep
<1>2. ASSUME NEW r \in Runs, Resume(r) \/ ResumeStopped(r) \/ Kill(r)
      PROVE  Quiet
  BY <1>2, QuietSteps
<1> QED BY <1>1, <1>2 DEF Next

----------------------------------------------------------------------------
(* What each step changes of the branches that are given up.               *)

GivenUp(f) == f.head > 0 /\ ~f.branch

\* A feature changes, and is given up as little or as much as before.
LEMMA FreedSame ==
  ASSUME IInv, NEW n \in Names, NEW f, UNCHANGED name,
         feat' = [feat EXCEPT ![n] = f], GivenUp(f) <=> GivenUp(feat[n])
  PROVE  Freed' = Freed
<1>1. ASSUME NEW m \in Names PROVE GivenUp(feat'[m]) <=> GivenUp(feat[m])
  BY <1>1 DEF IInv, TypeOK
<1>2. \A r \in Runs : name[r] # None => name[r] \in Names
  BY DEF IInv, TypeOK
<1> QED BY <1>1, <1>2 DEF Freed, Feat, GivenUp

\* A run that chooses a name chooses one whose feature nobody has touched.
LEMMA ChoiceFrees ==
  ASSUME IInv, DistinctNames, DistinctNames', NEW r \in Runs, ChooseNames(r)
  PROVE  base' = base /\ Freed' = Freed
<1>1. pc[r] = "none" /\ name[r] = None /\ UNCHANGED <<feat, base>>
  BY DEF ChooseNames, IInv, NamesFit
<1>2. PICK n \in Names : name' = [name EXCEPT ![r] = n]
  BY ChosenName
<1>3. /\ name'[r] = n
      /\ \A q \in Runs : q # r => name'[q] = name[q]
  BY <1>2 DEF IInv, TypeOK
<1>4. \A q \in Runs : name[q] # n
  BY <1>1, <1>3, Apart DEF DistinctNames
<1>5. feat[n] = NoFeature
  BY <1>4 DEF IInv, NamesFit
<1>6. ~(feat[n].head > 0)
  BY <1>5 DEF NoFeature
<1>7. ASSUME NEW q \in Runs
      PROVE  /\ name'[q] # None /\ feat[name'[q]].head > 0
                  /\ ~feat[name'[q]].branch
             <=> /\ name[q] # None /\ feat[name[q]].head > 0
                 /\ ~feat[name[q]].branch
  <2>1. CASE q = r
    BY <1>1, <1>3, <1>6, <2>1
  <2>2. CASE q # r
    BY <1>3, <2>2
  <2> QED BY <2>1, <2>2
<1> QED BY <1>1, <1>7 DEF Freed, Feat

\* A quiet step gives up nothing.
LEMMA QuietFrees == Quiet => base' = base /\ Freed' = Freed
BY DEF Quiet, Freed, Feat

\* A step on a feature gives up no branch, but for the deletion of one whose
\* head has landed.
LEMMA FeatureFrees ==
  ASSUME IInv, DistinctNames, NEW r \in Runs, FeatureStep(r)
  PROVE  \/ Freed' = Freed
         \/ /\ Freed' = Freed \cup {r} /\ r \notin Freed
            /\ \E h \in 1..MaxHead : HasLanded(base, r, h)
<1> DEFINE f == Feat(r)
           s == st[r]
<1>1. Stage(r) # "none"
  BY Started DEF FeatureStep, AddFeatureWorktree, LaunchImplementation,
     LaunchAudit, RunFeatureHarness, RemoveFeatureWorktree,
     DeleteFeatureBranch, At
<1>2. /\ s \in State /\ Stage(r) = s.stage /\ name[r] \in Names
      /\ name[r] # None
      /\ f \in Feature /\ feat[name[r]] = f
      /\ Fits(r, s, pc[r], f, integ[r], base)
  BY <1>1, Known, Apart DEF Feat
<1>3. ASSUME NEW g, SetFeat(r, g), GivenUp(g) <=> GivenUp(f)
      PROVE  Freed' = Freed
  BY <1>2, <1>3, FreedSame DEF SetFeat
<1>4. /\ Refuse(r) => Freed' = Freed
      /\ \A stage, t, p : Advance(r, stage, t, p) => Freed' = Freed
  BY QuietShapes, QuietFrees
<1>5. /\ f.wt \in BOOLEAN /\ f.branch \in BOOLEAN /\ f.head \in 0..MaxHead
      /\ f.wt => f.branch
  BY <1>2 DEF Fits, FeatureFits, Feature
<1>6. ASSUME AddFeatureWorktree(r)
      PROVE  Freed' = Freed
  <2>1. CASE f.branch
    BY <1>4, <1>6, <2>1 DEF AddFeatureWorktree
  <2>2. CASE ~f.branch
    <3> DEFINE g == [NoFeature EXCEPT !.wt = TRUE, !.branch = TRUE,
                                      !.from = st[r].featBase]
    <3>1. SetFeat(r, g) /\ s.stage = "feature_allocated"
      BY <1>2, <1>6, <2>2 DEF AddFeatureWorktree, At
    <3>2. f.head = 0
      BY <1>2, <2>2, <3>1 DEF Fits, FeatureFits
    <3>3. g.branch
      BY DEF NoFeature
    <3> HIDE DEF g
    <3> QED BY <1>3, <3>1, <3>2, <3>3 DEF GivenUp
  <2> QED BY <2>1, <2>2
<1>7. ASSUME LaunchImplementation(r) \/ LaunchAudit(r)
      PROVE  Freed' = Freed
  <2> DEFINE g == RemovePhaseOutputs(r)
  <2>1. SetFeat(r, g)
    BY <1>7 DEF LaunchImplementation, LaunchAudit
  <2>2. g.branch = f.branch /\ g.head = f.head
    BY <1>2 DEF RemovePhaseOutputs, Feature
  <2> HIDE DEF g, f
  <2> QED BY <1>3, <2>1, <2>2 DEF GivenUp
<1>8. ASSUME RunFeatureHarness(r)
      PROVE  Freed' = Freed
  <2>1. s.stage \in {"implementation_started", "audit_started"}
    BY <1>2, <1>8 DEF RunFeatureHarness
  <2>2. f.branch
    BY <1>2, <2>1 DEF Fits, FeatureFits
  <2>3. PICK outcome \in HarnessOutcomes, more \in 0..1 :
          SetFeat(r, [Feat(r) EXCEPT
            !.head = Feat(r).head + more,
            !.dirty = outcome = "dirty",
            !.impl = @ \/ (outcome # "no summary"
                             /\ Stage(r) = "implementation_started"),
            !.audit = @ \/ (outcome # "no summary"
                              /\ Stage(r) = "audit_started")])
    BY <1>8 DEF RunFeatureHarness
  <2> DEFINE g == [Feat(r) EXCEPT
            !.head = Feat(r).head + more,
            !.dirty = outcome = "dirty",
            !.impl = @ \/ (outcome # "no summary"
                             /\ Stage(r) = "implementation_started"),
            !.audit = @ \/ (outcome # "no summary"
                              /\ Stage(r) = "audit_started")]
  <2>4. SetFeat(r, g) /\ g.branch = f.branch
    BY <1>2, <2>3 DEF Feature
  <2> HIDE DEF g, f
  <2> QED BY <1>3, <2>2, <2>4 DEF GivenUp
<1>9. ASSUME RemoveFeatureWorktree(r)
      PROVE  Freed' = Freed
  <2> DEFINE g == [Feat(r) EXCEPT !.wt = FALSE]
  <2>1. SetFeat(r, g) \/ Refuse(r)
          \/ Advance(r, "feature_worktree_removed", st[r], "finish")
    BY <1>9 DEF RemoveFeatureWorktree
  <2>2. g.branch = f.branch /\ g.head = f.head
    BY <1>2 DEF Feature
  <2> HIDE DEF g, f
  <2> QED BY <1>3, <1>4, <2>1, <2>2 DEF GivenUp
<1>10. ASSUME DeleteFeatureBranch(r)
       PROVE  \/ Freed' = Freed
              \/ /\ Freed' = Freed \cup {r} /\ r \notin Freed
                 /\ \E h \in 1..MaxHead : HasLanded(base, r, h)
  <2> DEFINE g == [Feat(r) EXCEPT !.branch = FALSE]
  <2>1. CASE ~f.branch \/ Refuse(r)
    BY <1>4, <1>10, <2>1 DEF DeleteFeatureBranch
  <2>2. CASE f.branch /\ ~Refuse(r)
    <3>1. /\ SetFeat(r, g) /\ f.head = s.auditHead
          /\ s.stage = "integration_branch_removed"
      BY <1>2, <1>10, <2>2 DEF DeleteFeatureBranch, BranchUnchanged, At
    <3>2. ~g.branch /\ g.head = f.head
      BY <1>2 DEF Feature
    <3>3. /\ f.head > 0 /\ s.intFeature = s.auditHead /\ s.intBase \in History
          /\ s.intCommit = Append(s.intBase, Integrated(r, s))
          /\ IsPrefix(s.intCommit, base)
      BY <1>2, <3>1 DEF Fits, HeadFits, BuildFits, BaseFits, AuditedStages,
         IntegratedStages, LandedStages, RecordStages, RemovalStages, Stages
    <3>4. HasLanded(base, r, f.head) /\ f.head \in 1..MaxHead
      <4>1. base \in History
        BY <1>1, Known
      <4>2. /\ f.head \in Nat /\ f.head \in 1..MaxHead
            /\ Integrated(r, s) = CommitOf("integration", r, f.head)
        BY <1>5, <3>1, <3>3, BoundsAssumption DEF Integrated
      <4> HIDE DEF s, f
      <4> QED BY <3>3, <4>1, <4>2, PrefixLanded
    <3>5. /\ UNCHANGED name
          /\ \A m \in Names : feat'[m] = IF m = name[r] THEN g ELSE feat[m]
      BY <3>1 DEF SetFeat, IInv, TypeOK
    <3>6. \A q \in Runs : name[q] # None => name[q] \in Names
      BY DEF IInv, TypeOK
    <3> HIDE DEF g
    <3>7. ASSUME NEW q \in Runs
          PROVE  q \in Freed' <=> q \in Freed \/ q = r
      <4>1. CASE q = r
        BY <1>2, <3>2, <3>3, <3>5, <4>1 DEF Freed, Feat
      <4>2. CASE q # r
        BY <3>5, <3>6, <4>2 DEF Freed, Feat, DistinctNames
      <4> QED BY <4>1, <4>2
    <3>8. r \notin Freed
      BY <2>2 DEF Freed
    <3> QED BY <3>4, <3>7, <3>8 DEF Freed
  <2> QED BY <2>1, <2>2
<1> QED BY <1>6, <1>7, <1>8, <1>9, <1>10 DEF FeatureStep

----------------------------------------------------------------------------
(* The refinement: one step of Landing, or none.                           *)

\* The first states.
LEMMA LandingInit == Init => L!Init
<1> SUFFICES ASSUME Init PROVE Freed = {}
  BY DEF Init, L!Init
<1> QED BY DEF Init, Freed

\* Both say the same of a history.
LEMMA SameLanded ==
  ASSUME NEW b, NEW r, NEW h
  PROVE  /\ L!Landed(b, r, h) <=> HasLanded(b, r, h)
         /\ L!Overlaid(b, r, h) <=> Overlaid(b, r, h)
BY DEF L!Landed, HasLanded, L!Overlaid, Overlaid, CommitOf

\* The owner's number is one of those Landing allows.
LEMMA OwnerNumber ==
  ASSUME IInv, SpendUser
  PROVE  budget.user \in 1..UserMax
BY BoundsAssumption DEF IInv, TypeOK, SpendUser

\* Every step of the flow is a step of Landing, or leaves what it sees alone.
LEMMA LandingStep ==
  ASSUME IInv, DistinctNames, DistinctNames', [Next]_vars
  PROVE  L!Next \/ (base' = base /\ Freed' = Freed)
<1>1. ASSUME Quiet \/ UNCHANGED vars
      PROVE  base' = base /\ Freed' = Freed
  BY <1>1, QuietFrees DEF vars, Quiet
<1>2. ASSUME NEW r \in Runs, ChooseNames(r)
      PROVE  base' = base /\ Freed' = Freed
  BY <1>2, ChoiceFrees
<1>3. ASSUME NEW r \in Runs, FeatureStep(r)
      PROVE  L!Next \/ (base' = base /\ Freed' = Freed)
  <2>1. base' = base
    BY <1>3, FeatureSteps
  <2>2. ASSUME Freed' = Freed \cup {r}, r \notin Freed,
               NEW h \in 1..MaxHead, HasLanded(base, r, h)
        PROVE  L!Free(r)
    BY <2>1, <2>2, SameLanded DEF L!Free
  <2> QED BY <1>3, <2>1, <2>2, FeatureFrees DEF L!Next
<1>4. ASSUME UNCHANGED <<name, feat>>
      PROVE  Freed' = Freed
  BY <1>4 DEF Freed, Feat
<1>5. ASSUME NEW r \in Runs,
             CommitStop(r) \/ CommitArchive(r) \/ CommitFinal(r)
      PROVE  L!Next \/ (base' = base /\ Freed' = Freed)
  <2>1. ASSUME NEW kind \in {"archive", "stop", "finalize"},
               base' = Append(base, CommitOf(kind, r, 0)),
               UNCHANGED <<name, feat>>
        PROVE  L!Record(r, kind)
    BY <1>4, <2>1 DEF L!Record, CommitOf
  <2> QED BY <1>1, <1>5, <2>1, RecordSteps DEF L!Next
<1>6. ASSUME NEW r \in Runs, FastForward(r)
      PROVE  L!Next \/ (base' = base /\ Freed' = Freed)
  <2> DEFINE h == st[r].auditHead
  <2>1. ASSUME base' = Append(base, CommitOf("integration", r, h)),
               HasLanded(base, r, h) => Overlaid(base, r, h),
               h \in 1..MaxHead,
               UNCHANGED <<name, feat>>
        PROVE  L!Land(r, h) /\ h \in 1..MaxHead
    BY <1>4, <2>1, SameLanded DEF L!Land, CommitOf
  <2> QED BY <1>1, <1>6, <2>1, LandStep DEF L!Next
<1>7. ASSUME OwnerCommits \/ OwnerAmends
      PROVE  L!Next
  <2>1. budget.user \in 1..UserMax
    BY <1>7, OwnerNumber DEF OwnerCommits, OwnerAmends
  <2>2. UNCHANGED <<name, feat>>
    BY <1>7 DEF OwnerCommits, OwnerAmends
  <2>3. L!Owner(budget.user)
    BY <1>4, <1>7, <2>2 DEF OwnerCommits, OwnerAmends, L!Owner, CommitOf, Tops,
       L!Last, L!Front, Last, Front
  <2> QED BY <2>1, <2>3 DEF L!Next
<1>8. ASSUME NEW n \in Names, OwnerCommitsToFeature(n)
      PROVE  base' = base /\ Freed' = Freed
  <2> DEFINE g == [feat[n] EXCEPT !.head = @ + 1]
  <2>1. UNCHANGED <<name, base>> /\ feat' = [feat EXCEPT ![n] = g]
        /\ feat[n].wt /\ feat[n] \in Feature
    BY <1>8 DEF OwnerCommitsToFeature, IInv, TypeOK
  <2>2. feat[n].branch
    <3>1. CASE \E r \in Runs : name[r] = n
      <4>1. PICK r \in Runs : name[r] = n
        BY <3>1
      <4>2. Stage(r) # "none"
        <5>1. name[r] # None /\ Feat(r) # NoFeature
          BY <2>1, <4>1, Apart DEF Feat, NoFeature
        <5>2. st[r] # None
          BY <5>1 DEF IInv, NamesFit
        <5> QED BY <5>2, SavedStage
      <4>3. Fits(r, st[r], pc[r], feat[n], integ[r], base)
        BY <4>1, <4>2, Known DEF Feat
      <4> QED BY <2>1, <4>3 DEF Fits, FeatureFits
    <3>2. CASE ~\E r \in Runs : name[r] = n
      BY <2>1, <3>2 DEF IInv, NamesFit, NoFeature
    <3> QED BY <3>1, <3>2
  <2>3. g.branch = feat[n].branch
    BY <2>1 DEF Feature
  <2> HIDE DEF g
  <2> QED BY <2>1, <2>2, <2>3, FreedSame DEF GivenUp
<1> QED BY <1>1, <1>2, <1>3, <1>5, <1>6, <1>7, <1>8, StepKinds

(* As long as no two runs choose one name, the flow implements Landing: the*)
(* base branch only grows but for what the owner rewrites, a run lands one *)
(* head again only over other work that came on top of it, and the work of *)
(* a deleted branch is on the base.                                        *)
THEOREM LandingImplemented == Spec /\ []DistinctNames => ImplementsLanding
<1>1. IInv /\ DistinctNames /\ DistinctNames' /\ [Next]_vars
        => [L!Next]_<<base, Freed>>
  BY LandingStep
<1> QED BY <1>1, Fitting, LandingInit, PTL DEF Spec, ImplementsLanding, L!Spec

----------------------------------------------------------------------------
(* What lands is what was audited.                                         *)

\* The last commit of a history one commit is put on.
LEMMA TopOfAppend ==
  ASSUME NEW b \in History, NEW kind \in Kinds, NEW q \in Runs \cup {NoRun},
         NEW h \in Nat, NEW r,
         Tops(Append(b, CommitOf(kind, q, h)), "integration", r)
  PROVE  /\ kind = "integration" /\ q = r
         /\ Front(Append(b, CommitOf(kind, q, h))) = b
         /\ Last(Append(b, CommitOf(kind, q, h))).of = h
<1> DEFINE c == CommitOf(kind, q, h)
<1>1. c \in Commit /\ c.kind = kind /\ c.run = q /\ c.of = h
  BY CommitType
<1> HIDE DEF c
<1>2. Front(Append(b, c)) = b /\ Last(Append(b, c)) = c
  BY <1>1, AppendCommit
<1>3. Tops(Append(b, c), "integration", r)
  BY DEF c
<1> QED BY <1>1, <1>2, <1>3 DEF Tops, c

\* Only a fast-forward puts an integration commit on the base.
LEMMA AuditedStep ==
  ASSUME IInv, Next, NEW r \in Runs, base' # base,
         Tops(base', "integration", r)
  PROVE  /\ Front(base') = base
         /\ Last(base').of = st[r].auditHead
         /\ Feat(r).audit
         /\ st[r].mode = "no-ff" => ~HasLanded(base, r, Last(base').of)
<1>1. base \in History
  BY DEF IInv, TypeOK
<1>2. ASSUME NEW kind \in Kinds \ {"integration"},
             NEW q \in Runs \cup {NoRun}, NEW h \in Nat, NEW b \in History,
             base' = Append(b, CommitOf(kind, q, h))
      PROVE  FALSE
  BY <1>2, TopOfAppend
<1>3. ASSUME NEW q \in Runs, FastForward(q)
      PROVE  /\ Front(base') = base
             /\ Last(base').of = st[r].auditHead
             /\ Feat(r).audit
             /\ st[r].mode = "no-ff" => ~HasLanded(base, r, Last(base').of)
  <2> DEFINE h == st[q].auditHead
  <2>1. /\ base' = Append(base, CommitOf("integration", q, h))
        /\ h \in Nat /\ Feat(q).audit
        /\ HasLanded(base, q, h) => st[q].mode = "squash"
    BY <1>3, LandStep, BoundsAssumption DEF Quiet
  <2> HIDE DEF h
  <2>2. q = r /\ Front(base') = base /\ Last(base').of = h
    BY <1>1, <2>1, TopOfAppend DEF Kinds
  <2> QED BY <2>1, <2>2 DEF h
<1>4. ASSUME NEW q \in Runs,
             CommitStop(q) \/ CommitArchive(q) \/ CommitFinal(q)
      PROVE  FALSE
  <2>1. PICK kind \in {"archive", "stop", "finalize"} :
          base' = Append(base, CommitOf(kind, q, 0))
    BY <1>4, RecordSteps DEF Quiet
  <2> QED BY <1>1, <1>2, <2>1 DEF Kinds
<1>5. ASSUME OwnerCommits \/ OwnerAmends
      PROVE  FALSE
  <2>1. budget.user \in Nat
    BY BoundsAssumption DEF IInv, TypeOK
  <2>2. PICK b \in History :
          base' = Append(b, CommitOf("user", NoRun, budget.user))
    BY <1>1, <1>5, FrontLast DEF OwnerCommits, OwnerAmends, Tops
  <2> QED BY <1>2, <2>1, <2>2 DEF Kinds
<1>6. ASSUME \/ Quiet
             \/ \E q \in Runs : ChooseNames(q) \/ FeatureStep(q)
             \/ \E n \in Names : OwnerCommitsToFeature(n)
      PROVE  FALSE
  BY <1>6, FeatureSteps DEF Quiet, ChooseNames, OwnerCommitsToFeature
<1> QED BY <1>3, <1>4, <1>5, <1>6, StepKinds

(* Whatever the owner and the other runs move in between, a step that puts *)
(* an integration commit on the base only extends it, by the head the run  *)
(* recorded as audited, whose summary the audit left; and a head that is   *)
(* merged (no-ff) has not landed before.                                   *)
THEOREM AuditedLands == Spec /\ []DistinctNames => LandsAudited
<1>1. IInv /\ [Next]_vars =>
        [\A r \in Runs :
           base' # base /\ Tops(base', "integration", r) =>
             /\ Front(base') = base
             /\ Last(base').of = st[r].auditHead
             /\ Feat(r).audit
             /\ st[r].mode = "no-ff" => ~HasLanded(base, r, Last(base').of)]_vars
  BY AuditedStep
<1> QED BY <1>1, Fitting, PTL DEF Spec, LandsAudited

----------------------------------------------------------------------------
(* Runs that cannot choose one name need no assumption on what they choose.*)

NamesApart ==
  \A q, r \in Runs, m, n \in 1..MaxSuffix :
    NamesOf[q][m] = NamesOf[r][n] => q = r

\* A run has no name, or one of those it may take.
OwnNames ==
  /\ DOMAIN name = Runs
  /\ \A r \in Runs :
       name[r] = None \/ \E n \in 1..MaxSuffix : name[r] = NamesOf[r][n]

LEMMA NamesDiffer == NamesApart /\ OwnNames => DistinctNames
BY DEF NamesApart, OwnNames, DistinctNames

\* Every step but the choice of a name leaves the names.
LEMMA OwnNamesKept ==
  ASSUME IInv, OwnNames, [Next]_vars
  PROVE  OwnNames'
<1>1. ASSUME UNCHANGED name
      PROVE  OwnNames'
  BY <1>1 DEF OwnNames
<1>2. ASSUME NEW r \in Runs, ChooseNames(r)
      PROVE  OwnNames'
  <2>1. PICK n \in 1..MaxSuffix : name' = [name EXCEPT ![r] = NamesOf[r][n]]
    BY <1>2 DEF ChooseNames
  <2> QED BY <2>1 DEF OwnNames
<1>3. ASSUME NEW r \in Runs, \/ FeatureStep(r) \/ FastForward(r)
             \/ CommitStop(r) \/ CommitArchive(r) \/ CommitFinal(r)
      PROVE  UNCHANGED name
  BY <1>3, FeatureSteps, LandStep, RecordSteps DEF Quiet
<1>4. ASSUME \/ OwnerCommits \/ OwnerAmends
             \/ \E n \in Names : OwnerCommitsToFeature(n)
      PROVE  UNCHANGED name
  BY <1>4 DEF OwnerCommits, OwnerAmends, OwnerCommitsToFeature
<1>5. UNCHANGED vars => UNCHANGED name
  BY DEF vars
<1>6. Quiet => UNCHANGED name
  BY DEF Quiet
<1> QED BY <1>1, <1>2, <1>3, <1>4, <1>5, <1>6, StepKinds

\* So the invariant holds of them.
LEMMA ApartNamesFit ==
  ASSUME NamesApart
  PROVE  Spec => [](IInv /\ OwnNames)
<1>1. Init => OwnNames
  BY DEF Init, OwnNames
<1>2. IInv /\ OwnNames /\ [Next]_vars => (IInv /\ OwnNames)'
  <2> SUFFICES ASSUME IInv, OwnNames, [Next]_vars
               PROVE  IInv' /\ OwnNames'
    OBVIOUS
  <2>1. DistinctNames /\ OwnNames'
    BY NamesDiffer, OwnNamesKept
  <2>2. (NamesApart /\ OwnNames => DistinctNames)'
    BY NamesDiffer, PTL
  <2>3. DistinctNames'
    BY <2>1, <2>2 DEF NamesApart
  <2> QED BY <2>1, <2>3, StepInv
<1> QED BY <1>1, <1>2, InitInv, PTL DEF Spec

(* For runs whose plans give them no name in common, started and killed in *)
(* any order while the owner works on, the flow implements Landing without *)
(* further assumption, keeps its receipts true and loses no work.          *)
THEOREM ApartNamesLand ==
  ASSUME NamesApart
  PROVE  Spec => ImplementsLanding /\ LandsAudited
                   /\ [](TypeOK /\ ReceiptsHold /\ NoWorkLost)
<1>1. IInv /\ OwnNames => DistinctNames
  BY NamesDiffer
<1>2. Spec => []DistinctNames
  BY <1>1, ApartNamesFit, PTL
<1> QED BY <1>2, LandingImplemented, AuditedLands, TypeCorrect,
           ReceiptsAreTrue, NoWorkIsLost, PTL
=============================================================================
