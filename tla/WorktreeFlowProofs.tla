------------------------- MODULE WorktreeFlowProofs -------------------------
(***************************************************************************)
(* Proofs about WorktreeFlow, for any number of runs, any configurations   *)
(* and any number of kills and steps of the owner, as long as no two runs  *)
(* choose one name: the receipts in the state files are true of the        *)
(* repository, and no work is lost.  LandingProofs goes on from here: what *)
(* lands was audited, and the flow implements Landing.                     *)
(*                                                                         *)
(* The invariant says of each run how its state file s, the label p of its *)
(* process, its feature f, its integration g and the base branch b fit     *)
(* together.                                                               *)
(***************************************************************************)
EXTENDS WorktreeFlow, SequenceTheorems, TLAPS

(* No two runs go by one name.  Runs of one plan that are started at once  *)
(* may choose the same, as run() reserves nothing before it asks git which *)
(* names are taken; runs with no name in common never do (LandingProofs).  *)
DistinctNames == \A q, r \in Runs : name[q] = name[r] /\ name[q] # None => q = r

(* The stages before an integration exists, after the first audit, while   *)
(* an integration is recorded, while it is built, and after the            *)
(* fast-forward.                                                           *)
EarlyStages == FeatureStages \cup {"stopped_before_merge"}
AuditedStages ==
  Stages \ {"feature_allocated", "feature_worktree_created", "plan_copied",
            "implementation_started", "implementation_complete",
            "audit_started"}
LandedStages ==
  RecordStages \cup {"base_fast_forwarded", "handoff_archived", "complete"}
RecordedStages == RecordStages \cup {"complete"}
IntegratedStages ==
  BuildStages \cup {"integration_rebuild_cleanup"} \cup LandedStages
OpenStages ==
  BuildStages \ {"integration_allocated", "integration_committed"}

Integrated(r, s) == CommitOf("integration", r, s.intFeature)
MayLand(r, s) ==
  HasLanded(s.intBase, r, s.intFeature)
    => s.mode = "squash" /\ Overlaid(s.intBase, r, s.intFeature)

(* The label of a process fits the stage that was saved last.              *)
LabelFits(s, p, g) ==
  /\ p \in {"ff", "ffd"} => s.stage = "integration_committed"
  /\ p = "rebuild" => s.stage = "integration_rebuild_cleanup"
  /\ p = "merged" =>
       s.stage = "integration_worktree_created" /\ g.tree # "clean"
  /\ p = "archived" => s.stage = "handoff_archived"
  /\ p \in {"stopping", "stopped"} => s.stage = "stopped_before_merge"
  /\ p = "audited" => s.stage = "audit_complete"

(* Where the feature worktree and branch are there, and where they are not.*)
FeatureFits(s, f) ==
  /\ f.wt => f.branch
  /\ s.stage = "feature_allocated" =>
       f.branch = f.wt /\ (~f.branch => f.head = 0)
  /\ s.stage \in {"feature_worktree_removed", "worktrees_pruned",
        "integration_branch_removed", "feature_branch_removed",
        "cleanup_complete"} => ~f.wt
  /\ s.stage \notin {"feature_allocated", "complete"} \cup RemovalStages =>
       f.wt
  /\ s.stage \notin {"feature_allocated", "integration_branch_removed",
        "feature_branch_removed", "cleanup_complete", "complete"} => f.branch
  /\ s.stage \in {"feature_branch_removed", "cleanup_complete"} => ~f.branch
  /\ s.stage = "complete" => f.wt = s.keep /\ f.branch = s.keep

(* The same for the integration worktree and branch.                       *)
IntegrationFits(s, g) ==
  /\ s.stage \in EarlyStages => ~g.wt
  /\ s.stage = "integration_allocated" /\ g.wt =>
       g.branch /\ g.tip = s.intBase /\ g.tree = "clean"
  /\ s.stage \in {"base_fast_forwarded", "handoff_archived",
        "worktrees_retained"} \cup (BuildStages \ {"integration_allocated"}) =>
       g.wt /\ g.branch
  /\ s.stage = "artifacts_committed" /\ s.keep => g.wt /\ g.branch
  /\ s.stage = "worktrees_retained" => s.keep
  /\ s.stage \in RemovalStages => ~s.keep /\ ~g.wt
  /\ s.stage \in {"integration_branch_removed", "feature_branch_removed",
        "cleanup_complete"} => ~g.branch
  /\ s.stage = "complete" => g.wt = s.keep /\ g.branch = s.keep

(* What is integrated is the audited head, and there is one.               *)
HeadFits(s, f) ==
  /\ s.stage \in {"implementation_complete", "audit_started"} => f.head > 0
  /\ s.stage \in AuditedStages => f.head > 0 /\ f.audit /\ s.auditHead > 0
  /\ s.stage \in IntegratedStages =>
       s.intFeature = s.auditHead /\ s.intBase \in History

(* A merge that is going to be committed brings a head that has not landed *)
(* yet, or is squashed onto other work that lies over its first landing.   *)
BuildFits(r, s, g) ==
  /\ s.stage \in OpenStages \ {"integration_changes_staged"} =>
       g.tip = s.intBase
  /\ s.stage = "integration_changes_staged" =>
       g.tip \in {s.intBase, Append(s.intBase, Integrated(r, s))}
  /\ \/ s.stage \in ConflictStages \cup
          {"integration_changes_staged", "integration_committed"}
     \/ /\ s.stage = "integration_worktree_created"
        /\ g.tree \notin {"clean", "empty"}
     \/ s.stage = "integration_merge_applied" /\ s.fp # "empty"
     => MayLand(r, s)
  /\ s.stage \in {"integration_committed", "integration_rebuild_cleanup"}
       \cup LandedStages =>
       /\ s.intCommit \in History
       /\ s.intCommit = Append(s.intBase, Integrated(r, s))

(* What the state file calls landed or recorded is on the base branch; and *)
(* a base that was found to be the recorded one gets no shorter.           *)
BaseFits(r, s, p, f, b) ==
  /\ s.stage \in LandedStages => IsPrefix(s.intCommit, b)
  /\ s.stage \in RecordedStages =>
       /\ s.archiveCommit \in History
       /\ Front(s.archiveCommit) = s.intCommit
       /\ Tops(s.archiveCommit, "archive", r)
       /\ IsPrefix(s.archiveCommit, b)
  /\ s.stage = "complete" =>
       /\ s.finalCommit \in History
       /\ Front(s.finalCommit) = s.archiveCommit
       /\ Tops(s.finalCommit, "finalize", r)
       /\ IsPrefix(s.finalCommit, b)
  /\ p = "ff" => Len(s.intBase) <= Len(b)
  /\ f.head > 0 /\ ~f.branch => HasLanded(b, r, f.head)

Fits(r, s, p, f, g, b) ==
  /\ LabelFits(s, p, g) /\ FeatureFits(s, f) /\ IntegrationFits(s, g)
  /\ HeadFits(s, f) /\ BuildFits(r, s, g) /\ BaseFits(r, s, p, f, b)

(* A run has a name, before its first save one that nobody has used; and a *)
(* name no run has is unused.                                              *)
NamesFit ==
  /\ \A r \in Runs :
       /\ pc[r] = "none" => st[r] = None /\ name[r] = None
       /\ pc[r] # "none" => name[r] \in Names
       /\ pc[r] \in {"named", "reserved"} => st[r] = None
       /\ st[r] = None =>
            /\ integ[r] = NoInteg /\ pc[r] \in {"none", "named", "reserved", "down"}
            /\ pc[r] # "none" => Feat(r) = NoFeature
  /\ \A n \in Names : (\A r \in Runs : name[r] # n) => feat[n] = NoFeature
RunsFit ==
  \A r \in Runs :
    st[r] # None => Fits(r, st[r], pc[r], Feat(r), integ[r], base)

IInv == TypeOK /\ NamesFit /\ RunsFit

----------------------------------------------------------------------------
(* Commits and histories.                                                  *)

(* A history grows, but for a commit of the owner on top of it.            *)
KeepsRecords(b, c) ==
  /\ Len(b) <= Len(c)
  /\ \A i \in DOMAIN b : c[i] = b[i] \/ (i = Len(b) /\ b[i].kind = "user")

\* What the flow commits is a commit.
LEMMA CommitType ==
  ASSUME NEW kind \in Kinds, NEW r \in Runs \cup {NoRun}, NEW h \in Nat
  PROVE  /\ CommitOf(kind, r, h) \in Commit
         /\ CommitOf(kind, r, h).kind = kind
         /\ CommitOf(kind, r, h).run = r
         /\ CommitOf(kind, r, h).of = h
BY DEF CommitOf, Commit

\* One commit more on a history.
LEMMA AppendCommit ==
  ASSUME NEW b \in History, NEW c \in Commit
  PROVE  /\ Append(b, c) \in History
         /\ Append(b, c) # << >>
         /\ Len(Append(b, c)) = Len(b) + 1
         /\ Front(Append(b, c)) = b
         /\ Last(Append(b, c)) = c
         /\ \A i \in 1..Len(b) : Append(b, c)[i] = b[i]
         /\ Append(b, c)[Len(b) + 1] = c
         /\ KeepsRecords(b, Append(b, c))
         /\ IsPrefix(b, Append(b, c))
<1> DEFINE d == Append(b, c)
<1>1. /\ d \in Seq(Commit) /\ d # << >> /\ Len(d) = Len(b) + 1
      /\ \A i \in 1..Len(b) : d[i] = b[i]
      /\ d[Len(b) + 1] = c /\ b \in Seq(Commit) /\ Len(b) \in Nat
      /\ DOMAIN b = 1..Len(b)
  BY AppendProperties, LenProperties DEF History
<1> HIDE DEF d
<1>2. SubSeq(d, 1, Len(b)) = b
  <2>1. \A i \in 1..Len(b) : d[i] \in Commit
    BY <1>1, ElementOfSeq
  <2>2. /\ SubSeq(d, 1, Len(b)) \in Seq(Commit)
        /\ Len(SubSeq(d, 1, Len(b))) = IF 1 <= Len(b) THEN Len(b) - 1 + 1 ELSE 0
        /\ \A i \in 1..(Len(b) - 1 + 1) : SubSeq(d, 1, Len(b))[i] = d[1 + i - 1]
    BY <1>1, <2>1, SubSeqProperties
  <2>3. Len(SubSeq(d, 1, Len(b))) = Len(b)
    BY <1>1, <2>2
  <2>4. \A i \in 1..Len(b) : SubSeq(d, 1, Len(b))[i] = b[i]
    BY <1>1, <2>2
  <2> QED BY <1>1, <2>2, <2>3, <2>4, SeqEqual
<1>3. Front(d) = b /\ Last(d) = c
  BY <1>1, <1>2 DEF Front, Last
<1>4. KeepsRecords(b, d)
  BY <1>1 DEF KeepsRecords
<1>5. IsPrefix(b, d)
  BY <1>1, <1>2, SubSeqFull DEF IsPrefix
<1> QED BY <1>1, <1>3, <1>4, <1>5 DEF d, History

\* A prefix, element by element.
LEMMA PrefixElements ==
  ASSUME NEW b \in History, NEW c \in History
  PROVE  IsPrefix(b, c) <=>
           Len(b) <= Len(c) /\ \A i \in 1..Len(b) : b[i] = c[i]
<1>1. /\ b \in Seq(Commit) /\ c \in Seq(Commit)
      /\ Len(b) \in Nat /\ Len(c) \in Nat
  BY LenProperties DEF History
<1>2. SubSeq(b, 1, Len(b)) = b
  BY <1>1, SubSeqFull
<1>3. ASSUME Len(b) <= Len(c)
      PROVE  /\ SubSeq(c, 1, Len(b)) \in Seq(Commit)
             /\ Len(SubSeq(c, 1, Len(b))) = Len(b)
             /\ \A i \in 1..Len(b) : SubSeq(c, 1, Len(b))[i] = c[i]
  <2>1. \A i \in 1..Len(b) : c[i] \in Commit
    BY <1>1, <1>3, ElementOfSeq
  <2>2. /\ SubSeq(c, 1, Len(b)) \in Seq(Commit)
        /\ Len(SubSeq(c, 1, Len(b))) = IF 1 <= Len(b) THEN Len(b) - 1 + 1 ELSE 0
        /\ \A i \in 1..(Len(b) - 1 + 1) :
             SubSeq(c, 1, Len(b))[i] = c[1 + i - 1]
    BY <1>1, <2>1, SubSeqProperties
  <2> QED BY <1>1, <2>2
<1>4. ASSUME IsPrefix(b, c)
      PROVE  Len(b) <= Len(c) /\ \A i \in 1..Len(b) : b[i] = c[i]
  BY <1>2, <1>3, <1>4 DEF IsPrefix
<1>5. ASSUME Len(b) <= Len(c), \A i \in 1..Len(b) : b[i] = c[i]
      PROVE  IsPrefix(b, c)
  <2>1. SubSeq(c, 1, Len(b)) = b
    BY <1>1, <1>3, <1>5, SeqEqual
  <2> QED BY <1>2, <1>5, <2>1 DEF IsPrefix
<1> QED BY <1>4, <1>5

\* A history that is not empty, without its last commit and with it.
LEMMA FrontLast ==
  ASSUME NEW b \in History, b # << >>
  PROVE  /\ Front(b) \in History /\ Last(b) \in Commit
         /\ b = Append(Front(b), Last(b))
         /\ Len(b) = Len(Front(b)) + 1 /\ Len(Front(b)) \in Nat
<1>1. PICK s \in History, c \in Commit : b = Append(s, c)
  BY SequenceEmptyOrAppend DEF History
<1> QED BY <1>1, AppendCommit, LenProperties DEF History

\* The owner puts another commit in the place of the last one.
LEMMA AmendCommit ==
  ASSUME NEW b \in History, NEW r, NEW c \in Commit, Tops(b, "user", r)
  PROVE  Append(Front(b), c) \in History /\ KeepsRecords(b, Append(Front(b), c))
<1>1. /\ b # << >> /\ Last(b).kind = "user"
  BY DEF Tops
<1>2. /\ Front(b) \in History /\ b = Append(Front(b), Last(b))
      /\ Len(b) = Len(Front(b)) + 1 /\ Len(Front(b)) \in Nat
      /\ Last(b) \in Commit
  BY <1>1, FrontLast
<1> DEFINE a == Front(b)
           d == Append(a, c)
<1>3. /\ d \in History /\ Len(d) = Len(b)
      /\ \A i \in 1..Len(a) : d[i] = a[i] /\ b[i] = a[i]
  <2>1. d \in History /\ Len(d) = Len(a) + 1 /\ \A i \in 1..Len(a) : d[i] = a[i]
    BY <1>2, AppendCommit
  <2>2. \A i \in 1..Len(a) : Append(a, Last(b))[i] = a[i]
    BY <1>2, AppendCommit
  <2> QED BY <1>2, <2>1, <2>2
<1>4. DOMAIN b = 1..Len(b)
  BY LenProperties DEF History
<1> HIDE DEF a, d
<1>5. Len(b) = Len(a) + 1 /\ Len(a) \in Nat
  BY <1>2 DEF a
<1>6. KeepsRecords(b, d)
  BY <1>1, <1>3, <1>4, <1>5 DEF KeepsRecords, Last
<1> QED BY <1>3, <1>6 DEF d, a

\* A record of the flow stays on a history that keeps its records.
LEMMA PrefixKept ==
  ASSUME NEW b \in History, NEW c \in History, KeepsRecords(b, c),
         NEW a \in History, a # << >>, Last(a).kind # "user", IsPrefix(a, b)
  PROVE  IsPrefix(a, c)
<1>1. /\ Len(a) \in Nat /\ Len(b) \in Nat /\ Len(c) \in Nat
      /\ DOMAIN b = 1..Len(b)
  BY LenProperties DEF History
<1>2. Len(a) <= Len(b) /\ \A i \in 1..Len(a) : a[i] = b[i]
  BY PrefixElements
<1>3. Len(a) <= Len(c)
  BY <1>1, <1>2 DEF KeepsRecords
<1>4. ASSUME NEW i \in 1..Len(a) PROVE a[i] = c[i]
  <2>1. i \in DOMAIN b /\ a[i] = b[i]
    BY <1>1, <1>2
  <2>2. CASE c[i] = b[i]
    BY <2>1, <2>2
  <2>3. CASE i = Len(b) /\ b[i].kind = "user"
    <3>1. i = Len(a)
      BY <1>1, <1>2, <2>3
    <3>2. Last(a) = a[i]
      BY <3>1 DEF Last
    <3> QED BY <2>1, <2>3, <3>2
  <2> QED BY <2>1, <2>2, <2>3 DEF KeepsRecords
<1> QED BY <1>3, <1>4, PrefixElements

\* So does a head that has landed.
LEMMA LandedKept ==
  ASSUME NEW b \in History, NEW c \in History, KeepsRecords(b, c),
         NEW r \in Runs, NEW h \in Nat, HasLanded(b, r, h)
  PROVE  HasLanded(c, r, h)
<1>1. PICK i \in DOMAIN b : b[i] = CommitOf("integration", r, h)
  BY DEF HasLanded
<1>2. b[i].kind = "integration"
  BY <1>1 DEF CommitOf
<1>3. c[i] = b[i]
  BY <1>2 DEF KeepsRecords
<1>4. i \in DOMAIN c
  BY LenProperties DEF History, KeepsRecords
<1> QED BY <1>1, <1>3, <1>4 DEF HasLanded

\* What a history ends in has landed on each history it is a prefix of.
LEMMA PrefixLanded ==
  ASSUME NEW a \in History, NEW b \in History, NEW r \in Runs, NEW h \in Nat,
         IsPrefix(Append(a, CommitOf("integration", r, h)), b)
  PROVE  HasLanded(b, r, h)
<1> DEFINE c == CommitOf("integration", r, h)
<1>1. c \in Commit
  BY CommitType DEF Kinds
<1>2. /\ Append(a, c) \in History /\ Len(Append(a, c)) = Len(a) + 1
      /\ Append(a, c)[Len(a) + 1] = c
      /\ IsPrefix(Append(a, c), b)
  BY <1>1, AppendCommit
<1> HIDE DEF c
<1>3. /\ Len(a) \in Nat /\ Len(b) \in Nat /\ DOMAIN b = 1..Len(b)
  BY LenProperties DEF History
<1> DEFINE d == Append(a, c)
<1> HIDE DEF d
<1>4. Len(a) + 1 <= Len(b) /\ b[Len(a) + 1] = c
  <2>1. /\ d \in History /\ Len(d) = Len(a) + 1 /\ d[Len(a) + 1] = c
        /\ IsPrefix(d, b)
    BY <1>2 DEF d
  <2>2. Len(d) <= Len(b) /\ \A i \in 1..Len(d) : d[i] = b[i]
    BY <2>1, PrefixElements
  <2> QED BY <1>3, <2>1, <2>2
<1> QED BY <1>3, <1>4 DEF HasLanded, c

----------------------------------------------------------------------------
(* The step of one run leaves the other runs as they fit.                  *)

Labels == {"none", "named", "reserved", "alloc", "feature", "harness",
  "returned", "audited", "stopping", "stopped", "finish", "merged", "ff", "ffd",
  "rebuild", "archived", "down", "done"}

\* An absent value is not taken for another.
LEMMA Apart == None \notin State /\ None \notin Names /\ NoRun \notin Runs
BY NoneAssumption

\* What was said about a base branch stays true while it keeps its records.
LEMMA BaseKept ==
  ASSUME NEW b \in History, NEW c \in History, KeepsRecords(b, c),
         NEW r \in Runs, NEW s \in State, NEW p, NEW f \in Feature, NEW g,
         Fits(r, s, p, f, g, b)
  PROVE  Fits(r, s, p, f, g, c)
<1> USE DEF Fits
<1>1. s.intBase # None => s.intBase \in History
  BY DEF State
<1>2. f.head \in Nat /\ s.intFeature \in Nat
  BY BoundsAssumption DEF Feature, State
<1>3. s.stage \in LandedStages => IsPrefix(s.intCommit, c)
  <2> HAVE s.stage \in LandedStages
  <2>1. s.intCommit \in History /\ IsPrefix(s.intCommit, b)
    BY DEF BuildFits, BaseFits
  <2>2. s.intBase \in History /\ s.intCommit = Append(s.intBase, Integrated(r, s))
    BY DEF HeadFits, BuildFits, IntegratedStages
  <2>3. Integrated(r, s) \in Commit /\ Integrated(r, s).kind = "integration"
    BY <1>2, CommitType DEF Integrated, Kinds
  <2>4. \A a \in History, x \in Commit : Append(a, x) # << >> /\ Last(Append(a, x)) = x
    BY AppendCommit
  <2>5. s.intCommit # << >> /\ Last(s.intCommit) = Integrated(r, s)
    BY <2>2, <2>3, <2>4
  <2> QED BY <2>1, <2>3, <2>5, PrefixKept
<1>4. s.stage \in RecordedStages => IsPrefix(s.archiveCommit, c)
  BY PrefixKept DEF BaseFits, Tops
<1>5. s.stage = "complete" => IsPrefix(s.finalCommit, c)
  BY PrefixKept DEF BaseFits, Tops
<1>6. p = "ff" => Len(s.intBase) <= Len(c)
  <2> HAVE p = "ff"
  <2>1. s.intBase \in History /\ Len(s.intBase) <= Len(b)
    BY DEF LabelFits, HeadFits, IntegratedStages, BuildStages, BaseFits
  <2>2. Len(s.intBase) \in Nat /\ Len(b) \in Nat /\ Len(c) \in Nat
    BY <2>1, LenProperties DEF History
  <2> QED BY <2>1, <2>2 DEF KeepsRecords
<1>7. f.head > 0 /\ ~f.branch => HasLanded(c, r, f.head)
  BY <1>2, LandedKept DEF BaseFits
<1> QED BY <1>3, <1>4, <1>5, <1>6, <1>7 DEF BaseFits

\* The state file, the label and the trees of one run change, and the base
\* keeps its records.
LEMMA RunKeeps ==
  ASSUME IInv, DistinctNames, NEW r \in Runs, pc[r] # "none",
         NEW s \in State, NEW p \in Labels \ {"none", "named", "reserved"},
         NEW f \in Feature, NEW g \in Integration, NEW b \in History,
         name' = name,
         st' = [st EXCEPT ![r] = s], pc' = [pc EXCEPT ![r] = p],
         feat' = [feat EXCEPT ![name[r]] = f], integ' = [integ EXCEPT ![r] = g],
         base' = b, KeepsRecords(base, b),
         fresh' \in [Runs -> BOOLEAN],
         archive' \in [Runs -> [cand : BOOLEAN, dirty : BOOLEAN, final : BOOLEAN]],
         budget' \in [fault : 0..FaultMax, user : 0..UserMax],
         s.stage = "audit_complete" => s.auditHead > 0,
         Fits(r, s, p, f, g, b)
  PROVE  IInv'
<1> USE DEF IInv
<1>1. /\ name[r] \in Names /\ s # None
      /\ \A q \in Runs : q # r => name[q] # name[r]
  BY Apart DEF NamesFit, DistinctNames
<1>2. /\ st'[r] = s /\ pc'[r] = p /\ feat'[name[r]] = f /\ integ'[r] = g
      /\ \A q \in Runs : q # r =>
           st'[q] = st[q] /\ pc'[q] = pc[q] /\ integ'[q] = integ[q]
      /\ \A n \in Names : n # name[r] => feat'[n] = feat[n]
  BY <1>1 DEF TypeOK
<1>3. TypeOK'
  <2>1. /\ name' \in [Runs -> Names \cup {None}]
        /\ st' \in [Runs -> State \cup {None}]
        /\ feat' \in [Names -> Feature] /\ integ' \in [Runs -> Integration]
        /\ base' \in History
    BY <1>1 DEF TypeOK
  <2>2. pc' \in [Runs -> Labels]
    BY DEF TypeOK, Labels
  <2>3. ASSUME NEW q \in Runs, Stage(q)' = "audit_complete"
        PROVE  st'[q].auditHead > 0
    <3>1. CASE q = r
      BY <1>1, <1>2, <2>3, <3>1 DEF Stage
    <3>2. CASE q # r
      BY <1>2, <2>3, <3>2 DEF Stage, TypeOK
    <3> QED BY <3>1, <3>2
  <2> QED BY <2>1, <2>2, <2>3 DEF TypeOK, Labels
<1>4. NamesFit'
  <2>1. ASSUME NEW q \in Runs
        PROVE  /\ pc'[q] = "none" => st'[q] = None /\ name'[q] = None
               /\ pc'[q] # "none" => name'[q] \in Names
               /\ pc'[q] \in {"named", "reserved"} => st'[q] = None
               /\ st'[q] = None =>
                    /\ integ'[q] = NoInteg
                    /\ pc'[q] \in {"none", "named", "reserved", "down"}
                    /\ pc'[q] # "none" => Feat(q)' = NoFeature
    <3>1. CASE q = r
      BY <1>1, <1>2, <3>1
    <3>2. CASE q # r
      BY <1>1, <1>2, <3>2 DEF NamesFit, Feat
    <3> QED BY <3>1, <3>2
  <2>2. \A n \in Names : (\A q \in Runs : name'[q] # n) => feat'[n] = NoFeature
    BY <1>1, <1>2 DEF NamesFit
  <2> QED BY <2>1, <2>2 DEF NamesFit
<1>5. RunsFit'
  <2> SUFFICES ASSUME NEW q \in Runs, st'[q] # None
               PROVE  Fits(q, st'[q], pc'[q], Feat(q)', integ'[q], b)
    BY DEF RunsFit
  <2>1. CASE q = r
    BY <1>1, <1>2, <2>1 DEF Feat
  <2>2. CASE q # r
    <3>1. /\ st[q] # None /\ st[q] \in State /\ name[q] \in Names
          /\ Feat(q) \in Feature /\ base \in History
      BY <1>1, <1>2, <2>2 DEF TypeOK, NamesFit, Feat
    <3>2. Fits(q, st[q], pc[q], Feat(q), integ[q], base)
      BY <3>1 DEF RunsFit
    <3>3. Fits(q, st[q], pc[q], Feat(q), integ[q], b)
      BY <3>1, <3>2, BaseKept
    <3>4. Feat(q)' = Feat(q)
      BY <1>1, <1>2, <2>2, <3>1 DEF Feat
    <3> QED BY <1>2, <2>2, <3>3, <3>4
  <2> QED BY <2>1, <2>2
<1> QED BY <1>3, <1>4, <1>5

----------------------------------------------------------------------------
(* The shapes of a step of a run that has a state file.                    *)

Working == Labels \ {"none", "named", "reserved"}

\* Each stage and each label of a run at work has its name.
LEMMA StageNames ==
  /\ {"feature_allocated", "feature_worktree_created", "plan_copied",
      "implementation_started", "implementation_complete", "audit_started",
      "audit_complete", "stopped_before_merge"} \subseteq Stages
  /\ {"integration_allocated", "integration_worktree_created",
      "integration_merge_applied", "integration_conflicts_detected",
      "conflict_resolution_started", "conflict_resolution_complete",
      "post_conflict_audit_started", "post_conflict_audit_complete",
      "integration_changes_staged", "integration_committed",
      "integration_rebuild_cleanup", "base_fast_forwarded",
      "handoff_archived"} \subseteq Stages
  /\ {"artifacts_committed", "worktrees_retained",
      "integration_worktree_removed", "feature_worktree_removed",
      "worktrees_pruned", "integration_branch_removed",
      "feature_branch_removed", "cleanup_complete", "complete"}
       \subseteq Stages
  /\ "none" \notin Stages
BY DEF Stages, FeatureStages, BuildStages, ConflictStages, RecordStages,
       RemovalStages
LEMMA LabelNames ==
  /\ {"alloc", "feature", "harness", "returned", "audited", "stopping",
      "stopped", "finish", "merged", "ff", "ffd", "rebuild", "archived",
      "down", "done"} \subseteq Working
  /\ Working \subseteq Labels \ {"none", "named", "reserved"}
BY DEF Working, Labels

\* What is known of such a run.
LEMMA Known ==
  ASSUME IInv, NEW r \in Runs, Stage(r) # "none"
  PROVE  /\ st[r] # None /\ st[r] \in State /\ Stage(r) = st[r].stage
         /\ name[r] \in Names /\ pc[r] \in Working /\ pc[r] # "none"
         /\ Feat(r) \in Feature /\ integ[r] \in Integration /\ base \in History
         /\ Fits(r, st[r], pc[r], Feat(r), integ[r], base)
<1>1. st[r] # None /\ st[r] \in State /\ Stage(r) = st[r].stage
  BY DEF IInv, TypeOK, Stage
<1>2. pc[r] \in Labels /\ pc[r] \notin {"none", "named", "reserved"}
  BY <1>1 DEF IInv, TypeOK, NamesFit, Labels
<1>3. name[r] \in Names
  BY <1>2 DEF IInv, NamesFit
<1> QED BY <1>1, <1>2, <1>3 DEF IInv, TypeOK, RunsFit, Working, Feat

\* A state file has a stage.
LEMMA SavedStage ==
  ASSUME IInv, NEW r \in Runs, st[r] # None
  PROVE  Stage(r) # "none"
<1>1. st[r] \in State
  BY DEF IInv, TypeOK
<1>2. st[r].stage \in Stages
  BY <1>1 DEF State
<1>3. "none" \notin Stages
  BY DEF Stages, FeatureStages, BuildStages, ConflictStages, RecordStages,
         RemovalStages
<1> QED BY <1>2, <1>3 DEF Stage

\* A run that is somewhere in the flow has a state file.
LEMMA Started ==
  ASSUME IInv, NEW r \in Runs, pc[r] \notin {"none", "named", "reserved", "down"}
  PROVE  Stage(r) # "none"
BY SavedStage DEF IInv, NamesFit

\* Saving a stage leaves the rest of the state file.
LEMMA SavedState ==
  ASSUME NEW s \in State, NEW stage \in Stages
  PROVE  LET t == [s EXCEPT !.stage = stage]
         IN  /\ t \in State /\ t.stage = stage /\ t.mode = s.mode
             /\ t.keep = s.keep /\ t.auditHead = s.auditHead
             /\ t.intFeature = s.intFeature /\ t.fp = s.fp
             /\ t.featBase = s.featBase /\ t.intBase = s.intBase
             /\ t.intCommit = s.intCommit
             /\ t.archiveCommit = s.archiveCommit
             /\ t.finalCommit = s.finalCommit
BY DEF State

\* A process that ends fits wherever it was.
LEMMA DownFits ==
  ASSUME NEW r, NEW s, NEW p, NEW f, NEW g, NEW b, Fits(r, s, p, f, g, b)
  PROVE  Fits(r, s, "down", f, g, b)
BY DEF Fits, LabelFits, BaseFits

\* A function updated where it is defined with the value it has there.
LEMMA SameAt ==
  ASSUME NEW S, NEW T, NEW f \in [S -> T], NEW x \in S
  PROVE  [f EXCEPT ![x] = f[x]] = f
OBVIOUS

\* Nothing is committed.
LEMMA BaseSame ==
  ASSUME NEW b \in History
  PROVE  KeepsRecords(b, b)
BY LenProperties DEF KeepsRecords, History

\* The process goes on to another label.
LEMMA GoToKeeps ==
  ASSUME IInv, DistinctNames, NEW r \in Runs, Stage(r) # "none",
         NEW p \in Working, GoTo(r, p),
         UNCHANGED <<st, name, feat, integ, archive, base>>,
         fresh' \in [Runs -> BOOLEAN],
         budget' \in [fault : 0..FaultMax, user : 0..UserMax],
         Fits(r, st[r], p, Feat(r), integ[r], base)
  PROVE  IInv'
<1>1. /\ st' = [st EXCEPT ![r] = st[r]]
      /\ feat' = [feat EXCEPT ![name[r]] = Feat(r)]
      /\ integ' = [integ EXCEPT ![r] = integ[r]]
  BY Known, SameAt DEF IInv, TypeOK, Feat
<1>2. st[r].stage = "audit_complete" => st[r].auditHead > 0
  BY Known DEF IInv, TypeOK
<1>3. /\ pc[r] # "none" /\ st[r] \in State /\ Feat(r) \in Feature
      /\ integ[r] \in Integration /\ base \in History /\ name' = name
      /\ base' = base /\ pc' = [pc EXCEPT ![r] = p]
      /\ archive' \in [Runs -> [cand : BOOLEAN, dirty : BOOLEAN, final : BOOLEAN]]
  BY Known DEF GoTo, IInv, TypeOK
<1> QED BY <1>1, <1>2, <1>3, BaseSame, RunKeeps DEF Working

\* It ends with nothing changed.
LEMMA RefuseKeeps ==
  ASSUME IInv, DistinctNames, NEW r \in Runs, Stage(r) # "none", Refuse(r)
  PROVE  IInv'
<1>1. Fits(r, st[r], "down", Feat(r), integ[r], base)
  BY Known, DownFits
<1>2. "down" \in Working
  BY DEF Working, Labels
<1> QED BY <1>1, <1>2, GoToKeeps DEF Refuse, GoTo, world, IInv, TypeOK

\* It saves a state the store accepts, or ends.
LEMMA AdvanceKeeps ==
  ASSUME IInv, DistinctNames, NEW r \in Runs, Stage(r) # "none",
         NEW s \in State, NEW stage \in Stages, NEW p \in Working,
         Advance(r, stage, s, p), stage = "audit_complete" => s.auditHead > 0,
         Fits(r, [s EXCEPT !.stage = stage], p, Feat(r), integ[r], base)
  PROVE  IInv'
<1> DEFINE t == [s EXCEPT !.stage = stage]
<1>1. /\ feat' = [feat EXCEPT ![name[r]] = Feat(r)]
      /\ integ' = [integ EXCEPT ![r] = integ[r]]
  BY Known, SameAt DEF IInv, TypeOK, Feat, Advance, world
<1>2. t \in State /\ (t.stage = "audit_complete" => t.auditHead > 0)
  BY SavedState
<1>3. CASE st' = [st EXCEPT ![r] = t] /\ pc' = [pc EXCEPT ![r] = p]
  <2>1. /\ pc[r] # "none" /\ Feat(r) \in Feature /\ integ[r] \in Integration
        /\ base \in History /\ name' = name /\ base' = base
        /\ fresh' \in [Runs -> BOOLEAN]
        /\ archive' \in
             [Runs -> [cand : BOOLEAN, dirty : BOOLEAN, final : BOOLEAN]]
        /\ budget' \in [fault : 0..FaultMax, user : 0..UserMax]
    BY Known DEF Advance, world, IInv, TypeOK
  <2> HIDE DEF t
  <2> QED BY <1>1, <1>2, <1>3, <2>1, BaseSame, RunKeeps DEF Working, t
<1>4. CASE Refuse(r)
  BY <1>4, RefuseKeeps
<1> QED BY <1>3, <1>4 DEF Advance, Transition, Refuse

\* It changes its feature worktree or branch.
LEMMA SetFeatKeeps ==
  ASSUME IInv, DistinctNames, NEW r \in Runs, Stage(r) # "none",
         NEW f \in Feature, NEW p \in Working, SetFeat(r, f),
         pc' = [pc EXCEPT ![r] = p], st' = st,
         budget' \in [fault : 0..FaultMax, user : 0..UserMax],
         Fits(r, st[r], p, f, integ[r], base)
  PROVE  IInv'
<1>1. /\ st' = [st EXCEPT ![r] = st[r]]
      /\ integ' = [integ EXCEPT ![r] = integ[r]]
  BY Known, SameAt DEF IInv, TypeOK, SetFeat
<1>2. st[r].stage = "audit_complete" => st[r].auditHead > 0
  BY Known DEF IInv, TypeOK
<1>3. /\ pc[r] # "none" /\ st[r] \in State /\ integ[r] \in Integration
      /\ base \in History /\ name' = name /\ base' = base
      /\ feat' = [feat EXCEPT ![name[r]] = f]
      /\ fresh' \in [Runs -> BOOLEAN]
      /\ archive' \in [Runs -> [cand : BOOLEAN, dirty : BOOLEAN, final : BOOLEAN]]
  BY Known DEF SetFeat, IInv, TypeOK
<1> QED BY <1>1, <1>2, <1>3, BaseSame, RunKeeps DEF Working

\* It changes its integration worktree or branch, and what of its state file
\* is not the stage.
LEMMA SetIntegKeeps ==
  ASSUME IInv, DistinctNames, NEW r \in Runs, Stage(r) # "none",
         NEW g \in Integration, NEW p \in Working, NEW s \in State,
         SetInteg(r, g), pc' = [pc EXCEPT ![r] = p],
         st' = [st EXCEPT ![r] = s], s.stage = Stage(r),
         s.auditHead = st[r].auditHead,
         budget' \in [fault : 0..FaultMax, user : 0..UserMax],
         Fits(r, s, p, Feat(r), g, base)
  PROVE  IInv'
<1>1. feat' = [feat EXCEPT ![name[r]] = Feat(r)]
  BY Known, SameAt DEF IInv, TypeOK, SetInteg, Feat
<1>2. s.stage = "audit_complete" => s.auditHead > 0
  BY Known DEF IInv, TypeOK
<1>3. /\ pc[r] # "none" /\ Feat(r) \in Feature
      /\ base \in History /\ name' = name /\ base' = base
      /\ integ' = [integ EXCEPT ![r] = g]
      /\ fresh' \in [Runs -> BOOLEAN]
      /\ archive' \in [Runs -> [cand : BOOLEAN, dirty : BOOLEAN, final : BOOLEAN]]
  BY Known DEF SetInteg, IInv, TypeOK
<1> QED BY <1>1, <1>2, <1>3, BaseSame, RunKeeps DEF Working

\* It commits on the base branch.
LEMMA CommitKeeps ==
  ASSUME IInv, DistinctNames, NEW r \in Runs, Stage(r) # "none",
         NEW b \in History, KeepsRecords(base, b), base' = b,
         NEW p \in Working, pc' = [pc EXCEPT ![r] = p],
         UNCHANGED <<st, name, fresh, feat, integ, budget>>,
         archive' \in [Runs -> [cand : BOOLEAN, dirty : BOOLEAN, final : BOOLEAN]],
         Fits(r, st[r], p, Feat(r), integ[r], b)
  PROVE  IInv'
<1>1. /\ st' = [st EXCEPT ![r] = st[r]]
      /\ feat' = [feat EXCEPT ![name[r]] = Feat(r)]
      /\ integ' = [integ EXCEPT ![r] = integ[r]]
  BY Known, SameAt DEF IInv, TypeOK, Feat
<1>2. st[r].stage = "audit_complete" => st[r].auditHead > 0
  BY Known DEF IInv, TypeOK
<1>3. /\ pc[r] # "none" /\ st[r] \in State /\ Feat(r) \in Feature
      /\ integ[r] \in Integration /\ name' = name
      /\ fresh' \in [Runs -> BOOLEAN]
      /\ budget' \in [fault : 0..FaultMax, user : 0..UserMax]
  BY Known DEF IInv, TypeOK
<1> QED BY <1>1, <1>2, <1>3, RunKeeps DEF Working

\* No head is a number of commits, too.
LEMMA NoHead == 0 \in 0..MaxHead
BY BoundsAssumption

----------------------------------------------------------------------------
(* How a run fits before and after each thing it does, value by value.     *)


\* A run saves a stage and nothing else, up to the audit.
LEMMA FeatureSavesFit ==
  ASSUME NEW r \in Runs, NEW s \in State, NEW p, NEW f \in Feature,
         NEW g \in Integration, NEW b \in History, Fits(r, s, p, f, g, b)
  PROVE  LET Saved(stage, label) ==
               Fits(r, [s EXCEPT !.stage = stage], label, f, g, b)
         IN
    /\ s.stage = "feature_allocated" /\ f.wt =>
         Saved("feature_worktree_created", "feature")
    /\ s.stage = "feature_worktree_created" =>
         Saved("plan_copied", "feature")
    /\ s.stage = "plan_copied" =>
         Saved("implementation_started", "feature")
    /\ s.stage = "implementation_started" /\ f.wt /\ f.head > 0 =>
         Saved("implementation_complete", "feature")
    /\ s.stage = "implementation_complete" =>
         Saved("audit_started", "feature")
    /\ s.stage = "audit_complete" =>
         Saved("audit_started", "feature")
    /\ s.stage = "audit_complete" =>
         Saved("stopped_before_merge", "stopping")
<1> DEFINE Saved(stage, label) ==
             Fits(r, [s EXCEPT !.stage = stage], label, f, g, b)
<1> USE DEF Fits, LabelFits, FeatureFits, IntegrationFits, HeadFits, BuildFits,
          BaseFits, Stages, FeatureStages, ConflictStages, BuildStages, RemovalStages,
          RecordStages, EarlyStages, AuditedStages, LandedStages, RecordedStages,
          IntegratedStages, OpenStages, Integrated, MayLand
<1>1. ASSUME s.stage = "feature_allocated", f.wt
      PROVE  Saved("feature_worktree_created", "feature")
  BY <1>1, SavedState
<1>2. ASSUME s.stage = "feature_worktree_created"
      PROVE  Saved("plan_copied", "feature")
  BY <1>2, SavedState
<1>3. ASSUME s.stage = "plan_copied"
      PROVE  Saved("implementation_started", "feature")
  BY <1>3, SavedState
<1>4. ASSUME s.stage = "implementation_started", f.wt, f.head > 0
      PROVE  Saved("implementation_complete", "feature")
  BY <1>4, SavedState
<1>5. ASSUME s.stage = "implementation_complete"
      PROVE  Saved("audit_started", "feature")
  BY <1>5, SavedState
<1>6. ASSUME s.stage = "audit_complete"
      PROVE  Saved("audit_started", "feature")
  BY <1>6, SavedState
<1>7. ASSUME s.stage = "audit_complete"
      PROVE  Saved("stopped_before_merge", "stopping")
  BY <1>7, SavedState
<1> QED BY <1>1, <1>2, <1>3, <1>4, <1>5, <1>6, <1>7

\* The same while it integrates its work.
LEMMA IntegrationSavesFit ==
  ASSUME NEW r \in Runs, NEW s \in State, NEW p, NEW f \in Feature,
         NEW g \in Integration, NEW b \in History, Fits(r, s, p, f, g, b)
  PROVE  LET Saved(stage, label) ==
               Fits(r, [s EXCEPT !.stage = stage], label, f, g, b)
         IN
    /\ s.stage = "integration_allocated" /\ g.wt =>
         Saved("integration_worktree_created", "finish")
    /\ s.stage = "integration_conflicts_detected" =>
         Saved("conflict_resolution_started", "finish")
    /\ s.stage = "conflict_resolution_complete" =>
         Saved("post_conflict_audit_started", "finish")
    /\ s.stage = "integration_merge_applied" /\ s.fp # "empty" =>
         Saved("integration_changes_staged", "finish")
    /\ s.stage = "post_conflict_audit_complete" =>
         Saved("integration_changes_staged", "finish")
    /\ s.stage = "integration_committed" =>
         Saved("integration_rebuild_cleanup", "rebuild")
    /\ s.stage = "integration_committed" /\ IsPrefix(s.intCommit, b) =>
         Saved("base_fast_forwarded", "finish")
    /\ s.stage = "base_fast_forwarded" =>
         Saved("handoff_archived", "archived")
<1> DEFINE Saved(stage, label) ==
             Fits(r, [s EXCEPT !.stage = stage], label, f, g, b)
<1> USE DEF Fits, LabelFits, FeatureFits, IntegrationFits, HeadFits, BuildFits,
          BaseFits, Stages, FeatureStages, ConflictStages, BuildStages, RemovalStages,
          RecordStages, EarlyStages, AuditedStages, LandedStages, RecordedStages,
          IntegratedStages, OpenStages, Integrated, MayLand
<1>1. ASSUME s.stage = "integration_allocated", g.wt
      PROVE  Saved("integration_worktree_created", "finish")
  BY <1>1, SavedState
<1>2. ASSUME s.stage = "integration_conflicts_detected"
      PROVE  Saved("conflict_resolution_started", "finish")
  BY <1>2, SavedState
<1>3. ASSUME s.stage = "conflict_resolution_complete"
      PROVE  Saved("post_conflict_audit_started", "finish")
  BY <1>3, SavedState
<1>4. ASSUME s.stage = "integration_merge_applied", s.fp # "empty"
      PROVE  Saved("integration_changes_staged", "finish")
  BY <1>4, SavedState
<1>5. ASSUME s.stage = "post_conflict_audit_complete"
      PROVE  Saved("integration_changes_staged", "finish")
  BY <1>5, SavedState
<1>6. ASSUME s.stage = "integration_committed"
      PROVE  Saved("integration_rebuild_cleanup", "rebuild")
  BY <1>6, SavedState
<1>7. ASSUME s.stage = "integration_committed", IsPrefix(s.intCommit, b)
      PROVE  Saved("base_fast_forwarded", "finish")
  <2> DEFINE t == [s EXCEPT !.stage = "base_fast_forwarded"]
  <2>1. /\ t.stage = "base_fast_forwarded" /\ t.keep = s.keep
        /\ t.auditHead = s.auditHead /\ t.intFeature = s.intFeature
        /\ t.intBase = s.intBase /\ t.intCommit = s.intCommit
    BY SavedState
  <2> HIDE DEF t
  <2>2. LabelFits(t, "finish", g) /\ FeatureFits(t, f) /\ IntegrationFits(t, g)
    BY <1>7, <2>1
  <2>3. HeadFits(t, f)
    BY <1>7, <2>1
  <2>4. BuildFits(r, t, g)
    BY <1>7, <2>1
  <2>5. BaseFits(r, t, "finish", f, b)
    BY <1>7, <2>1
  <2> QED BY <2>2, <2>3, <2>4, <2>5 DEF t
<1>8. ASSUME s.stage = "base_fast_forwarded"
      PROVE  Saved("handoff_archived", "archived")
  BY <1>8, SavedState
<1> QED BY <1>1, <1>2, <1>3, <1>4, <1>5, <1>6, <1>7, <1>8

\* The same while it removes what it created.
LEMMA CleanupSavesFit ==
  ASSUME NEW r \in Runs, NEW s \in State, NEW p, NEW f \in Feature,
         NEW g \in Integration, NEW b \in History, Fits(r, s, p, f, g, b)
  PROVE  LET Saved(stage, label) ==
               Fits(r, [s EXCEPT !.stage = stage], label, f, g, b)
         IN
    /\ s.stage = "artifacts_committed" /\ s.keep =>
         Saved("worktrees_retained", "finish")
    /\ s.stage = "artifacts_committed" /\ ~s.keep /\ ~g.wt =>
         Saved("integration_worktree_removed", "finish")
    /\ s.stage = "integration_worktree_removed" /\ ~f.wt =>
         Saved("feature_worktree_removed", "finish")
    /\ s.stage = "feature_worktree_removed" =>
         Saved("worktrees_pruned", "finish")
    /\ s.stage = "worktrees_pruned" /\ ~g.branch =>
         Saved("integration_branch_removed", "finish")
    /\ s.stage = "integration_branch_removed" /\ ~f.branch =>
         Saved("feature_branch_removed", "finish")
    /\ s.stage = "feature_branch_removed" =>
         Saved("cleanup_complete", "finish")
<1> DEFINE Saved(stage, label) ==
             Fits(r, [s EXCEPT !.stage = stage], label, f, g, b)
<1> USE DEF Fits, LabelFits, FeatureFits, IntegrationFits, HeadFits, BuildFits,
          BaseFits, Stages, FeatureStages, ConflictStages, BuildStages, RemovalStages,
          RecordStages, EarlyStages, AuditedStages, LandedStages, RecordedStages,
          IntegratedStages, OpenStages, Integrated, MayLand
<1>1. ASSUME s.stage = "artifacts_committed", s.keep
      PROVE  Saved("worktrees_retained", "finish")
  BY <1>1, SavedState
<1>2. ASSUME s.stage = "artifacts_committed", ~s.keep, ~g.wt
      PROVE  Saved("integration_worktree_removed", "finish")
  BY <1>2, SavedState
<1>3. ASSUME s.stage = "integration_worktree_removed", ~f.wt
      PROVE  Saved("feature_worktree_removed", "finish")
  BY <1>3, SavedState
<1>4. ASSUME s.stage = "feature_worktree_removed"
      PROVE  Saved("worktrees_pruned", "finish")
  BY <1>4, SavedState
<1>5. ASSUME s.stage = "worktrees_pruned", ~g.branch
      PROVE  Saved("integration_branch_removed", "finish")
  BY <1>5, SavedState
<1>6. ASSUME s.stage = "integration_branch_removed", ~f.branch
      PROVE  Saved("feature_branch_removed", "finish")
  BY <1>6, SavedState
<1>7. ASSUME s.stage = "feature_branch_removed"
      PROVE  Saved("cleanup_complete", "finish")
  BY <1>7, SavedState
<1> QED BY <1>1, <1>2, <1>3, <1>4, <1>5, <1>6, <1>7

\* The audit is accepted: its head is recorded.
LEMMA AuditFits ==
  ASSUME NEW r \in Runs, NEW s \in State, NEW p, NEW f \in Feature,
         NEW g \in Integration, NEW b \in History, Fits(r, s, p, f, g, b),
         s.stage = "audit_started", f.audit, f.wt
  PROVE  LET t == [s EXCEPT !.auditHead = f.head]
         IN  t \in State /\ t.auditHead > 0 /\
             Fits(r, [t EXCEPT !.stage = "audit_complete"], "audited", f, g, b)
<1> DEFINE t == [s EXCEPT !.auditHead = f.head]
           u == [t EXCEPT !.stage = "audit_complete"]
<1>1. /\ t \in State
      /\ t.stage = s.stage /\ t.mode = s.mode /\ t.keep = s.keep
      /\ t.auditHead = f.head /\ t.intFeature = s.intFeature
      /\ t.fp = s.fp /\ t.intBase = s.intBase
      /\ t.intCommit = s.intCommit /\ t.archiveCommit = s.archiveCommit
      /\ t.finalCommit = s.finalCommit
  BY DEF State, Feature, Integration
<1> HIDE DEF t
<1>2. /\ u \in State
      /\ u.stage = "audit_complete" /\ u.mode = s.mode /\ u.keep = s.keep
      /\ u.auditHead = f.head /\ u.intFeature = s.intFeature
      /\ u.fp = s.fp /\ u.intBase = s.intBase
      /\ u.intCommit = s.intCommit /\ u.archiveCommit = s.archiveCommit
      /\ u.finalCommit = s.finalCommit
  BY <1>1, StageNames, SavedState
<1> HIDE DEF u
<1>3. f.head > 0
  BY DEF Fits, HeadFits
<1>4. LabelFits(u, "audited", g)
  BY <1>2, <1>3 DEF LabelFits
<1>5. FeatureFits(u, f)
  BY <1>2, <1>3 DEF Fits, FeatureFits, RemovalStages
<1>6. IntegrationFits(u, g)
  BY <1>2, <1>3 DEF Fits, FeatureFits, IntegrationFits, Stages, FeatureStages, ConflictStages,
     BuildStages, RemovalStages, RecordStages, EarlyStages, AuditedStages,
     LandedStages, RecordedStages, IntegratedStages, OpenStages, Integrated
<1>7. HeadFits(u, f)
  BY <1>2, <1>3 DEF Fits, HeadFits, Stages, FeatureStages, ConflictStages,
     BuildStages, RemovalStages, RecordStages, EarlyStages, AuditedStages,
     LandedStages, RecordedStages, IntegratedStages, OpenStages, Integrated
<1>8. BuildFits(r, u, g)
  BY <1>2, <1>3 DEF Fits, HeadFits, BuildFits, Stages, FeatureStages, ConflictStages,
     BuildStages, RemovalStages, RecordStages, EarlyStages, AuditedStages,
     LandedStages, RecordedStages, IntegratedStages, OpenStages, Integrated,
     MayLand
<1>9. BaseFits(r, u, "audited", f, b)
  BY <1>2, <1>3 DEF Fits, FeatureFits, BuildFits, BaseFits, Stages, FeatureStages, ConflictStages,
     BuildStages, RemovalStages, RecordStages, EarlyStages, AuditedStages,
     LandedStages, RecordedStages, IntegratedStages, OpenStages, Integrated
<1> QED BY <1>1, <1>3, <1>4, <1>5, <1>6, <1>7, <1>8, <1>9 DEF t, u, Fits

\* A stopped run is audited again, for a merge.
LEMMA ReauditFits ==
  ASSUME NEW r \in Runs, NEW s \in State, NEW p, NEW f \in Feature,
         NEW g \in Integration, NEW b \in History, Fits(r, s, p, f, g, b),
         s.stage = "stopped_before_merge", NEW m \in {"squash", "no-ff"}
  PROVE  LET t == [s EXCEPT !.mode = m, !.archiveCommit = None]
         IN  t \in State /\
             Fits(r, [t EXCEPT !.stage = "audit_started"], "feature", f, g, b)
<1> DEFINE t == [s EXCEPT !.mode = m, !.archiveCommit = None]
           u == [t EXCEPT !.stage = "audit_started"]
<1>1. /\ t \in State
      /\ t.stage = s.stage /\ t.mode = m /\ t.keep = s.keep
      /\ t.auditHead = s.auditHead /\ t.intFeature = s.intFeature
      /\ t.fp = s.fp /\ t.intBase = s.intBase
      /\ t.intCommit = s.intCommit /\ t.archiveCommit = None
      /\ t.finalCommit = s.finalCommit
  BY DEF State, Modes
<1> HIDE DEF t
<1>2. /\ u \in State
      /\ u.stage = "audit_started" /\ u.mode = m /\ u.keep = s.keep
      /\ u.auditHead = s.auditHead /\ u.intFeature = s.intFeature
      /\ u.fp = s.fp /\ u.intBase = s.intBase
      /\ u.intCommit = s.intCommit /\ u.archiveCommit = None
      /\ u.finalCommit = s.finalCommit
  BY <1>1, StageNames, SavedState
<1> HIDE DEF u
<1>4. LabelFits(u, "feature", g)
  BY <1>2 DEF LabelFits
<1>5. FeatureFits(u, f)
  BY <1>2 DEF Fits, FeatureFits, RemovalStages
<1>6. IntegrationFits(u, g)
  BY <1>2 DEF Fits, FeatureFits, IntegrationFits, Stages, FeatureStages, ConflictStages,
     BuildStages, RemovalStages, RecordStages, EarlyStages, AuditedStages,
     LandedStages, RecordedStages, IntegratedStages, OpenStages, Integrated
<1>7. HeadFits(u, f)
  BY <1>2 DEF Fits, HeadFits, Stages, FeatureStages, ConflictStages,
     BuildStages, RemovalStages, RecordStages, EarlyStages, AuditedStages,
     LandedStages, RecordedStages, IntegratedStages, OpenStages, Integrated
<1>8. BuildFits(r, u, g)
  BY <1>2 DEF Fits, HeadFits, BuildFits, Stages, FeatureStages, ConflictStages,
     BuildStages, RemovalStages, RecordStages, EarlyStages, AuditedStages,
     LandedStages, RecordedStages, IntegratedStages, OpenStages, Integrated,
     MayLand
<1>9. BaseFits(r, u, "feature", f, b)
  BY <1>2 DEF Fits, FeatureFits, BuildFits, BaseFits, Stages, FeatureStages, ConflictStages,
     BuildStages, RemovalStages, RecordStages, EarlyStages, AuditedStages,
     LandedStages, RecordedStages, IntegratedStages, OpenStages, Integrated
<1> QED BY <1>1, <1>4, <1>5, <1>6, <1>7, <1>8, <1>9 DEF t, u, Fits

\* The base and the head to integrate are recorded.
LEMMA AllocateFits ==
  ASSUME NEW r \in Runs, NEW s \in State, NEW p, NEW f \in Feature,
         NEW g \in Integration, NEW b \in History, Fits(r, s, p, f, g, b),
         s.stage = "audit_complete", f.head = s.auditHead
  PROVE  LET t == [s EXCEPT !.intBase = b, !.intFeature = f.head,
                       !.fp = None, !.intCommit = None]
         IN  t \in State /\
             Fits(r, [t EXCEPT !.stage = "integration_allocated"], "finish", f, g, b)
<1> DEFINE t == [s EXCEPT !.intBase = b, !.intFeature = f.head,
                       !.fp = None, !.intCommit = None]
           u == [t EXCEPT !.stage = "integration_allocated"]
<1>1. /\ t \in State
      /\ t.stage = s.stage /\ t.mode = s.mode
      /\ t.keep = s.keep /\ t.auditHead = s.auditHead
      /\ t.intFeature = f.head /\ t.fp = None /\ t.intBase = b
      /\ t.intCommit = None /\ t.archiveCommit = s.archiveCommit
      /\ t.finalCommit = s.finalCommit
  BY DEF State, Feature, Integration
<1> HIDE DEF t
<1>2. /\ u \in State
      /\ u.stage = "integration_allocated" /\ u.mode = s.mode
      /\ u.keep = s.keep /\ u.auditHead = s.auditHead
      /\ u.intFeature = f.head /\ u.fp = None /\ u.intBase = b
      /\ u.intCommit = None /\ u.archiveCommit = s.archiveCommit
      /\ u.finalCommit = s.finalCommit
  BY <1>1, StageNames, SavedState
<1> HIDE DEF u
<1>4. LabelFits(u, "finish", g)
  BY <1>2 DEF LabelFits
<1>5. FeatureFits(u, f)
  BY <1>2 DEF Fits, FeatureFits, RemovalStages
<1>6. IntegrationFits(u, g)
  BY <1>2 DEF Fits, FeatureFits, IntegrationFits, Stages, FeatureStages, ConflictStages,
     BuildStages, RemovalStages, RecordStages, EarlyStages, AuditedStages,
     LandedStages, RecordedStages, IntegratedStages, OpenStages, Integrated
<1>7. HeadFits(u, f)
  BY <1>2 DEF Fits, HeadFits, Stages, FeatureStages, ConflictStages,
     BuildStages, RemovalStages, RecordStages, EarlyStages, AuditedStages,
     LandedStages, RecordedStages, IntegratedStages, OpenStages, Integrated
<1>8. BuildFits(r, u, g)
  BY <1>2 DEF Fits, HeadFits, BuildFits, Stages, FeatureStages, ConflictStages,
     BuildStages, RemovalStages, RecordStages, EarlyStages, AuditedStages,
     LandedStages, RecordedStages, IntegratedStages, OpenStages, Integrated,
     MayLand
<1>9. BaseFits(r, u, "finish", f, b)
  BY <1>2 DEF Fits, FeatureFits, BuildFits, BaseFits, Stages, FeatureStages, ConflictStages,
     BuildStages, RemovalStages, RecordStages, EarlyStages, AuditedStages,
     LandedStages, RecordedStages, IntegratedStages, OpenStages, Integrated
<1> QED BY <1>1, <1>4, <1>5, <1>6, <1>7, <1>8, <1>9 DEF t, u, Fits

\* What the merge left is recorded.
LEMMA MergeFits ==
  ASSUME NEW r \in Runs, NEW s \in State, NEW p, NEW f \in Feature,
         NEW g \in Integration, NEW b \in History, Fits(r, s, p, f, g, b),
         p = "merged",
         NEW stage \in {"integration_conflicts_detected",
                        "integration_merge_applied"},
         stage = "integration_conflicts_detected" => g.tree = "conflicted"
  PROVE  LET t == [s EXCEPT !.fp = g.tree]
         IN  t \in State /\
             Fits(r, [t EXCEPT !.stage = stage], "finish", f, g, b)
<1> DEFINE t == [s EXCEPT !.fp = g.tree]
           u == [t EXCEPT !.stage = stage]
<1>1. /\ t \in State
      /\ t.stage = s.stage /\ t.mode = s.mode /\ t.keep = s.keep
      /\ t.auditHead = s.auditHead /\ t.intFeature = s.intFeature
      /\ t.fp = g.tree /\ t.intBase = s.intBase
      /\ t.intCommit = s.intCommit /\ t.archiveCommit = s.archiveCommit
      /\ t.finalCommit = s.finalCommit
  BY DEF State, Feature, Integration
<1>10. stage \in Stages
  BY StageNames
<1> HIDE DEF t
<1>2. /\ u \in State
      /\ u.stage = stage /\ u.mode = s.mode /\ u.keep = s.keep
      /\ u.auditHead = s.auditHead /\ u.intFeature = s.intFeature
      /\ u.fp = g.tree /\ u.intBase = s.intBase
      /\ u.intCommit = s.intCommit /\ u.archiveCommit = s.archiveCommit
      /\ u.finalCommit = s.finalCommit
  BY <1>1, <1>10, SavedState
<1> HIDE DEF u
<1>3. s.stage = "integration_worktree_created" /\ g.tree # "clean"
  BY DEF Fits, LabelFits
<1>4. LabelFits(u, "finish", g)
  BY <1>2, <1>3 DEF LabelFits
<1>5. FeatureFits(u, f)
  BY <1>2, <1>3 DEF Fits, FeatureFits, RemovalStages
<1>6. IntegrationFits(u, g)
  BY <1>2, <1>3 DEF Fits, FeatureFits, IntegrationFits, Stages, FeatureStages, ConflictStages,
     BuildStages, RemovalStages, RecordStages, EarlyStages, AuditedStages,
     LandedStages, RecordedStages, IntegratedStages, OpenStages, Integrated
<1>7. HeadFits(u, f)
  BY <1>2, <1>3 DEF Fits, HeadFits, Stages, FeatureStages, ConflictStages,
     BuildStages, RemovalStages, RecordStages, EarlyStages, AuditedStages,
     LandedStages, RecordedStages, IntegratedStages, OpenStages, Integrated
<1>8. BuildFits(r, u, g)
  BY <1>2, <1>3 DEF Fits, HeadFits, BuildFits, Stages, FeatureStages, ConflictStages,
     BuildStages, RemovalStages, RecordStages, EarlyStages, AuditedStages,
     LandedStages, RecordedStages, IntegratedStages, OpenStages, Integrated,
     MayLand
<1>9. BaseFits(r, u, "finish", f, b)
  BY <1>2, <1>3 DEF Fits, FeatureFits, BuildFits, BaseFits, Stages, FeatureStages, ConflictStages,
     BuildStages, RemovalStages, RecordStages, EarlyStages, AuditedStages,
     LandedStages, RecordedStages, IntegratedStages, OpenStages, Integrated
<1> QED BY <1>1, <1>3, <1>4, <1>5, <1>6, <1>7, <1>8, <1>9 DEF t, u, Fits

\* A phase in a conflict is accepted.
LEMMA ConflictFits ==
  ASSUME NEW r \in Runs, NEW s \in State, NEW p, NEW f \in Feature,
         NEW g \in Integration, NEW b \in History, Fits(r, s, p, f, g, b),
         s.stage \in {"conflict_resolution_started", "post_conflict_audit_started"},
         NEW stage \in {"conflict_resolution_complete",
                        "post_conflict_audit_complete"}
  PROVE  LET t == [s EXCEPT !.fp = g.tree]
         IN  t \in State /\
             Fits(r, [t EXCEPT !.stage = stage], "finish", f, g, b)
<1> DEFINE t == [s EXCEPT !.fp = g.tree]
           u == [t EXCEPT !.stage = stage]
<1>1. /\ t \in State
      /\ t.stage = s.stage /\ t.mode = s.mode /\ t.keep = s.keep
      /\ t.auditHead = s.auditHead /\ t.intFeature = s.intFeature
      /\ t.fp = g.tree /\ t.intBase = s.intBase
      /\ t.intCommit = s.intCommit /\ t.archiveCommit = s.archiveCommit
      /\ t.finalCommit = s.finalCommit
  BY DEF State, Feature, Integration
<1>11. stage \in Stages
  BY StageNames
<1> HIDE DEF t
<1>2. /\ u \in State
      /\ u.stage = stage /\ u.mode = s.mode /\ u.keep = s.keep
      /\ u.auditHead = s.auditHead /\ u.intFeature = s.intFeature
      /\ u.fp = g.tree /\ u.intBase = s.intBase
      /\ u.intCommit = s.intCommit /\ u.archiveCommit = s.archiveCommit
      /\ u.finalCommit = s.finalCommit
  BY <1>1, <1>11, SavedState
<1> HIDE DEF u
<1>4. LabelFits(u, "finish", g)
  BY <1>2 DEF LabelFits
<1>5. FeatureFits(u, f)
  BY <1>2 DEF Fits, FeatureFits, RemovalStages
<1>6. IntegrationFits(u, g)
  BY <1>2 DEF Fits, FeatureFits, IntegrationFits, Stages, FeatureStages, ConflictStages,
     BuildStages, RemovalStages, RecordStages, EarlyStages, AuditedStages,
     LandedStages, RecordedStages, IntegratedStages, OpenStages, Integrated
<1>7. HeadFits(u, f)
  BY <1>2 DEF Fits, HeadFits, Stages, FeatureStages, ConflictStages,
     BuildStages, RemovalStages, RecordStages, EarlyStages, AuditedStages,
     LandedStages, RecordedStages, IntegratedStages, OpenStages, Integrated
<1>8. BuildFits(r, u, g)
  BY <1>2 DEF Fits, HeadFits, BuildFits, Stages, FeatureStages, ConflictStages,
     BuildStages, RemovalStages, RecordStages, EarlyStages, AuditedStages,
     LandedStages, RecordedStages, IntegratedStages, OpenStages, Integrated,
     MayLand
<1>9. BaseFits(r, u, "finish", f, b)
  BY <1>2 DEF Fits, FeatureFits, BuildFits, BaseFits, Stages, FeatureStages, ConflictStages,
     BuildStages, RemovalStages, RecordStages, EarlyStages, AuditedStages,
     LandedStages, RecordedStages, IntegratedStages, OpenStages, Integrated
<1> QED BY <1>1, <1>4, <1>5, <1>6, <1>7, <1>8, <1>9 DEF t, u, Fits

\* The integration commit is recorded.
LEMMA CommitFits ==
  ASSUME NEW r \in Runs, NEW s \in State, NEW p, NEW f \in Feature,
         NEW g \in Integration, NEW b \in History, Fits(r, s, p, f, g, b),
         s.stage = "integration_changes_staged", g.tip # s.intBase
  PROVE  LET t == [s EXCEPT !.intCommit = g.tip]
         IN  t \in State /\
             Fits(r, [t EXCEPT !.stage = "integration_committed"], "finish", f, g, b)
<1> DEFINE t == [s EXCEPT !.intCommit = g.tip]
           u == [t EXCEPT !.stage = "integration_committed"]
<1>1. /\ t \in State
      /\ t.stage = s.stage /\ t.mode = s.mode
      /\ t.keep = s.keep /\ t.auditHead = s.auditHead
      /\ t.intFeature = s.intFeature /\ t.fp = s.fp
      /\ t.intBase = s.intBase /\ t.intCommit = g.tip
      /\ t.archiveCommit = s.archiveCommit
      /\ t.finalCommit = s.finalCommit
  BY DEF State, Feature, Integration
<1> HIDE DEF t
<1>2. /\ u \in State
      /\ u.stage = "integration_committed" /\ u.mode = s.mode
      /\ u.keep = s.keep /\ u.auditHead = s.auditHead
      /\ u.intFeature = s.intFeature /\ u.fp = s.fp
      /\ u.intBase = s.intBase /\ u.intCommit = g.tip
      /\ u.archiveCommit = s.archiveCommit
      /\ u.finalCommit = s.finalCommit
  BY <1>1, StageNames, SavedState
<1> HIDE DEF u
<1>3. g.tip \in History /\ g.tip = Append(s.intBase, Integrated(r, s))
  <2>1. s.intBase \in History /\ g.tip = Append(s.intBase, Integrated(r, s))
    BY DEF Fits, HeadFits, BuildFits, IntegratedStages, BuildStages
  <2>2. Integrated(r, s) \in Commit
    BY BoundsAssumption, CommitType DEF Integrated, Kinds, State
  <2> QED BY <2>1, <2>2, AppendCommit
<1>4. LabelFits(u, "finish", g)
  BY <1>2, <1>3 DEF LabelFits
<1>5. FeatureFits(u, f)
  BY <1>2, <1>3 DEF Fits, FeatureFits, RemovalStages
<1>6. IntegrationFits(u, g)
  BY <1>2, <1>3 DEF Fits, FeatureFits, IntegrationFits, Stages, FeatureStages, ConflictStages,
     BuildStages, RemovalStages, RecordStages, EarlyStages, AuditedStages,
     LandedStages, RecordedStages, IntegratedStages, OpenStages, Integrated
<1>7. HeadFits(u, f)
  BY <1>2, <1>3 DEF Fits, HeadFits, Stages, FeatureStages, ConflictStages,
     BuildStages, RemovalStages, RecordStages, EarlyStages, AuditedStages,
     LandedStages, RecordedStages, IntegratedStages, OpenStages, Integrated
<1>8. BuildFits(r, u, g)
  BY <1>2, <1>3 DEF Fits, HeadFits, BuildFits, Stages, FeatureStages, ConflictStages,
     BuildStages, RemovalStages, RecordStages, EarlyStages, AuditedStages,
     LandedStages, RecordedStages, IntegratedStages, OpenStages, Integrated,
     MayLand
<1>9. BaseFits(r, u, "finish", f, b)
  BY <1>2, <1>3 DEF Fits, FeatureFits, BuildFits, BaseFits, Stages, FeatureStages, ConflictStages,
     BuildStages, RemovalStages, RecordStages, EarlyStages, AuditedStages,
     LandedStages, RecordedStages, IntegratedStages, OpenStages, Integrated
<1> QED BY <1>1, <1>3, <1>4, <1>5, <1>6, <1>7, <1>8, <1>9 DEF t, u, Fits

\* The build is forgotten once it is removed.
LEMMA RebuildFits ==
  ASSUME NEW r \in Runs, NEW s \in State, NEW p, NEW f \in Feature,
         NEW g \in Integration, NEW b \in History, Fits(r, s, p, f, g, b),
         s.stage = "integration_rebuild_cleanup", ~g.wt
  PROVE  LET t == [s EXCEPT !.intBase = None, !.intFeature = 0,
                       !.fp = None, !.intCommit = None]
         IN  t \in State /\
             Fits(r, [t EXCEPT !.stage = "audit_complete"], "finish", f, g, b)
<1> DEFINE t == [s EXCEPT !.intBase = None, !.intFeature = 0,
                       !.fp = None, !.intCommit = None]
           u == [t EXCEPT !.stage = "audit_complete"]
<1>1. /\ t \in State
      /\ t.stage = s.stage /\ t.mode = s.mode /\ t.keep = s.keep
      /\ t.auditHead = s.auditHead /\ t.intFeature = 0 /\ t.fp = None
      /\ t.intBase = None /\ t.intCommit = None
      /\ t.archiveCommit = s.archiveCommit
      /\ t.finalCommit = s.finalCommit
  BY NoHead DEF State
<1> HIDE DEF t
<1>2. /\ u \in State
      /\ u.stage = "audit_complete" /\ u.mode = s.mode /\ u.keep = s.keep
      /\ u.auditHead = s.auditHead /\ u.intFeature = 0 /\ u.fp = None
      /\ u.intBase = None /\ u.intCommit = None
      /\ u.archiveCommit = s.archiveCommit
      /\ u.finalCommit = s.finalCommit
  BY <1>1, StageNames, SavedState
<1> HIDE DEF u
<1>4. LabelFits(u, "finish", g)
  BY <1>2 DEF LabelFits
<1>5. FeatureFits(u, f)
  BY <1>2 DEF Fits, FeatureFits, RemovalStages
<1>6. IntegrationFits(u, g)
  BY <1>2 DEF Fits, FeatureFits, IntegrationFits, Stages, FeatureStages, ConflictStages,
     BuildStages, RemovalStages, RecordStages, EarlyStages, AuditedStages,
     LandedStages, RecordedStages, IntegratedStages, OpenStages, Integrated
<1>7. HeadFits(u, f)
  BY <1>2 DEF Fits, HeadFits, Stages, FeatureStages, ConflictStages,
     BuildStages, RemovalStages, RecordStages, EarlyStages, AuditedStages,
     LandedStages, RecordedStages, IntegratedStages, OpenStages, Integrated
<1>8. BuildFits(r, u, g)
  BY <1>2 DEF Fits, HeadFits, BuildFits, Stages, FeatureStages, ConflictStages,
     BuildStages, RemovalStages, RecordStages, EarlyStages, AuditedStages,
     LandedStages, RecordedStages, IntegratedStages, OpenStages, Integrated,
     MayLand
<1>9. BaseFits(r, u, "finish", f, b)
  BY <1>2 DEF Fits, FeatureFits, BuildFits, BaseFits, Stages, FeatureStages, ConflictStages,
     BuildStages, RemovalStages, RecordStages, EarlyStages, AuditedStages,
     LandedStages, RecordedStages, IntegratedStages, OpenStages, Integrated
<1> QED BY <1>1, <1>4, <1>5, <1>6, <1>7, <1>8, <1>9 DEF t, u, Fits

\* The archive commit is recorded.
LEMMA ArchiveFits ==
  ASSUME NEW r \in Runs, NEW s \in State, NEW p, NEW f \in Feature,
         NEW g \in Integration, NEW b \in History, Fits(r, s, p, f, g, b),
         s.stage = "handoff_archived", Tops(b, "archive", r),
         Front(b) = s.intCommit
  PROVE  LET t == [s EXCEPT !.archiveCommit = b]
         IN  t \in State /\
             Fits(r, [t EXCEPT !.stage = "artifacts_committed"], "finish", f, g, b)
<1> DEFINE t == [s EXCEPT !.archiveCommit = b]
           u == [t EXCEPT !.stage = "artifacts_committed"]
<1>1. /\ t \in State
      /\ t.stage = s.stage /\ t.mode = s.mode
      /\ t.keep = s.keep /\ t.auditHead = s.auditHead
      /\ t.intFeature = s.intFeature /\ t.fp = s.fp
      /\ t.intBase = s.intBase /\ t.intCommit = s.intCommit
      /\ t.archiveCommit = b /\ t.finalCommit = s.finalCommit
  BY DEF State, Feature, Integration
<1> HIDE DEF t
<1>2. /\ u \in State
      /\ u.stage = "artifacts_committed" /\ u.mode = s.mode
      /\ u.keep = s.keep /\ u.auditHead = s.auditHead
      /\ u.intFeature = s.intFeature /\ u.fp = s.fp
      /\ u.intBase = s.intBase /\ u.intCommit = s.intCommit
      /\ u.archiveCommit = b /\ u.finalCommit = s.finalCommit
  BY <1>1, StageNames, SavedState
<1> HIDE DEF u
<1>3. IsPrefix(b, b)
  BY PrefixElements, LenProperties DEF History
<1>4. LabelFits(u, "finish", g)
  BY <1>2, <1>3 DEF LabelFits
<1>5. FeatureFits(u, f)
  BY <1>2, <1>3 DEF Fits, FeatureFits, RemovalStages
<1>6. IntegrationFits(u, g)
  BY <1>2, <1>3 DEF Fits, FeatureFits, IntegrationFits, Stages, FeatureStages, ConflictStages,
     BuildStages, RemovalStages, RecordStages, EarlyStages, AuditedStages,
     LandedStages, RecordedStages, IntegratedStages, OpenStages, Integrated
<1>7. HeadFits(u, f)
  BY <1>2, <1>3 DEF Fits, HeadFits, Stages, FeatureStages, ConflictStages,
     BuildStages, RemovalStages, RecordStages, EarlyStages, AuditedStages,
     LandedStages, RecordedStages, IntegratedStages, OpenStages, Integrated
<1>8. BuildFits(r, u, g)
  BY <1>2, <1>3 DEF Fits, HeadFits, BuildFits, Stages, FeatureStages, ConflictStages,
     BuildStages, RemovalStages, RecordStages, EarlyStages, AuditedStages,
     LandedStages, RecordedStages, IntegratedStages, OpenStages, Integrated,
     MayLand
<1>9. BaseFits(r, u, "finish", f, b)
  BY <1>2, <1>3 DEF Fits, FeatureFits, BuildFits, BaseFits, Stages, FeatureStages, ConflictStages,
     BuildStages, RemovalStages, RecordStages, EarlyStages, AuditedStages,
     LandedStages, RecordedStages, IntegratedStages, OpenStages, Integrated
<1> QED BY <1>1, <1>3, <1>4, <1>5, <1>6, <1>7, <1>8, <1>9 DEF t, u, Fits

\* The final commit is recorded.
LEMMA FinalFits ==
  ASSUME NEW r \in Runs, NEW s \in State, NEW p, NEW f \in Feature,
         NEW g \in Integration, NEW b \in History, Fits(r, s, p, f, g, b),
         s.stage \in {"cleanup_complete", "worktrees_retained"},
         Tops(b, "finalize", r), Front(b) = s.archiveCommit
  PROVE  LET t == [s EXCEPT !.finalCommit = b]
         IN  t \in State /\
             Fits(r, [t EXCEPT !.stage = "complete"], "done", f, g, b)
<1> DEFINE t == [s EXCEPT !.finalCommit = b]
           u == [t EXCEPT !.stage = "complete"]
<1>1. /\ t \in State
      /\ t.stage = s.stage /\ t.mode = s.mode /\ t.keep = s.keep
      /\ t.auditHead = s.auditHead /\ t.intFeature = s.intFeature
      /\ t.fp = s.fp /\ t.intBase = s.intBase
      /\ t.intCommit = s.intCommit /\ t.archiveCommit = s.archiveCommit
      /\ t.finalCommit = b
  BY DEF State, Feature, Integration
<1> HIDE DEF t
<1>2. /\ u \in State
      /\ u.stage = "complete" /\ u.mode = s.mode /\ u.keep = s.keep
      /\ u.auditHead = s.auditHead /\ u.intFeature = s.intFeature
      /\ u.fp = s.fp /\ u.intBase = s.intBase
      /\ u.intCommit = s.intCommit /\ u.archiveCommit = s.archiveCommit
      /\ u.finalCommit = b
  BY <1>1, StageNames, SavedState
<1> HIDE DEF u
<1>10. f.wt = s.keep /\ f.branch = s.keep /\ g.wt = s.keep /\ g.branch = s.keep
  <2>1. CASE s.stage = "cleanup_complete"
    <3>1. ~s.keep /\ ~f.wt /\ ~f.branch /\ ~g.wt /\ ~g.branch
      BY <2>1 DEF Fits, FeatureFits, IntegrationFits, RemovalStages
    <3> QED BY <3>1 DEF State, Feature, Integration
  <2>2. CASE s.stage = "worktrees_retained"
    <3>1. s.keep /\ f.wt /\ f.branch /\ g.wt /\ g.branch
      BY <2>2 DEF Fits, FeatureFits, IntegrationFits, RemovalStages
    <3> QED BY <3>1 DEF State, Feature, Integration
  <2> QED BY <2>1, <2>2
<1>3. IsPrefix(b, b)
  BY PrefixElements, LenProperties DEF History
<1>4. LabelFits(u, "done", g)
  BY <1>2, <1>3, <1>10 DEF LabelFits
<1>5. FeatureFits(u, f)
  BY <1>2, <1>3, <1>10 DEF Fits, FeatureFits, RemovalStages
<1>6. IntegrationFits(u, g)
  BY <1>2, <1>3, <1>10 DEF Fits, FeatureFits, IntegrationFits, Stages, FeatureStages, ConflictStages,
     BuildStages, RemovalStages, RecordStages, EarlyStages, AuditedStages,
     LandedStages, RecordedStages, IntegratedStages, OpenStages, Integrated
<1>7. HeadFits(u, f)
  BY <1>2, <1>3, <1>10 DEF Fits, HeadFits, Stages, FeatureStages, ConflictStages,
     BuildStages, RemovalStages, RecordStages, EarlyStages, AuditedStages,
     LandedStages, RecordedStages, IntegratedStages, OpenStages, Integrated
<1>8. BuildFits(r, u, g)
  BY <1>2, <1>3, <1>10 DEF Fits, HeadFits, BuildFits, Stages, FeatureStages, ConflictStages,
     BuildStages, RemovalStages, RecordStages, EarlyStages, AuditedStages,
     LandedStages, RecordedStages, IntegratedStages, OpenStages, Integrated,
     MayLand
<1>9. BaseFits(r, u, "done", f, b)
  BY <1>2, <1>3, <1>10 DEF Fits, FeatureFits, BuildFits, BaseFits, Stages, FeatureStages, ConflictStages,
     BuildStages, RemovalStages, RecordStages, EarlyStages, AuditedStages,
     LandedStages, RecordedStages, IntegratedStages, OpenStages, Integrated
<1> QED BY <1>1, <1>3, <1>10, <1>4, <1>5, <1>6, <1>7, <1>8, <1>9 DEF t, u, Fits

\* The receipt of a stop is recorded or adopted.
LEMMA StoppedFits ==
  ASSUME NEW r \in Runs, NEW s \in State, NEW p, NEW f \in Feature,
         NEW g \in Integration, NEW b \in History, Fits(r, s, p, f, g, b),
         s.stage = "stopped_before_merge"
  PROVE  LET t == [s EXCEPT !.archiveCommit = b]
         IN  t \in State /\ Fits(r, t, "down", f, g, b)
<1> DEFINE t == [s EXCEPT !.archiveCommit = b]
<1>1. /\ t \in State /\ t.stage = s.stage /\ t.keep = s.keep
      /\ t.auditHead = s.auditHead /\ t.intFeature = s.intFeature
      /\ t.intBase = s.intBase /\ t.intCommit = s.intCommit
  BY DEF State
<1> HIDE DEF t
<1>2. LabelFits(t, "down", g) /\ FeatureFits(t, f) /\ HeadFits(t, f)
  BY <1>1 DEF Fits, LabelFits, FeatureFits, HeadFits
<1>3. IntegrationFits(t, g)
  BY <1>1 DEF Fits, IntegrationFits
<1>4. BuildFits(r, t, g) /\ BaseFits(r, t, "down", f, b)
  BY <1>1 DEF Fits, BuildFits, BaseFits, OpenStages, BuildStages, ConflictStages,
     LandedStages, RecordedStages, RecordStages, RemovalStages
<1> QED BY <1>1, <1>2, <1>3, <1>4 DEF Fits, t

----------------------------------------------------------------------------
(* The actions of a run, phase by phase.                                   *)

\* A run saves a stage and nothing else.
LEMMA SaveKeeps ==
  ASSUME IInv, DistinctNames, NEW r \in Runs, Stage(r) # "none",
         NEW stage \in Stages \ {"audit_complete"}, NEW p \in Working,
         Advance(r, stage, st[r], p),
         Fits(r, [st[r] EXCEPT !.stage = stage], p, Feat(r), integ[r], base)
  PROVE  IInv'
BY Known, AdvanceKeeps

\* A label that claims nothing fits.
LEMMA LabelFree ==
  ASSUME NEW r, NEW s, NEW p, NEW f, NEW g, NEW b, Fits(r, s, p, f, g, b),
         NEW q \in {"alloc", "feature", "harness", "returned", "finish", "down",
                    "done"}
  PROVE  Fits(r, s, q, f, g, b)
BY DEF Fits, LabelFits, BaseFits

\* Up to the audit.
LEMMA ImplementKeeps ==
  ASSUME IInv, DistinctNames, NEW r \in Runs,
         \/ CopyPlan(r) \/ StartImplementation(r) \/ AcceptImplementation(r)
         \/ StartAudit(r) \/ AcceptAudit(r) \/ CheckAudit(r) \/ LeaveFeature(r)
  PROVE  IInv'
<1> USE StageNames, LabelNames
<1>1. CASE CopyPlan(r)
  <2>1. /\ Stage(r) = "feature_worktree_created"
        /\ Advance(r, "plan_copied", st[r], "feature")
    BY <1>1 DEF CopyPlan, At
  <2>2. Fits(r, [st[r] EXCEPT !.stage = "plan_copied"], "feature", Feat(r),
             integ[r], base)
    BY <2>1, Known, FeatureSavesFit
  <2> QED BY <2>1, <2>2, SaveKeeps
<1>2. CASE StartImplementation(r)
  <2>1. /\ Stage(r) = "plan_copied"
        /\ Advance(r, "implementation_started", st[r], "feature")
    BY <1>2 DEF StartImplementation, At
  <2>2. Fits(r, [st[r] EXCEPT !.stage = "implementation_started"], "feature",
             Feat(r), integ[r], base)
    BY <2>1, Known, FeatureSavesFit
  <2> QED BY <2>1, <2>2, SaveKeeps
<1>3. CASE AcceptImplementation(r)
  <2>1. Stage(r) = "implementation_started"
    BY <1>3 DEF AcceptImplementation, At
  <2>2. CASE Refuse(r)
    BY <2>1, <2>2, RefuseKeeps
  <2>3. CASE /\ CleanFeature(r) /\ HasCommits(r)
             /\ Advance(r, "implementation_complete", st[r], "feature")
    <3>1. Fits(r, [st[r] EXCEPT !.stage = "implementation_complete"],
               "feature", Feat(r), integ[r], base)
      BY <2>1, <2>3, Known, FeatureSavesFit DEF CleanFeature, HasCommits
    <3> QED BY <2>1, <2>3, <3>1, SaveKeeps
  <2> QED BY <1>3, <2>2, <2>3 DEF AcceptImplementation
<1>4. CASE StartAudit(r)
  <2>1. /\ Stage(r) = "implementation_complete"
        /\ Advance(r, "audit_started", st[r], "feature")
    BY <1>4 DEF StartAudit, At
  <2>2. Fits(r, [st[r] EXCEPT !.stage = "audit_started"], "feature",
             Feat(r), integ[r], base)
    BY <2>1, Known, FeatureSavesFit
  <2> QED BY <2>1, <2>2, SaveKeeps
<1>5. CASE AcceptAudit(r)
  <2> DEFINE s == [st[r] EXCEPT !.auditHead = Feat(r).head]
  <2>1. Stage(r) = "audit_started"
    BY <1>5 DEF AcceptAudit, At
  <2>2. CASE Refuse(r)
    BY <2>1, <2>2, RefuseKeeps
  <2>3. CASE /\ Feat(r).audit /\ CleanFeature(r)
             /\ Advance(r, "audit_complete", s, "audited")
    <3>1. /\ s \in State /\ s.auditHead > 0
          /\ Fits(r, [s EXCEPT !.stage = "audit_complete"], "audited", Feat(r),
                  integ[r], base)
      BY <2>1, <2>3, Known, AuditFits DEF CleanFeature
    <3> QED BY <2>1, <2>3, <3>1, AdvanceKeeps
  <2> QED BY <1>5, <2>2, <2>3 DEF AcceptAudit
<1>6. CASE CheckAudit(r)
  <2>1. Stage(r) = "audit_complete"
    BY <1>6 DEF CheckAudit, At
  <2>2. CASE Refuse(r)
    BY <2>1, <2>2, RefuseKeeps
  <2>3. CASE Advance(r, "audit_started", st[r], "feature")
    <3>1. Fits(r, [st[r] EXCEPT !.stage = "audit_started"], "feature",
               Feat(r), integ[r], base)
      BY <2>1, Known, FeatureSavesFit
    <3> QED BY <2>1, <2>3, <3>1, SaveKeeps
  <2>4. CASE GoTo(r, "audited") /\ UNCHANGED <<st, world>>
    <3>1. Fits(r, st[r], "audited", Feat(r), integ[r], base)
      BY <2>1, Known DEF Fits, LabelFits, BaseFits
    <3> QED BY <2>1, <2>4, <3>1, GoToKeeps DEF world, IInv, TypeOK
  <2> QED BY <1>6, <2>2, <2>3, <2>4 DEF CheckAudit
<1>7. CASE LeaveFeature(r)
  <2>1. pc[r] = "audited"
    BY <1>7 DEF LeaveFeature
  <2>2. Stage(r) = "audit_complete"
    BY <2>1, Started, Known DEF Fits, LabelFits
  <2>3. CASE Refuse(r)
    BY <2>2, <2>3, RefuseKeeps
  <2>4. CASE Advance(r, "stopped_before_merge", st[r], "stopping")
    <3>1. Fits(r, [st[r] EXCEPT !.stage = "stopped_before_merge"], "stopping",
               Feat(r), integ[r], base)
      BY <2>2, Known, FeatureSavesFit
    <3> QED BY <2>2, <2>4, <3>1, SaveKeeps
  <2>5. CASE GoTo(r, "finish") /\ UNCHANGED <<st, world>>
    <3>1. Fits(r, st[r], "finish", Feat(r), integ[r], base)
      BY <2>2, Known, LabelFree
    <3> QED BY <2>2, <2>5, <3>1, GoToKeeps DEF world, IInv, TypeOK
  <2> QED BY <1>7, <2>3, <2>4, <2>5 DEF LeaveFeature
<1> QED BY <1>1, <1>2, <1>3, <1>4, <1>5, <1>6, <1>7

\* A label that stays where it is.
LEMMA SameLabel ==
  ASSUME IInv, NEW r \in Runs, pc' = pc
  PROVE  pc' = [pc EXCEPT ![r] = pc[r]]
BY SameAt DEF IInv, TypeOK

\* A harness in the feature worktree.
LEMMA HarnessFits ==
  ASSUME NEW r \in Runs, NEW s \in State, NEW p, NEW f \in Feature,
         NEW g \in Integration, NEW b \in History, Fits(r, s, p, f, g, b),
         s.stage \in {"implementation_started", "audit_started"},
         NEW e \in Feature, e.wt = f.wt, e.branch = f.branch, e.head >= f.head,
         NEW q \in {"harness", "returned", "down"}
  PROVE  Fits(r, s, q, e, g, b)
<1>1. e.head \in Nat /\ f.head \in Nat
  BY BoundsAssumption DEF Feature
<1>2. f.wt /\ f.branch
  BY DEF Fits, FeatureFits, RemovalStages
<1>3. LabelFits(s, q, g) /\ FeatureFits(s, e)
  BY <1>2 DEF Fits, FeatureFits, LabelFits, RemovalStages
<1>4. HeadFits(s, e)
  BY <1>1 DEF Fits, HeadFits, AuditedStages, IntegratedStages, BuildStages,
     ConflictStages, LandedStages, RecordStages, RemovalStages
<1>5. BaseFits(r, s, q, e, b)
  BY <1>2 DEF Fits, BaseFits
<1> QED BY <1>3, <1>4, <1>5 DEF Fits

\* The feature worktree.
LEMMA FeatureTreeKeeps ==
  ASSUME IInv, DistinctNames, NEW r \in Runs,
         \/ AddFeatureWorktree(r) \/ SaveFeatureWorktree(r)
         \/ LaunchImplementation(r) \/ LaunchAudit(r) \/ RunFeatureHarness(r)
  PROVE  IInv'
<1> USE StageNames, LabelNames
<1>b. budget \in [fault : 0..FaultMax, user : 0..UserMax]
  BY DEF IInv, TypeOK
<1>1. CASE AddFeatureWorktree(r)
  <2> DEFINE f == [NoFeature EXCEPT !.wt = TRUE, !.branch = TRUE,
                                    !.from = st[r].featBase]
  <2>1. Stage(r) = "feature_allocated" /\ ~Feat(r).wt
    BY <1>1 DEF AddFeatureWorktree, At
  <2>2. CASE Refuse(r)
    BY <2>1, <2>2, RefuseKeeps
  <2>3. CASE SetFeat(r, f) /\ UNCHANGED <<st, pc, budget>>
    <3>1. /\ f \in Feature /\ f.wt /\ f.branch
      BY <2>1, Known, NoHead DEF NoFeature, Feature, State
    <3> HIDE DEF f
    <3>2. Fits(r, st[r], pc[r], Feat(r), integ[r], base) /\ st[r].stage = "feature_allocated"
      BY <2>1, Known
    <3>3. LabelFits(st[r], pc[r], integ[r]) /\ IntegrationFits(st[r], integ[r]) /\ BuildFits(r, st[r], integ[r])
      BY <3>2 DEF Fits
    <3>4. FeatureFits(st[r], f)
      BY <3>1, <3>2 DEF FeatureFits, RemovalStages
    <3>5. HeadFits(st[r], f)
      BY <3>2 DEF HeadFits, AuditedStages, IntegratedStages, BuildStages,
        ConflictStages, LandedStages, RecordStages, RemovalStages
    <3>6. BaseFits(r, st[r], pc[r], f, base)
      BY <3>1, <3>2 DEF Fits, BaseFits
    <3>7. Fits(r, st[r], pc[r], f, integ[r], base)
      BY <3>3, <3>4, <3>5, <3>6 DEF Fits
    <3> QED BY <1>b, <2>1, <2>3, <3>1, <3>7, Known, SameLabel, SetFeatKeeps
  <2> QED BY <1>1, <2>2, <2>3 DEF AddFeatureWorktree
<1>2. CASE SaveFeatureWorktree(r)
  <2>1. Stage(r) = "feature_allocated" /\ Feat(r).wt
    BY <1>2 DEF SaveFeatureWorktree, At
  <2>2. CASE Refuse(r)
    BY <2>1, <2>2, RefuseKeeps
  <2>3. CASE Advance(r, "feature_worktree_created", st[r], "feature")
    <3>1. Fits(r, [st[r] EXCEPT !.stage = "feature_worktree_created"],
               "feature", Feat(r), integ[r], base)
      BY <2>1, Known, FeatureSavesFit
    <3> QED BY <2>1, <2>3, <3>1, SaveKeeps
  <2> QED BY <1>2, <2>2, <2>3 DEF SaveFeatureWorktree
<1>3. CASE LaunchImplementation(r) \/ LaunchAudit(r)
  <2> DEFINE f == RemovePhaseOutputs(r)
  <2>1. /\ Stage(r) \in {"implementation_started", "audit_started"}
        /\ SetFeat(r, f) /\ GoTo(r, "harness") /\ UNCHANGED <<st, budget>>
    BY <1>3 DEF LaunchImplementation, LaunchAudit, At
  <2>2. Stage(r) # "none" /\ Feat(r) \in Feature
    BY <2>1, Known
  <2>3. /\ f \in Feature /\ f.wt = Feat(r).wt /\ f.branch = Feat(r).branch
        /\ f.head = Feat(r).head
    <3>1. (Feat(r).impl /\ Stage(r) # "implementation_started") \in BOOLEAN
      OBVIOUS
    <3> QED BY <2>2, <3>1 DEF RemovePhaseOutputs, Feature
  <2> HIDE DEF f
  <2>4. f.head >= Feat(r).head
    BY <2>2, <2>3, BoundsAssumption DEF Feature
  <2>5. Fits(r, st[r], "harness", f, integ[r], base)
    BY <2>1, <2>3, <2>4, Known, HarnessFits
  <2> QED BY <1>b, <2>1, <2>3, <2>5, SetFeatKeeps DEF GoTo
<1>4. CASE RunFeatureHarness(r)
  <2>1. Stage(r) \in {"implementation_started", "audit_started"}
    BY <1>4 DEF RunFeatureHarness
  <2>2. Stage(r) # "none" /\ Feat(r) \in Feature
    BY <2>1, Known
  <2>3. PICK outcome \in HarnessOutcomes, more \in 0..1 :
          LET head == Feat(r).head + more
              told == outcome # "no summary"
          IN  /\ head <= MaxHead
              /\ IF outcome = "good" /\ head > 0
                 THEN UNCHANGED budget
                 ELSE SpendFault
              /\ SetFeat(r, [Feat(r) EXCEPT
                   !.head = head,
                   !.dirty = outcome = "dirty",
                   !.impl = @ \/ (told /\ Stage(r) = "implementation_started"),
                   !.audit = @ \/ (told /\ Stage(r) = "audit_started")])
              /\ GoTo(r, IF outcome = "error" THEN "down" ELSE "returned")
    BY <1>4 DEF RunFeatureHarness
  <2> DEFINE told == outcome # "no summary"
             impl == Feat(r).impl \/ (told /\ Stage(r) = "implementation_started")
             audit == Feat(r).audit \/ (told /\ Stage(r) = "audit_started")
             dirty == outcome = "dirty"
             head == Feat(r).head + more
             f == [Feat(r) EXCEPT !.head = head, !.dirty = dirty,
                                  !.impl = impl, !.audit = audit]
             p == IF outcome = "error" THEN "down" ELSE "returned"
  <2>4. SetFeat(r, f) /\ GoTo(r, p) /\ st' = st
    BY <1>4, <2>3 DEF RunFeatureHarness
  <2>5. impl \in BOOLEAN /\ audit \in BOOLEAN /\ dirty \in BOOLEAN
    OBVIOUS
  <2>6. head \in 0..MaxHead /\ head >= Feat(r).head
    BY <2>2, <2>3, BoundsAssumption DEF Feature
  <2>7. budget' \in [fault : 0..FaultMax, user : 0..UserMax]
    BY <1>b, <2>3, BoundsAssumption DEF SpendFault
  <2>8. p \in {"returned", "down"}
    OBVIOUS
  <2> HIDE DEF told, impl, audit, dirty, head, p
  <2>9. /\ f \in Feature /\ f.wt = Feat(r).wt /\ f.branch = Feat(r).branch
        /\ f.head >= Feat(r).head
    BY <2>2, <2>5, <2>6 DEF Feature
  <2> HIDE DEF f
  <2>10. Fits(r, st[r], p, f, integ[r], base)
    BY <2>1, <2>8, <2>9, Known, HarnessFits
  <2> QED BY <2>1, <2>4, <2>7, <2>8, <2>9, <2>10, SetFeatKeeps DEF GoTo
<1> QED BY <1>1, <1>2, <1>3, <1>4

\* The integration worktree changes, its stage stays.
LEMMA TreeFits ==
  ASSUME NEW r \in Runs, NEW s \in State, NEW p, NEW f \in Feature,
         NEW g \in Integration, NEW b \in History, Fits(r, s, p, f, g, b),
         NEW h \in Integration, NEW q,
         LabelFits(s, q, h), IntegrationFits(s, h), BuildFits(r, s, h),
         q # "ff"
  PROVE  Fits(r, s, q, f, h, b)
BY DEF Fits, BaseFits

\* Up to the merge.
LEMMA MergeKeeps ==
  ASSUME IInv, DistinctNames, NEW r \in Runs,
         \/ AllocateIntegration(r) \/ AddIntegrationWorktree(r)
         \/ SaveIntegrationWorktree(r) \/ Merge(r) \/ SaveMerge(r)
  PROVE  IInv'
<1> USE StageNames, LabelNames
<1>b. budget \in [fault : 0..FaultMax, user : 0..UserMax]
  BY DEF IInv, TypeOK
<1>1. CASE AllocateIntegration(r)
  <2> DEFINE s == [st[r] EXCEPT !.intBase = base, !.intFeature = Feat(r).head,
                                !.fp = None, !.intCommit = None]
  <2>1. Stage(r) = "audit_complete"
    BY <1>1 DEF AllocateIntegration, At
  <2>2. CASE Refuse(r)
    BY <2>1, <2>2, RefuseKeeps
  <2>3. CASE /\ Feat(r).head = st[r].auditHead
             /\ Advance(r, "integration_allocated", s, "finish")
    <3>1. /\ s \in State
          /\ Fits(r, [s EXCEPT !.stage = "integration_allocated"], "finish",
                  Feat(r), integ[r], base)
      BY <2>1, <2>3, Known, AllocateFits
    <3> QED BY <2>1, <2>3, <3>1, AdvanceKeeps
  <2> QED BY <1>1, <2>2, <2>3 DEF AllocateIntegration
<1>2. CASE AddIntegrationWorktree(r)
  <2> DEFINE g == [NoInteg EXCEPT !.wt = TRUE, !.branch = TRUE,
                                  !.tip = st[r].intBase]
  <2>1. /\ Stage(r) = "integration_allocated" /\ pc[r] = "finish"
        /\ SetInteg(r, g) /\ UNCHANGED <<st, pc, budget>>
    BY <1>2 DEF AddIntegrationWorktree, At
  <2>2. /\ g \in Integration /\ g.wt /\ g.branch /\ g.tip = st[r].intBase
        /\ g.tree = "clean"
    BY <2>1, Known DEF NoInteg, Integration, State, Trees
  <2> HIDE DEF g
  <2>3. Fits(r, st[r], pc[r], Feat(r), g, base)
    <3>1. LabelFits(st[r], pc[r], g)
      BY <2>1 DEF LabelFits
    <3>2. IntegrationFits(st[r], g)
      BY <2>1, <2>2, Known DEF IntegrationFits, EarlyStages, FeatureStages,
         BuildStages, ConflictStages, RemovalStages
    <3>3. BuildFits(r, st[r], g)
      BY <2>1, Known DEF BuildFits, OpenStages, BuildStages, ConflictStages,
         LandedStages, RecordStages, RemovalStages
    <3> QED BY <2>1, <2>2, <3>1, <3>2, <3>3, Known, TreeFits
  <2>4. st' = [st EXCEPT ![r] = st[r]] /\ pc' = [pc EXCEPT ![r] = pc[r]]
    BY <2>1, SameAt, SameLabel DEF IInv, TypeOK
  <2> QED BY <1>b, <2>1, <2>2, <2>3, <2>4, Known, SetIntegKeeps
<1>3. CASE SaveIntegrationWorktree(r)
  <2>1. /\ Stage(r) = "integration_allocated" /\ integ[r].wt
        /\ Advance(r, "integration_worktree_created", st[r], "finish")
    BY <1>3 DEF SaveIntegrationWorktree, At
  <2>2. Fits(r, [st[r] EXCEPT !.stage = "integration_worktree_created"],
             "finish", Feat(r), integ[r], base)
    BY <2>1, Known, IntegrationSavesFit
  <2> QED BY <2>1, <2>2, SaveKeeps
<1>4. CASE Merge(r)
  <2>1. Stage(r) = "integration_worktree_created"
    BY <1>4 DEF Merge, At
  <2>2. CASE Refuse(r)
    BY <2>1, <2>2, RefuseKeeps
  <2>3. CASE ~Refuse(r)
    <3>1. PICK tree \in MergeOutcomes(r) :
            SetInteg(r, [integ[r] EXCEPT !.tree = tree])
      BY <1>4, <2>3 DEF Merge
    <3>2. /\ Feat(r).head = st[r].intFeature /\ integ[r].tree = "clean"
          /\ GoTo(r, "merged") /\ UNCHANGED <<st, budget>>
      BY <1>4, <2>3 DEF Merge
    <3>3. /\ tree \in {"empty", "merged", "conflicted"}
          /\ tree # "empty" => MayLand(r, st[r])
      BY <3>2 DEF MergeOutcomes, Contained, MayLand
    <3> DEFINE g == [integ[r] EXCEPT !.tree = tree]
    <3>4. /\ g \in Integration /\ g.wt = integ[r].wt
          /\ g.branch = integ[r].branch /\ g.tip = integ[r].tip /\ g.tree = tree
      BY <2>1, <3>3, Known DEF Integration, Trees
    <3> HIDE DEF g
    <3>5. Fits(r, st[r], "merged", Feat(r), g, base)
      <4>1. LabelFits(st[r], "merged", g)
        BY <2>1, <3>3, <3>4, Known DEF LabelFits
      <4>2. IntegrationFits(st[r], g)
        BY <2>1, <3>4, Known DEF Fits, IntegrationFits
      <4>3. BuildFits(r, st[r], g)
        BY <2>1, <3>3, <3>4, Known DEF Fits, BuildFits, OpenStages, BuildStages,
           ConflictStages, LandedStages, RecordStages, RemovalStages
      <4> QED BY <2>1, <3>4, <4>1, <4>2, <4>3, Known, TreeFits
    <3>6. st' = [st EXCEPT ![r] = st[r]]
      BY <3>2, SameAt DEF IInv, TypeOK
    <3> QED BY <1>b, <2>1, <3>1, <3>2, <3>4, <3>5, <3>6, Known, SetIntegKeeps
            DEF GoTo, g
  <2> QED BY <2>2, <2>3
<1>5. CASE SaveMerge(r)
  <2> DEFINE s == [st[r] EXCEPT !.fp = integ[r].tree]
             stage == IF integ[r].tree = "conflicted"
                      THEN "integration_conflicts_detected"
                      ELSE "integration_merge_applied"
  <2>1. pc[r] = "merged" /\ Advance(r, stage, s, "finish")
    BY <1>5 DEF SaveMerge
  <2>2. Stage(r) # "none"
    BY <2>1, Started
  <2>3. /\ stage \in {"integration_conflicts_detected",
                      "integration_merge_applied"}
        /\ stage = "integration_conflicts_detected" =>
             integ[r].tree = "conflicted"
    OBVIOUS
  <2> HIDE DEF stage
  <2>4. /\ s \in State
        /\ Fits(r, [s EXCEPT !.stage = stage], "finish", Feat(r), integ[r], base)
    BY <2>1, <2>2, <2>3, Known, MergeFits
  <2>5. stage \in Stages /\ stage # "audit_complete"
    BY <2>3
  <2> QED BY <2>1, <2>2, <2>4, <2>5, AdvanceKeeps
<1> QED BY <1>1, <1>2, <1>3, <1>4, <1>5

\* The resolution of a conflict and its audit.
LEMMA ConflictKeeps ==
  ASSUME IInv, DistinctNames, NEW r \in Runs,
         \/ StartResolution(r) \/ StartPostAudit(r) \/ LaunchInIntegration(r)
         \/ RunIntegrationHarness(r) \/ AcceptInIntegration(r)
  PROVE  IInv'
<1> USE StageNames, LabelNames
<1>b. budget \in [fault : 0..FaultMax, user : 0..UserMax]
  BY DEF IInv, TypeOK
<1>1. CASE StartResolution(r)
  <2>1. /\ Stage(r) = "integration_conflicts_detected"
        /\ Advance(r, "conflict_resolution_started", st[r], "finish")
    BY <1>1 DEF StartResolution, At
  <2>2. Fits(r, [st[r] EXCEPT !.stage = "conflict_resolution_started"],
             "finish", Feat(r), integ[r], base)
    BY <2>1, Known, IntegrationSavesFit
  <2> QED BY <2>1, <2>2, SaveKeeps
<1>2. CASE StartPostAudit(r)
  <2>1. /\ Stage(r) = "conflict_resolution_complete"
        /\ Advance(r, "post_conflict_audit_started", st[r], "finish")
    BY <1>2 DEF StartPostAudit, At
  <2>2. Fits(r, [st[r] EXCEPT !.stage = "post_conflict_audit_started"],
             "finish", Feat(r), integ[r], base)
    BY <2>1, Known, IntegrationSavesFit
  <2> QED BY <2>1, <2>2, SaveKeeps
<1>3. CASE LaunchInIntegration(r)
  <2>1. Stage(r) \in HarnessStages /\ Stage(r) # "none"
    BY <1>3 DEF LaunchInIntegration, HarnessStages
  <2>2. CASE Refuse(r)
    BY <2>1, <2>2, RefuseKeeps
  <2> DEFINE g == [integ[r] EXCEPT !.summary = FALSE]
  <2>3. CASE SetInteg(r, g) /\ GoTo(r, "harness") /\ UNCHANGED <<st, budget>>
    <3>1. /\ g \in Integration /\ g.wt = integ[r].wt /\ g.tree = integ[r].tree
          /\ g.branch = integ[r].branch /\ g.tip = integ[r].tip
      BY <2>1, Known DEF Integration
    <3> HIDE DEF g
    <3>2. Fits(r, st[r], "harness", Feat(r), integ[r], base)
      BY <2>1, Known, LabelFree
    <3>3. Fits(r, st[r], "harness", Feat(r), g, base)
      <4>1. LabelFits(st[r], "harness", g)
        BY DEF LabelFits
      <4>2. IntegrationFits(st[r], g)
        BY <3>1, <3>2 DEF Fits, IntegrationFits
      <4>3. BuildFits(r, st[r], g)
        BY <3>1, <3>2 DEF Fits, BuildFits
      <4> QED BY <2>1, <3>1, <4>1, <4>2, <4>3, Known, TreeFits
    <3>4. st' = [st EXCEPT ![r] = st[r]]
      BY <2>3, SameAt DEF IInv, TypeOK
    <3> QED BY <1>b, <2>1, <2>3, <3>1, <3>3, <3>4, Known, SetIntegKeeps DEF GoTo
  <2> QED BY <1>3, <2>2, <2>3 DEF LaunchInIntegration
<1>4. CASE RunIntegrationHarness(r)
  <2>1. Stage(r) \in HarnessStages /\ Stage(r) # "none"
    BY <1>4 DEF RunIntegrationHarness, HarnessStages
  <2>2. PICK tree \in {"conflicted", "resolved", "moved"},
             told \in BOOLEAN, ok \in BOOLEAN :
          /\ IF tree = "resolved" /\ told /\ ok
             THEN UNCHANGED budget
             ELSE SpendFault
          /\ SetInteg(r, [integ[r] EXCEPT !.tree = tree, !.summary = told])
          /\ \/ ok /\ GoTo(r, "returned") /\ UNCHANGED st
             \/ ~ok /\ GoTo(r, "down") /\ st' = [st EXCEPT ![r].fp = tree]
    BY <1>4 DEF RunIntegrationHarness
  <2> DEFINE g == [integ[r] EXCEPT !.tree = tree, !.summary = told]
             s == [st[r] EXCEPT !.fp = tree]
  <2>3. budget' \in [fault : 0..FaultMax, user : 0..UserMax]
    BY <1>b, <2>2, BoundsAssumption DEF SpendFault
  <2>4. /\ g \in Integration /\ g.wt = integ[r].wt /\ g.tree = tree
        /\ g.branch = integ[r].branch /\ g.tip = integ[r].tip
    BY <2>1, Known DEF Integration, Trees
  <2>5. /\ s \in State /\ s.stage = st[r].stage /\ s.keep = st[r].keep
        /\ s.auditHead = st[r].auditHead /\ s.intFeature = st[r].intFeature
        /\ s.intBase = st[r].intBase /\ s.intCommit = st[r].intCommit
        /\ s.archiveCommit = st[r].archiveCommit /\ s.mode = st[r].mode
        /\ s.finalCommit = st[r].finalCommit
    BY <2>1, Known DEF State, Trees
  <2> HIDE DEF g, s
  <2>6. ASSUME NEW t \in State, t = s \/ t = st[r],
               NEW q \in {"returned", "down"}
        PROVE  Fits(r, t, q, Feat(r), g, base)
    <3>1. /\ t.stage = st[r].stage /\ t.keep = st[r].keep
          /\ t.auditHead = st[r].auditHead /\ t.intFeature = st[r].intFeature
          /\ t.intBase = st[r].intBase /\ t.intCommit = st[r].intCommit
          /\ t.archiveCommit = st[r].archiveCommit /\ t.mode = st[r].mode
          /\ t.finalCommit = st[r].finalCommit
      BY <2>5, <2>6
    <3>2. /\ st[r].stage \in HarnessStages
          /\ Fits(r, st[r], pc[r], Feat(r), integ[r], base)
      BY <2>1, Known
    <3>3. LabelFits(t, q, g) /\ FeatureFits(t, Feat(r)) /\ HeadFits(t, Feat(r))
      BY <3>1, <3>2 DEF Fits, LabelFits, FeatureFits, HeadFits
    <3>4. IntegrationFits(t, g)
      BY <2>4, <3>1, <3>2 DEF Fits, IntegrationFits, HarnessStages, RemovalStages
    <3>5. BuildFits(r, t, g)
      BY <2>4, <3>1, <3>2 DEF Fits, BuildFits, HarnessStages, OpenStages,
         BuildStages, ConflictStages, LandedStages, RecordStages,
         RemovalStages, MayLand
    <3>6. BaseFits(r, t, q, Feat(r), base)
      BY <3>1, <3>2 DEF Fits, BaseFits
    <3> QED BY <3>3, <3>4, <3>5, <3>6 DEF Fits
  <2>7. CASE GoTo(r, "returned") /\ UNCHANGED st
    <3>1. st' = [st EXCEPT ![r] = st[r]]
      BY <2>7, SameAt DEF IInv, TypeOK
    <3>2. Fits(r, st[r], "returned", Feat(r), g, base)
      BY <2>1, <2>6, Known
    <3> QED BY <2>1, <2>2, <2>3, <2>4, <2>7, <3>1, <3>2, Known, SetIntegKeeps
            DEF GoTo, g
  <2>8. CASE GoTo(r, "down") /\ st' = [st EXCEPT ![r].fp = tree]
    <3>1. st' = [st EXCEPT ![r] = s]
      BY <2>8 DEF s
    <3>2. Fits(r, s, "down", Feat(r), g, base)
      BY <2>5, <2>6
    <3>3. SetInteg(r, g)
      BY <2>2 DEF g
    <3>4. s.stage = Stage(r) /\ s.auditHead = st[r].auditHead
      BY <2>1, <2>5, Known
    <3> QED BY <2>1, <2>3, <2>4, <2>5, <2>8, <3>1, <3>2, <3>3, <3>4,
               SetIntegKeeps DEF GoTo
  <2> QED BY <2>2, <2>7, <2>8
<1>5. CASE AcceptInIntegration(r)
  <2> DEFINE s == [st[r] EXCEPT !.fp = integ[r].tree]
             stage == IF Stage(r) = "conflict_resolution_started"
                      THEN "conflict_resolution_complete"
                      ELSE "post_conflict_audit_complete"
  <2>1. Stage(r) \in HarnessStages /\ Stage(r) # "none"
    BY <1>5 DEF AcceptInIntegration, HarnessStages
  <2>2. CASE Refuse(r)
    BY <2>1, <2>2, RefuseKeeps
  <2>3. CASE Advance(r, stage, s, "finish")
    <3>1. stage \in {"conflict_resolution_complete",
                     "post_conflict_audit_complete"}
      OBVIOUS
    <3> HIDE DEF stage
    <3>2. /\ s \in State
          /\ Fits(r, [s EXCEPT !.stage = stage], "finish", Feat(r), integ[r],
                  base)
      BY <2>1, <3>1, Known, ConflictFits DEF HarnessStages
    <3>3. stage \in Stages /\ stage # "audit_complete"
      BY <3>1
    <3> QED BY <2>1, <2>3, <3>2, <3>3, AdvanceKeeps
  <2> QED BY <1>5, <2>2, <2>3 DEF AcceptInIntegration
<1> QED BY <1>1, <1>2, <1>3, <1>4, <1>5

\* The integration commit.
LEMMA IntegrateKeeps ==
  ASSUME IInv, DistinctNames, NEW r \in Runs,
         \/ StageIntegration(r) \/ CommitIntegration(r)
         \/ SaveIntegrationCommit(r)
  PROVE  IInv'
<1> USE StageNames, LabelNames
<1>b. budget \in [fault : 0..FaultMax, user : 0..UserMax]
  BY DEF IInv, TypeOK
<1>1. CASE StageIntegration(r)
  <2>1. /\ Stage(r) \in {"integration_merge_applied",
                         "post_conflict_audit_complete"}
        /\ Stage(r) # "none"
    BY <1>1 DEF StageIntegration
  <2>2. CASE Refuse(r)
    BY <2>1, <2>2, RefuseKeeps
  <2>3. CASE /\ AtCheckpoint(r) /\ HasStaged(r)
             /\ Advance(r, "integration_changes_staged", st[r], "finish")
    <3>1. st[r].fp # "empty"
      BY <2>3 DEF AtCheckpoint, HasStaged
    <3>2. Fits(r, [st[r] EXCEPT !.stage = "integration_changes_staged"],
               "finish", Feat(r), integ[r], base)
      BY <2>1, <3>1, Known, IntegrationSavesFit
    <3> QED BY <2>1, <2>3, <3>2, SaveKeeps
  <2> QED BY <1>1, <2>2, <2>3 DEF StageIntegration
<1>2. CASE CommitIntegration(r)
  <2>1. /\ Stage(r) = "integration_changes_staged" /\ pc[r] = "finish"
        /\ integ[r].tip = st[r].intBase
    BY <1>2 DEF CommitIntegration, At
  <2>2. CASE Refuse(r)
    BY <2>1, <2>2, RefuseKeeps
  <2> DEFINE c == Append(integ[r].tip, Integrated(r, st[r]))
             g == [integ[r] EXCEPT !.tree = "clean", !.tip = c]
  <2>3. CASE ~Refuse(r)
    <3>1. SetInteg(r, g) /\ UNCHANGED <<st, pc, budget>>
      BY <1>2, <2>3 DEF CommitIntegration, Integrated
    <3>2. c \in History
      <4>1. st[r].intBase \in History
        BY <2>1, Known DEF Fits, HeadFits, IntegratedStages, BuildStages
      <4>2. Integrated(r, st[r]) \in Commit
        BY <2>1, Known, BoundsAssumption, CommitType
           DEF Integrated, Kinds, State
      <4> QED BY <2>1, <4>1, <4>2, AppendCommit
    <3>3. c = Append(st[r].intBase, Integrated(r, st[r]))
      BY <2>1
    <3> HIDE DEF c
    <3>4. /\ g \in Integration /\ g.wt = integ[r].wt
          /\ g.branch = integ[r].branch /\ g.tip = c /\ g.tree = "clean"
      BY <2>1, <3>2, Known DEF Integration, Trees
    <3> HIDE DEF g
    <3>5. Fits(r, st[r], pc[r], Feat(r), g, base)
      <4>1. LabelFits(st[r], pc[r], g)
        BY <2>1 DEF LabelFits
      <4>2. IntegrationFits(st[r], g)
        BY <2>1, <3>4, Known DEF Fits, IntegrationFits
      <4>3. BuildFits(r, st[r], g)
        BY <2>1, <3>3, <3>4, Known DEF Fits, BuildFits, OpenStages,
           BuildStages, ConflictStages, LandedStages, RecordStages,
           RemovalStages
      <4> QED BY <2>1, <3>4, <4>1, <4>2, <4>3, Known, TreeFits
    <3>6. st' = [st EXCEPT ![r] = st[r]] /\ pc' = [pc EXCEPT ![r] = pc[r]]
      BY <3>1, SameAt, SameLabel DEF IInv, TypeOK
    <3> QED BY <1>b, <2>1, <3>1, <3>4, <3>5, <3>6, Known, SetIntegKeeps
  <2> QED BY <2>2, <2>3
<1>3. CASE SaveIntegrationCommit(r)
  <2> DEFINE s == [st[r] EXCEPT !.intCommit = integ[r].tip]
  <2>1. /\ Stage(r) = "integration_changes_staged"
        /\ integ[r].tip # st[r].intBase
        /\ Advance(r, "integration_committed", s, "finish")
    BY <1>3 DEF SaveIntegrationCommit, At
  <2>2. /\ s \in State
        /\ Fits(r, [s EXCEPT !.stage = "integration_committed"], "finish",
                Feat(r), integ[r], base)
    BY <2>1, Known, CommitFits
  <2> QED BY <2>1, <2>2, AdvanceKeeps
<1> QED BY <1>1, <1>2, <1>3

\* A longer history keeps the records of its prefixes.
LEMMA PrefixKeeps ==
  ASSUME NEW b \in History, NEW c \in History, IsPrefix(b, c)
  PROVE  KeepsRecords(b, c)
BY PrefixElements, LenProperties DEF KeepsRecords, History

\* The fast-forward, and the rebuild when the base has moved.
LEMMA LandKeeps ==
  ASSUME IInv, DistinctNames, NEW r \in Runs,
         \/ CheckFastForward(r) \/ FastForward(r) \/ SaveFastForward(r)
         \/ CheckRebuild(r) \/ RemoveBuild(r) \/ SaveRebuild(r)
  PROVE  IInv'
<1> USE StageNames, LabelNames
<1>b. budget \in [fault : 0..FaultMax, user : 0..UserMax]
  BY DEF IInv, TypeOK
<1>1. CASE CheckFastForward(r)
  <2>1. Stage(r) = "integration_committed"
    BY <1>1 DEF CheckFastForward, At
  <2>2. CASE Refuse(r)
    BY <2>1, <2>2, RefuseKeeps
  <2>3. CASE /\ base = st[r].intBase
             /\ GoTo(r, "ff") /\ UNCHANGED <<st, world>>
    <3>1. Len(base) \in Nat
      BY LenProperties DEF IInv, TypeOK, History
    <3>2. Fits(r, st[r], "ff", Feat(r), integ[r], base)
      BY <2>1, <2>3, <3>1, Known DEF Fits, LabelFits, BaseFits
    <3> QED BY <2>1, <2>3, <3>2, GoToKeeps DEF world, IInv, TypeOK
  <2>4. CASE Advance(r, "integration_rebuild_cleanup", st[r], "rebuild")
    <3>1. Fits(r, [st[r] EXCEPT !.stage = "integration_rebuild_cleanup"],
               "rebuild", Feat(r), integ[r], base)
      BY <2>1, Known, IntegrationSavesFit
    <3> QED BY <2>1, <2>4, <3>1, SaveKeeps
  <2> QED BY <1>1, <2>2, <2>3, <2>4 DEF CheckFastForward
<1>2. CASE FastForward(r)
  <2>1. pc[r] = "ff" /\ Stage(r) # "none"
    BY <1>2, Started DEF FastForward
  <2>2. CASE Refuse(r)
    BY <2>1, <2>2, RefuseKeeps
  <2>3. CASE ~Refuse(r)
    <3>1. /\ IsAncestor(base, st[r].intCommit) /\ base' = st[r].intCommit
          /\ GoTo(r, "ffd")
          /\ UNCHANGED <<st, name, fresh, feat, integ, archive, budget>>
      BY <1>2, <2>3 DEF FastForward
    <3>2. st[r].stage = "integration_committed"
      BY <2>1, Known DEF Fits, LabelFits
    <3>3. st[r].intCommit \in History
      BY <2>1, <3>2, Known DEF Fits, BuildFits
    <3>4. KeepsRecords(base, st[r].intCommit)
      BY <2>1, <3>1, <3>3, Known, PrefixKeeps DEF IsAncestor
    <3>5. Fits(r, st[r], pc[r], Feat(r), integ[r], st[r].intCommit)
      BY <2>1, <3>3, <3>4, Known, BaseKept
    <3>6. Fits(r, st[r], "ffd", Feat(r), integ[r], st[r].intCommit)
      BY <3>2, <3>5 DEF Fits, LabelFits, BaseFits
    <3>7. archive' \in
            [Runs -> [cand : BOOLEAN, dirty : BOOLEAN, final : BOOLEAN]]
      BY <3>1 DEF IInv, TypeOK
    <3> QED BY <2>1, <3>1, <3>3, <3>4, <3>6, <3>7, CommitKeeps DEF GoTo
  <2> QED BY <2>2, <2>3
<1>3. CASE SaveFastForward(r)
  <2>1. pc[r] = "ffd" /\ Stage(r) # "none"
    BY <1>3, Started DEF SaveFastForward
  <2>2. CASE Refuse(r)
    BY <2>1, <2>2, RefuseKeeps
  <2>3. CASE /\ IsAncestor(st[r].intCommit, base)
             /\ Advance(r, "base_fast_forwarded", st[r], "finish")
    <3>1. st[r].stage = "integration_committed"
      BY <2>1, Known DEF Fits, LabelFits
    <3>2. Fits(r, [st[r] EXCEPT !.stage = "base_fast_forwarded"], "finish",
               Feat(r), integ[r], base)
      BY <2>1, <2>3, <3>1, Known, IntegrationSavesFit DEF IsAncestor
    <3> QED BY <2>1, <2>3, <3>2, SaveKeeps
  <2> QED BY <1>3, <2>2, <2>3 DEF SaveFastForward
<1>4. CASE CheckRebuild(r)
  <2>1. Stage(r) = "integration_rebuild_cleanup"
    BY <1>4 DEF CheckRebuild, At
  <2>2. CASE Refuse(r)
    BY <2>1, <2>2, RefuseKeeps
  <2>3. CASE GoTo(r, "rebuild") /\ UNCHANGED <<st, world>>
    <3>1. Fits(r, st[r], "rebuild", Feat(r), integ[r], base)
      BY <2>1, Known DEF Fits, LabelFits, BaseFits
    <3> QED BY <2>1, <2>3, <3>1, GoToKeeps DEF world, IInv, TypeOK
  <2> QED BY <1>4, <2>2, <2>3 DEF CheckRebuild
<1>5. CASE RemoveBuild(r)
  <2>1. pc[r] = "rebuild" /\ Stage(r) # "none" /\ UNCHANGED <<st, pc, budget>>
    BY <1>5, Started DEF RemoveBuild
  <2>2. st[r].stage = "integration_rebuild_cleanup"
    BY <2>1, Known DEF Fits, LabelFits
  <2>3. PICK g \in Integration : SetInteg(r, g)
    <3>1. [integ[r] EXCEPT !.wt = FALSE] \in Integration
      BY <2>1, Known DEF Integration
    <3>2. NoInteg \in Integration
      BY DEF NoInteg, Integration, Trees
    <3> QED BY <1>5, <3>1, <3>2 DEF RemoveBuild
  <2>4. Fits(r, st[r], pc[r], Feat(r), g, base)
    <3>1. LabelFits(st[r], pc[r], g)
      BY <2>1, <2>2 DEF LabelFits
    <3>2. IntegrationFits(st[r], g)
      BY <2>2 DEF IntegrationFits, EarlyStages, FeatureStages, BuildStages,
         ConflictStages, RemovalStages
    <3>3. BuildFits(r, st[r], g)
      BY <2>1, <2>2, Known DEF Fits, BuildFits, OpenStages, BuildStages,
         ConflictStages
    <3> QED BY <2>1, <3>1, <3>2, <3>3, Known, TreeFits
  <2>5. st' = [st EXCEPT ![r] = st[r]] /\ pc' = [pc EXCEPT ![r] = pc[r]]
    BY <2>1, SameAt, SameLabel DEF IInv, TypeOK
  <2> QED BY <1>b, <2>1, <2>3, <2>4, <2>5, Known, SetIntegKeeps
<1>6. CASE SaveRebuild(r)
  <2> DEFINE s == [st[r] EXCEPT !.intBase = None, !.intFeature = 0,
                                !.fp = None, !.intCommit = None]
             t == [s EXCEPT !.stage = "audit_complete"]
  <2>1. /\ pc[r] = "rebuild" /\ Stage(r) # "none" /\ ~integ[r].wt
        /\ GoTo(r, "finish") /\ UNCHANGED world
    BY <1>6, Started DEF SaveRebuild
  <2>2. st' = [st EXCEPT ![r] = t]
    BY <1>6 DEF SaveRebuild, NoBuild
  <2>3. st[r].stage = "integration_rebuild_cleanup"
    BY <2>1, Known DEF Fits, LabelFits
  <2>4. s \in State /\ Fits(r, t, "finish", Feat(r), integ[r], base)
    BY <2>1, <2>3, Known, RebuildFits
  <2>5. s.auditHead > 0
    BY <2>1, <2>3, Known DEF Fits, HeadFits, AuditedStages, Stages, State
  <2> HIDE DEF s
  <2>6. t \in State /\ t.auditHead = s.auditHead
    BY <2>4, SavedState
  <2> HIDE DEF t
  <2>7. /\ feat' = [feat EXCEPT ![name[r]] = Feat(r)]
        /\ integ' = [integ EXCEPT ![r] = integ[r]]
    BY <2>1, Known, SameAt DEF IInv, TypeOK, Feat, world
  <2>8. /\ pc[r] # "none" /\ Feat(r) \in Feature /\ integ[r] \in Integration
        /\ base \in History /\ name' = name /\ base' = base
        /\ pc' = [pc EXCEPT ![r] = "finish"]
    BY <2>1, Known DEF world, GoTo
  <2>9. /\ fresh' \in [Runs -> BOOLEAN]
        /\ archive' \in
             [Runs -> [cand : BOOLEAN, dirty : BOOLEAN, final : BOOLEAN]]
        /\ budget' \in [fault : 0..FaultMax, user : 0..UserMax]
    BY <2>1 DEF world, IInv, TypeOK
  <2>10. t.stage = "audit_complete" => t.auditHead > 0
    BY <2>5, <2>6
  <2> QED BY <2>2, <2>4, <2>6, <2>7, <2>8, <2>9, <2>10, BaseSame, RunKeeps
<1> QED BY <1>1, <1>2, <1>3, <1>4, <1>5, <1>6

\* A commit of the flow's own records.
LEMMA RecordCommitted ==
  ASSUME IInv, DistinctNames, NEW r \in Runs, Stage(r) # "none",
         NEW kind \in Kinds, base' = Append(base, CommitOf(kind, r, 0)),
         NEW p \in Working, p # "ff", pc' = [pc EXCEPT ![r] = p],
         LabelFits(st[r], p, integ[r]),
         UNCHANGED <<st, name, fresh, feat, integ, budget>>,
         archive' \in [Runs -> [cand : BOOLEAN, dirty : BOOLEAN, final : BOOLEAN]]
  PROVE  IInv'
<1> DEFINE b == Append(base, CommitOf(kind, r, 0))
<1>1. b \in History /\ KeepsRecords(base, b)
  BY Known, CommitType, AppendCommit
<1> HIDE DEF b
<1>2. Fits(r, st[r], pc[r], Feat(r), integ[r], b)
  BY <1>1, Known, BaseKept
<1>3. Fits(r, st[r], p, Feat(r), integ[r], b)
  BY <1>2 DEF Fits, BaseFits
<1> QED BY <1>1, <1>3, CommitKeeps DEF b

\* What is recorded of an archive is Boolean.
LEMMA ArchiveType ==
  ASSUME IInv, NEW r \in Runs
  PROVE  /\ [archive EXCEPT ![r].dirty = FALSE] \in
              [Runs -> [cand : BOOLEAN, dirty : BOOLEAN, final : BOOLEAN]]
         /\ [archive EXCEPT ![r].final = TRUE] \in
              [Runs -> [cand : BOOLEAN, dirty : BOOLEAN, final : BOOLEAN]]
         /\ \A e \in {[archive[r] EXCEPT !.cand = TRUE, !.dirty = TRUE],
                      [archive[r] EXCEPT !.dirty = TRUE],
                      [archive[r] EXCEPT !.cand = TRUE]} :
              [archive EXCEPT ![r] = e] \in
                [Runs -> [cand : BOOLEAN, dirty : BOOLEAN, final : BOOLEAN]]
BY DEF IInv, TypeOK

\* Only the archive directory and the label of the process change.
LEMMA ArchiveKeeps ==
  ASSUME IInv, DistinctNames, NEW r \in Runs, Stage(r) # "none",
         NEW p \in Working, p # "ff", pc' = [pc EXCEPT ![r] = p],
         LabelFits(st[r], p, integ[r]),
         UNCHANGED <<st, name, fresh, feat, integ, base, budget>>,
         archive' \in [Runs -> [cand : BOOLEAN, dirty : BOOLEAN, final : BOOLEAN]]
  PROVE  IInv'
<1>1. Fits(r, st[r], p, Feat(r), integ[r], base)
  BY Known DEF Fits, BaseFits
<1>2. base \in History /\ KeepsRecords(base, base)
  BY Known, BaseSame
<1> QED BY <1>1, <1>2, CommitKeeps

\* Stopping before the merge.
LEMMA StopKeeps ==
  ASSUME IInv, DistinctNames, NEW r \in Runs,
         \/ ArchiveStop(r) \/ CommitStop(r) \/ SaveStop(r)
  PROVE  IInv'
<1> USE StageNames, LabelNames
<1>1. CASE ArchiveStop(r)
  <2>1. /\ pc[r] = "stopping" /\ Stage(r) # "none"
        /\ UNCHANGED <<st, pc, name, fresh, feat, integ, base, budget>>
        /\ archive' \in
             [Runs -> [cand : BOOLEAN, dirty : BOOLEAN, final : BOOLEAN]]
    BY <1>1, Started, ArchiveType DEF ArchiveStop, SetArchive
  <2>2. LabelFits(st[r], pc[r], integ[r])
    BY <2>1, Known DEF Fits
  <2> QED BY <2>1, <2>2, Known, SameLabel, ArchiveKeeps
<1>2. CASE CommitStop(r)
  <2>1. /\ pc[r] = "stopping" /\ Stage(r) # "none"
        /\ base' = Append(base, CommitOf("stop", r, 0))
        /\ pc' = [pc EXCEPT ![r] = "stopped"]
        /\ UNCHANGED <<st, name, fresh, feat, integ, budget>>
        /\ archive' \in
             [Runs -> [cand : BOOLEAN, dirty : BOOLEAN, final : BOOLEAN]]
    BY <1>2, Started, ArchiveType DEF CommitStop, GoTo
  <2>2. LabelFits(st[r], "stopped", integ[r])
    BY <2>1, Known DEF Fits, LabelFits
  <2> QED BY <2>1, <2>2, RecordCommitted DEF Kinds
<1>3. CASE SaveStop(r)
  <2>1. pc[r] = "stopped" /\ Stage(r) # "none"
    BY <1>3, Started DEF SaveStop
  <2>2. CASE Refuse(r)
    BY <2>1, <2>2, RefuseKeeps
  <2> DEFINE s == [st[r] EXCEPT !.archiveCommit = base]
  <2>3. CASE /\ st' = [st EXCEPT ![r] = s]
             /\ GoTo(r, "down") /\ UNCHANGED world
    <3>1. st[r].stage = "stopped_before_merge"
      BY <2>1, Known DEF Fits, LabelFits
    <3>2. s \in State /\ Fits(r, s, "down", Feat(r), integ[r], base)
      BY <2>1, <3>1, Known, StoppedFits
    <3>3. s.stage = "stopped_before_merge"
      BY <2>1, <3>1, Known DEF State
    <3> HIDE DEF s
    <3>4. /\ feat' = [feat EXCEPT ![name[r]] = Feat(r)]
          /\ integ' = [integ EXCEPT ![r] = integ[r]]
      BY <2>1, <2>3, Known, SameAt DEF IInv, TypeOK, Feat, world
    <3>5. /\ pc[r] # "none" /\ Feat(r) \in Feature /\ integ[r] \in Integration
          /\ base \in History /\ name' = name /\ base' = base
          /\ pc' = [pc EXCEPT ![r] = "down"]
      BY <2>1, <2>3, Known DEF world, GoTo
    <3>6. /\ fresh' \in [Runs -> BOOLEAN]
          /\ archive' \in
               [Runs -> [cand : BOOLEAN, dirty : BOOLEAN, final : BOOLEAN]]
          /\ budget' \in [fault : 0..FaultMax, user : 0..UserMax]
      BY <2>3 DEF world, IInv, TypeOK
    <3> QED BY <2>3, <3>2, <3>3, <3>4, <3>5, <3>6, BaseSame, RunKeeps
  <2>4. CASE ~Refuse(r)
    <3>1. st' = [st EXCEPT ![r] = s]
      BY <1>3, <2>4 DEF SaveStop
    <3> QED BY <1>3, <2>3, <2>4, <3>1 DEF SaveStop
  <2> QED BY <2>2, <2>4
<1> QED BY <1>1, <1>2, <1>3

\* The archive commit and the final commit.
LEMMA RecordKeeps ==
  ASSUME IInv, DistinctNames, NEW r \in Runs,
         \/ ArchiveHandoff(r) \/ WriteCandidate(r) \/ CommitArchive(r)
         \/ SaveArchive(r) \/ CommitFinal(r) \/ SaveFinal(r)
  PROVE  IInv'
<1> USE StageNames, LabelNames
<1>1. CASE ArchiveHandoff(r)
  <2>1. Stage(r) = "base_fast_forwarded"
    BY <1>1 DEF ArchiveHandoff, At
  <2>2. CASE Refuse(r)
    BY <2>1, <2>2, RefuseKeeps
  <2>3. CASE ~Refuse(r)
    <3> DEFINE t == [st[r] EXCEPT !.stage = "handoff_archived"]
    <3>0. /\ Transition(r, "handoff_archived", st[r], "archived")
          /\ SetArchive(r, [archive[r] EXCEPT !.dirty = TRUE])
      BY <1>1, <2>3 DEF ArchiveHandoff
    <3>1. /\ Transition(r, "handoff_archived", st[r], "archived")
          /\ UNCHANGED <<name, fresh, feat, integ, base, budget>>
          /\ archive' \in
               [Runs -> [cand : BOOLEAN, dirty : BOOLEAN, final : BOOLEAN]]
      BY <3>0, ArchiveType DEF SetArchive
    <3>2. CASE pc' = [pc EXCEPT ![r] = "down"] /\ UNCHANGED st
      <4>1. LabelFits(st[r], "down", integ[r])
        BY DEF LabelFits
      <4> QED BY <2>1, <3>1, <3>2, <4>1, ArchiveKeeps
    <3>3. CASE st' = [st EXCEPT ![r] = t] /\ pc' = [pc EXCEPT ![r] = "archived"]
      <4>1. t \in State /\ t.stage = "handoff_archived"
        BY <2>1, Known, SavedState
      <4>2. Fits(r, t, "archived", Feat(r), integ[r], base)
        BY <2>1, Known, IntegrationSavesFit
      <4> HIDE DEF t
      <4>3. /\ feat' = [feat EXCEPT ![name[r]] = Feat(r)]
            /\ integ' = [integ EXCEPT ![r] = integ[r]]
        BY <2>1, <3>1, Known, SameAt DEF IInv, TypeOK, Feat
      <4>4. /\ pc[r] # "none" /\ Feat(r) \in Feature /\ integ[r] \in Integration
            /\ base \in History /\ name' = name /\ base' = base
        BY <2>1, <3>1, Known
      <4>5. /\ fresh' \in [Runs -> BOOLEAN]
            /\ budget' \in [fault : 0..FaultMax, user : 0..UserMax]
        BY <3>1 DEF IInv, TypeOK
      <4> QED BY <3>1, <3>3, <4>1, <4>2, <4>3, <4>4, <4>5, BaseSame, RunKeeps
    <3> QED BY <3>1, <3>2, <3>3 DEF Transition
  <2> QED BY <2>2, <2>3
<1>2. CASE WriteCandidate(r)
  <2>1. /\ pc[r] = "archived" /\ Stage(r) # "none"
        /\ pc' = [pc EXCEPT ![r] = "finish"]
        /\ UNCHANGED <<st, name, fresh, feat, integ, base, budget>>
        /\ archive' \in
             [Runs -> [cand : BOOLEAN, dirty : BOOLEAN, final : BOOLEAN]]
    BY <1>2, Started, ArchiveType DEF WriteCandidate, SetArchive, GoTo
  <2>2. LabelFits(st[r], "finish", integ[r])
    BY DEF LabelFits
  <2> QED BY <2>1, <2>2, ArchiveKeeps
<1>3. CASE CommitArchive(r) \/ CommitFinal(r)
  <2>1. pc[r] = "finish" /\ Stage(r) # "none"
    BY <1>3 DEF CommitArchive, CommitFinal, At, FinalStages
  <2>2. CASE Refuse(r)
    BY <2>1, <2>2, RefuseKeeps
  <2>3. CASE ~Refuse(r)
    <3>1. PICK kind \in {"archive", "finalize"} :
            base' = Append(base, CommitOf(kind, r, 0))
      BY <1>3, <2>3 DEF CommitArchive, CommitFinal
    <3>2. /\ UNCHANGED <<st, pc, name, fresh, feat, integ, budget>>
          /\ archive' \in
               [Runs -> [cand : BOOLEAN, dirty : BOOLEAN, final : BOOLEAN]]
      <4>1. CASE CommitArchive(r)
        <5>1. /\ UNCHANGED <<st, pc, name, fresh, feat, integ, budget>>
              /\ archive' = [archive EXCEPT ![r].dirty = FALSE]
          BY <2>3, <4>1 DEF CommitArchive
        <5> QED BY <5>1, ArchiveType
      <4>2. CASE CommitFinal(r)
        <5>1. /\ UNCHANGED <<st, pc, name, fresh, feat, integ, budget>>
              /\ archive' = [archive EXCEPT ![r].final = TRUE]
          BY <2>3, <4>2 DEF CommitFinal
        <5> QED BY <5>1, ArchiveType
      <4> QED BY <1>3, <4>1, <4>2
    <3>3. LabelFits(st[r], pc[r], integ[r])
      BY <2>1 DEF LabelFits
    <3> QED BY <2>1, <3>1, <3>2, <3>3, SameLabel, RecordCommitted DEF Kinds
  <2> QED BY <2>2, <2>3
<1>4. CASE SaveArchive(r)
  <2> DEFINE s == [st[r] EXCEPT !.archiveCommit = base]
  <2>1. Stage(r) = "handoff_archived" /\ Tops(base, "archive", r)
    BY <1>4 DEF SaveArchive, At
  <2>2. CASE Refuse(r)
    BY <2>1, <2>2, RefuseKeeps
  <2>3. CASE /\ Front(base) = st[r].intCommit
             /\ Advance(r, "artifacts_committed", s, "finish")
    <3>1. /\ s \in State
          /\ Fits(r, [s EXCEPT !.stage = "artifacts_committed"], "finish",
                  Feat(r), integ[r], base)
      BY <2>1, <2>3, Known, ArchiveFits
    <3> QED BY <2>1, <2>3, <3>1, AdvanceKeeps
  <2> QED BY <1>4, <2>2, <2>3 DEF SaveArchive
<1>5. CASE SaveFinal(r)
  <2> DEFINE s == [st[r] EXCEPT !.finalCommit = base]
  <2>1. /\ Stage(r) \in {"cleanup_complete", "worktrees_retained"}
        /\ Stage(r) # "none" /\ Tops(base, "finalize", r)
    BY <1>5 DEF SaveFinal, FinalStages
  <2>2. CASE Refuse(r)
    BY <2>1, <2>2, RefuseKeeps
  <2>3. CASE /\ Front(base) = st[r].archiveCommit
             /\ Advance(r, "complete", s, "done")
    <3>1. /\ s \in State
          /\ Fits(r, [s EXCEPT !.stage = "complete"], "done", Feat(r),
                  integ[r], base)
      BY <2>1, <2>3, Known, FinalFits
    <3> QED BY <2>1, <2>3, <3>1, AdvanceKeeps
  <2> QED BY <1>5, <2>2, <2>3 DEF SaveFinal
<1> QED BY <1>1, <1>2, <1>3, <1>4, <1>5

\* The head a branch is deleted with has landed.
LEMMA HeadLanded ==
  ASSUME IInv, NEW r \in Runs, Stage(r) = "integration_branch_removed",
         Feat(r).branch, BranchUnchanged(r)
  PROVE  HasLanded(base, r, Feat(r).head)
<1>1. /\ Feat(r).head = st[r].auditHead /\ st[r].auditHead \in Nat
      /\ st[r].intFeature = st[r].auditHead /\ st[r].intBase \in History
      /\ st[r].intCommit = Append(st[r].intBase, Integrated(r, st[r]))
      /\ IsPrefix(st[r].intCommit, base) /\ base \in History
  <2>1. /\ st[r].stage = "integration_branch_removed" /\ st[r] \in State
        /\ Fits(r, st[r], pc[r], Feat(r), integ[r], base) /\ base \in History
    BY StageNames, Known
  <2>2. st[r].intFeature = st[r].auditHead /\ st[r].intBase \in History
    BY <2>1 DEF Fits, HeadFits, IntegratedStages, LandedStages, RecordStages,
       RemovalStages
  <2>3. /\ st[r].intCommit = Append(st[r].intBase, Integrated(r, st[r]))
        /\ IsPrefix(st[r].intCommit, base)
    BY <2>1 DEF Fits, BuildFits, BaseFits, LandedStages, RecordStages,
       RemovalStages
  <2>4. st[r].auditHead \in Nat
    BY <2>1, BoundsAssumption DEF State
  <2> QED BY <2>1, <2>2, <2>3, <2>4 DEF BranchUnchanged
<1> QED BY <1>1, PrefixLanded DEF Integrated

\* The removal of what the run created.
LEMMA CleanupKeeps ==
  ASSUME IInv, DistinctNames, NEW r \in Runs,
         \/ Retain(r) \/ RemoveIntegrationWorktree(r) \/ RemoveFeatureWorktree(r)
         \/ PruneWorktrees(r) \/ DeleteIntegrationBranch(r)
         \/ DeleteFeatureBranch(r) \/ CleanupDone(r)
  PROVE  IInv'
<1> USE StageNames, LabelNames
<1>b. budget \in [fault : 0..FaultMax, user : 0..UserMax]
  BY DEF IInv, TypeOK
<1>1. CASE Retain(r)
  <2>1. /\ Stage(r) = "artifacts_committed" /\ st[r].keep
        /\ Advance(r, "worktrees_retained", st[r], "finish")
    BY <1>1 DEF Retain, At
  <2>2. Fits(r, [st[r] EXCEPT !.stage = "worktrees_retained"], "finish",
             Feat(r), integ[r], base)
    BY <2>1, Known, CleanupSavesFit
  <2> QED BY <2>1, <2>2, SaveKeeps
<1>2. CASE RemoveIntegrationWorktree(r)
  <2>1. /\ Stage(r) = "artifacts_committed" /\ pc[r] = "finish" /\ ~st[r].keep
    BY <1>2 DEF RemoveIntegrationWorktree, At
  <2> DEFINE g == [integ[r] EXCEPT !.wt = FALSE]
  <2>2. CASE SetInteg(r, g) /\ UNCHANGED <<st, pc, budget>>
    <3>1. g \in Integration
      BY <2>1, Known DEF Integration
    <3> HIDE DEF g
    <3>2. Fits(r, st[r], pc[r], Feat(r), g, base)
      <4>1. LabelFits(st[r], pc[r], g)
        BY <2>1 DEF LabelFits
      <4>2. IntegrationFits(st[r], g)
        BY <2>1, Known DEF IntegrationFits, EarlyStages, FeatureStages,
           BuildStages, ConflictStages, RemovalStages
      <4>3. BuildFits(r, st[r], g)
        BY <2>1, Known DEF Fits, BuildFits, OpenStages, BuildStages,
           ConflictStages
      <4> QED BY <2>1, <3>1, <4>1, <4>2, <4>3, Known, TreeFits
    <3>3. st' = [st EXCEPT ![r] = st[r]] /\ pc' = [pc EXCEPT ![r] = pc[r]]
      BY <2>2, SameAt, SameLabel DEF IInv, TypeOK
    <3> QED BY <1>b, <2>1, <2>2, <3>1, <3>2, <3>3, Known, SetIntegKeeps
  <2>3. CASE /\ ~integ[r].wt
             /\ Advance(r, "integration_worktree_removed", st[r], "finish")
    <3>1. Fits(r, [st[r] EXCEPT !.stage = "integration_worktree_removed"],
               "finish", Feat(r), integ[r], base)
      BY <2>1, <2>3, Known, CleanupSavesFit
    <3> QED BY <2>1, <2>3, <3>1, SaveKeeps
  <2> QED BY <1>2, <2>2, <2>3 DEF RemoveIntegrationWorktree
<1>3. CASE RemoveFeatureWorktree(r)
  <2>1. Stage(r) = "integration_worktree_removed" /\ pc[r] = "finish"
    BY <1>3 DEF RemoveFeatureWorktree, At
  <2>2. CASE Refuse(r)
    BY <2>1, <2>2, RefuseKeeps
  <2> DEFINE f == [Feat(r) EXCEPT !.wt = FALSE]
  <2>3. CASE SetFeat(r, f) /\ UNCHANGED <<st, pc, budget>>
    <3>1. /\ f \in Feature /\ ~f.wt /\ f.branch = Feat(r).branch
          /\ f.head = Feat(r).head /\ f.audit = Feat(r).audit
      BY <2>1, Known DEF Feature
    <3> HIDE DEF f
    <3>2. /\ st[r].stage = "integration_worktree_removed"
          /\ Fits(r, st[r], pc[r], Feat(r), integ[r], base)
      BY <2>1, Known
    <3>3. FeatureFits(st[r], f)
      BY <3>1, <3>2 DEF Fits, FeatureFits, RemovalStages
    <3>4. HeadFits(st[r], f) /\ BaseFits(r, st[r], pc[r], f, base)
      BY <3>1, <3>2 DEF Fits, HeadFits, BaseFits
    <3>5. Fits(r, st[r], pc[r], f, integ[r], base)
      BY <3>2, <3>3, <3>4 DEF Fits
    <3> QED BY <1>b, <2>1, <2>3, <3>1, <3>5, Known, SameLabel, SetFeatKeeps
  <2>4. CASE /\ ~Feat(r).wt
             /\ Advance(r, "feature_worktree_removed", st[r], "finish")
    <3>1. Fits(r, [st[r] EXCEPT !.stage = "feature_worktree_removed"],
               "finish", Feat(r), integ[r], base)
      BY <2>1, <2>4, Known, CleanupSavesFit
    <3> QED BY <2>1, <2>4, <3>1, SaveKeeps
  <2> QED BY <1>3, <2>2, <2>3, <2>4 DEF RemoveFeatureWorktree
<1>4. CASE PruneWorktrees(r)
  <2>1. /\ Stage(r) = "feature_worktree_removed"
        /\ Advance(r, "worktrees_pruned", st[r], "finish")
    BY <1>4 DEF PruneWorktrees, At
  <2>2. Fits(r, [st[r] EXCEPT !.stage = "worktrees_pruned"], "finish",
             Feat(r), integ[r], base)
    BY <2>1, Known, CleanupSavesFit
  <2> QED BY <2>1, <2>2, SaveKeeps
<1>5. CASE DeleteIntegrationBranch(r)
  <2>1. Stage(r) = "worktrees_pruned" /\ pc[r] = "finish"
    BY <1>5 DEF DeleteIntegrationBranch, At
  <2>2. CASE SetInteg(r, NoInteg) /\ UNCHANGED <<st, pc, budget>>
    <3>1. /\ NoInteg \in Integration /\ ~NoInteg.wt /\ ~NoInteg.branch
      BY DEF NoInteg, Integration, Trees
    <3>2. Fits(r, st[r], pc[r], Feat(r), NoInteg, base)
      <4>1. LabelFits(st[r], pc[r], NoInteg)
        BY <2>1 DEF LabelFits
      <4>2. IntegrationFits(st[r], NoInteg)
        BY <2>1, <3>1, Known DEF Fits, IntegrationFits, EarlyStages,
           FeatureStages, BuildStages, ConflictStages, RemovalStages
      <4>3. BuildFits(r, st[r], NoInteg)
        BY <2>1, Known DEF Fits, BuildFits, OpenStages, BuildStages,
           ConflictStages
      <4> QED BY <2>1, <3>1, <4>1, <4>2, <4>3, Known, TreeFits
    <3>3. st' = [st EXCEPT ![r] = st[r]] /\ pc' = [pc EXCEPT ![r] = pc[r]]
      BY <2>2, SameAt, SameLabel DEF IInv, TypeOK
    <3> QED BY <1>b, <2>1, <2>2, <3>1, <3>2, <3>3, Known, SetIntegKeeps
  <2>3. CASE /\ ~integ[r].branch
             /\ Advance(r, "integration_branch_removed", st[r], "finish")
    <3>1. Fits(r, [st[r] EXCEPT !.stage = "integration_branch_removed"],
               "finish", Feat(r), integ[r], base)
      BY <2>1, <2>3, Known, CleanupSavesFit
    <3> QED BY <2>1, <2>3, <3>1, SaveKeeps
  <2> QED BY <1>5, <2>2, <2>3 DEF DeleteIntegrationBranch
<1>6. CASE DeleteFeatureBranch(r)
  <2>1. Stage(r) = "integration_branch_removed" /\ pc[r] = "finish"
    BY <1>6 DEF DeleteFeatureBranch, At
  <2>2. CASE Refuse(r)
    BY <2>1, <2>2, RefuseKeeps
  <2> DEFINE f == [Feat(r) EXCEPT !.branch = FALSE]
  <2>3. CASE /\ Feat(r).branch /\ BranchUnchanged(r)
             /\ SetFeat(r, f) /\ UNCHANGED <<st, pc, budget>>
    <3>1. /\ f \in Feature /\ f.wt = Feat(r).wt /\ ~f.branch
          /\ f.head = Feat(r).head /\ f.audit = Feat(r).audit
      BY <2>1, Known DEF Feature
    <3> HIDE DEF f
    <3>2. /\ st[r].stage = "integration_branch_removed" /\ st[r] \in State
          /\ Fits(r, st[r], pc[r], Feat(r), integ[r], base)
      BY <2>1, Known
    <3>3. FeatureFits(st[r], f)
      BY <3>1, <3>2 DEF Fits, FeatureFits, RemovalStages
    <3>4. HeadFits(st[r], f)
      BY <3>1, <3>2 DEF Fits, HeadFits
    <3>5. HasLanded(base, r, f.head)
      BY <2>3, <3>1, HeadLanded, <2>1
    <3>6. BaseFits(r, st[r], pc[r], f, base)
      BY <3>2, <3>5 DEF Fits, BaseFits
    <3>7. Fits(r, st[r], pc[r], f, integ[r], base)
      BY <3>2, <3>3, <3>4, <3>6 DEF Fits
    <3> QED BY <1>b, <2>1, <2>3, <3>1, <3>7, Known, SameLabel, SetFeatKeeps
  <2>4. CASE /\ ~Feat(r).branch
             /\ Advance(r, "feature_branch_removed", st[r], "finish")
    <3>1. Fits(r, [st[r] EXCEPT !.stage = "feature_branch_removed"],
               "finish", Feat(r), integ[r], base)
      BY <2>1, <2>4, Known, CleanupSavesFit
    <3> QED BY <2>1, <2>4, <3>1, SaveKeeps
  <2> QED BY <1>6, <2>2, <2>3, <2>4 DEF DeleteFeatureBranch
<1>7. CASE CleanupDone(r)
  <2>1. /\ Stage(r) = "feature_branch_removed"
        /\ Advance(r, "cleanup_complete", st[r], "finish")
    BY <1>7 DEF CleanupDone, At
  <2>2. Fits(r, [st[r] EXCEPT !.stage = "cleanup_complete"], "finish",
             Feat(r), integ[r], base)
    BY <2>1, Known, CleanupSavesFit
  <2> QED BY <2>1, <2>2, SaveKeeps
<1> QED BY <1>1, <1>2, <1>3, <1>4, <1>5, <1>6, <1>7

\* A run that has no state file yet moves on or goes down.
LEMMA UnsavedKeeps ==
  ASSUME IInv, NEW r \in Runs, st[r] = None, NEW p,
         \/ p = "reserved" /\ pc[r] = "named"
         \/ p = "down" /\ pc[r] # "none",
         GoTo(r, p), UNCHANGED <<st, name, fresh, feat, integ, archive, base>>,
         budget' \in [fault : 0..FaultMax, user : 0..UserMax]
  PROVE  IInv'
<1>1. /\ pc'[r] = p /\ \A q \in Runs : q # r => pc'[q] = pc[q]
      /\ pc' \in [Runs -> Labels] /\ p \in Labels
  BY DEF IInv, TypeOK, GoTo, Labels
<1>2. TypeOK'
  BY <1>1 DEF IInv, TypeOK, Labels, Stage
<1>3. NamesFit'
  <2>1. ASSUME NEW q \in Runs
        PROVE  /\ pc'[q] = "none" => st[q] = None /\ name[q] = None
               /\ pc'[q] # "none" => name[q] \in Names
               /\ pc'[q] \in {"named", "reserved"} => st[q] = None
               /\ st[q] = None =>
                    /\ integ[q] = NoInteg
                    /\ pc'[q] \in {"none", "named", "reserved", "down"}
                    /\ pc'[q] # "none" => Feat(q) = NoFeature
    <3>1. CASE q = r
      BY <1>1, <3>1 DEF IInv, NamesFit
    <3>2. CASE q # r
      BY <1>1, <3>2 DEF IInv, NamesFit
    <3> QED BY <3>1, <3>2
  <2> QED BY <2>1 DEF IInv, NamesFit, Feat
<1>4. RunsFit'
  BY <1>1 DEF IInv, RunsFit, Feat
<1> QED BY <1>2, <1>3, <1>4 DEF IInv

\* The name a run chooses is one of the names.
LEMMA ChosenName ==
  ASSUME NEW r \in Runs, ChooseNames(r)
  PROVE  \E n \in Names : name' = [name EXCEPT ![r] = n]
<1>1. PICK k \in 1..MaxSuffix : name' = [name EXCEPT ![r] = NamesOf[r][k]]
  BY DEF ChooseNames
<1>2. NamesOf[r][k] \in Names
  BY DEF Names
<1> QED BY <1>1, <1>2

\* A run starts.
LEMMA StartKeeps ==
  ASSUME IInv, DistinctNames, DistinctNames', NEW r \in Runs,
         ChooseNames(r) \/ Reserve(r) \/ CreateState(r)
  PROVE  IInv'
<1>1. CASE ChooseNames(r)
  <2>1. /\ pc[r] = "none" /\ st[r] = None /\ name[r] = None
        /\ UNCHANGED <<st, fresh, feat, integ, archive, base, budget>>
        /\ pc' = [pc EXCEPT ![r] = "named"]
    BY <1>1 DEF ChooseNames, GoTo, IInv, NamesFit
  <2>2. PICK n \in Names : name' = [name EXCEPT ![r] = n]
    BY <1>1, ChosenName
  <2>3. /\ name'[r] = n /\ pc'[r] = "named"
        /\ \A q \in Runs : q # r => name'[q] = name[q] /\ pc'[q] = pc[q]
    BY <2>1, <2>2 DEF IInv, TypeOK
  <2>4. \A q \in Runs : name[q] # n
    BY <2>1, <2>3, Apart DEF DistinctNames
  <2>5. feat[n] = NoFeature
    BY <2>4 DEF IInv, NamesFit
  <2>6. TypeOK'
    <3>1. name' \in [Runs -> Names \cup {None}]
      BY <2>2 DEF IInv, TypeOK
    <3>2. pc' \in [Runs -> Labels]
      BY <2>1 DEF IInv, TypeOK, Labels
    <3> QED BY <2>1, <3>1, <3>2 DEF IInv, TypeOK, Labels, Stage
  <2>7. NamesFit'
    <3>1. ASSUME NEW q \in Runs
          PROVE  /\ pc'[q] = "none" => st[q] = None /\ name'[q] = None
                 /\ pc'[q] # "none" => name'[q] \in Names
                 /\ pc'[q] \in {"named", "reserved"} => st[q] = None
                 /\ st[q] = None =>
                      /\ integ[q] = NoInteg
                      /\ pc'[q] \in {"none", "named", "reserved", "down"}
                      /\ pc'[q] # "none" => feat[name'[q]] = NoFeature
      <4>1. CASE q = r
        BY <2>1, <2>3, <2>5, <4>1 DEF IInv, NamesFit
      <4>2. CASE q # r
        BY <2>3, <4>2 DEF IInv, NamesFit, Feat
      <4> QED BY <4>1, <4>2
    <3>2. ASSUME NEW m \in Names, \A q \in Runs : name'[q] # m
          PROVE  feat[m] = NoFeature
      <4>1. \A q \in Runs : name[q] # m
        BY <2>1, <2>3, <3>2, Apart
      <4> QED BY <4>1 DEF IInv, NamesFit
    <3> QED BY <2>1, <3>1, <3>2 DEF NamesFit, Feat
  <2>8. RunsFit'
    <3> SUFFICES ASSUME NEW q \in Runs, st[q] # None
                 PROVE  Fits(q, st[q], pc'[q], feat[name'[q]], integ[q], base)
      BY <2>1 DEF RunsFit, Feat
    <3>1. q # r
      BY <2>1
    <3> QED BY <2>3, <3>1 DEF IInv, RunsFit, Feat
  <2> QED BY <2>6, <2>7, <2>8 DEF IInv
<1>2. CASE Reserve(r)
  <2>1. /\ pc[r] = "named" /\ GoTo(r, "reserved") /\ UNCHANGED <<st, world>>
        /\ st[r] = None
    BY <1>2 DEF Reserve, IInv, NamesFit
  <2>2. budget' \in [fault : 0..FaultMax, user : 0..UserMax]
    BY <2>1 DEF IInv, TypeOK, world
  <2> QED BY <2>1, <2>2, UnsavedKeeps DEF world
<1>3. CASE CreateState(r)
  <2>1. PICK c \in ConfigsOf[r] :
          st' = [st EXCEPT ![r] =
                  [stage |-> "feature_allocated", mode |-> c.mode,
                   keep |-> c.keep, featBase |-> base, auditHead |-> 0,
                   intBase |-> None, intFeature |-> 0, fp |-> None,
                   intCommit |-> None, archiveCommit |-> None,
                   finalCommit |-> None]]
    BY <1>3 DEF CreateState
  <2>2. /\ pc[r] = "reserved" /\ pc' = [pc EXCEPT ![r] = "alloc"]
        /\ UNCHANGED world /\ st[r] = None /\ Feat(r) = NoFeature
        /\ integ[r] = NoInteg /\ name[r] \in Names /\ base \in History
    BY <1>3 DEF CreateState, GoTo, IInv, NamesFit, TypeOK
  <2> DEFINE s == [stage |-> "feature_allocated", mode |-> c.mode,
                   keep |-> c.keep, featBase |-> base, auditHead |-> 0,
                   intBase |-> None, intFeature |-> 0, fp |-> None,
                   intCommit |-> None, archiveCommit |-> None,
                   finalCommit |-> None]
  <2>3. c \in [mode : Modes, keep : BOOLEAN]
    BY ConfigsAssumption
  <2>4. s \in State /\ s.stage = "feature_allocated"
    BY <2>2, <2>3, NoHead, StageNames DEF State
  <2>5. NoFeature \in Feature /\ NoInteg \in Integration
    BY NoHead DEF NoFeature, NoInteg, Feature, Integration, Trees
  <2> HIDE DEF s
  <2>6. Fits(r, s, "alloc", NoFeature, NoInteg, base)
    <3>1. LabelFits(s, "alloc", NoInteg)
      BY DEF LabelFits
    <3>2. FeatureFits(s, NoFeature)
      BY <2>4 DEF FeatureFits, NoFeature, RemovalStages
    <3>3. IntegrationFits(s, NoInteg)
      BY <2>4 DEF IntegrationFits, NoInteg, BuildStages, ConflictStages,
         RemovalStages
    <3>4. HeadFits(s, NoFeature)
      BY <2>4 DEF HeadFits, AuditedStages, IntegratedStages, BuildStages,
         ConflictStages, LandedStages, RecordStages, RemovalStages
    <3>5. BuildFits(r, s, NoInteg)
      BY <2>4 DEF BuildFits, OpenStages, BuildStages, ConflictStages,
         LandedStages, RecordStages, RemovalStages
    <3>6. BaseFits(r, s, "alloc", NoFeature, base)
      BY <2>4 DEF BaseFits, NoFeature, LandedStages, RecordedStages,
         RecordStages, RemovalStages
    <3> QED BY <3>1, <3>2, <3>3, <3>4, <3>5, <3>6 DEF Fits
  <2>7. /\ feat' = [feat EXCEPT ![name[r]] = NoFeature]
        /\ integ' = [integ EXCEPT ![r] = NoInteg]
    BY <2>2, SameAt DEF IInv, TypeOK, Feat, world
  <2>8. /\ name' = name /\ base' = base /\ fresh' \in [Runs -> BOOLEAN]
        /\ archive' \in
             [Runs -> [cand : BOOLEAN, dirty : BOOLEAN, final : BOOLEAN]]
        /\ budget' \in [fault : 0..FaultMax, user : 0..UserMax]
    BY <2>2 DEF world, IInv, TypeOK
  <2>9. st' = [st EXCEPT ![r] = s]
    BY <2>1 DEF s
  <2>10. "alloc" \in Labels \ {"none", "named", "reserved"}
    BY DEF Labels
  <2>11. pc[r] # "none" /\ s.stage # "audit_complete"
    BY <2>2, <2>4
  <2> QED BY <2>2, <2>4, <2>5, <2>6, <2>7, <2>8, <2>9, <2>10, <2>11, BaseSame,
             RunKeeps
<1> QED BY <1>1, <1>2, <1>3

\* A run is resumed, or killed.
LEMMA ResumeKeeps ==
  ASSUME IInv, DistinctNames, NEW r \in Runs,
         Resume(r) \/ ResumeStopped(r) \/ Kill(r)
  PROVE  IInv'
<1> USE StageNames, LabelNames
<1>1. CASE Resume(r)
  <2> DEFINE p == ResumeLabel(Stage(r))
  <2>1. /\ Stage(r) # "none" /\ GoTo(r, p)
        /\ fresh' = [fresh EXCEPT ![r] = FALSE]
        /\ UNCHANGED <<st, name, feat, integ, archive, base, budget>>
    BY <1>1 DEF Resume
  <2>2. p \in {"alloc", "feature", "finish"}
    BY DEF ResumeLabel
  <2> HIDE DEF p
  <2>3. Fits(r, st[r], p, Feat(r), integ[r], base)
    BY <2>1, <2>2, Known, LabelFree
  <2>4. /\ fresh' \in [Runs -> BOOLEAN]
        /\ budget' \in [fault : 0..FaultMax, user : 0..UserMax]
    BY <2>1 DEF IInv, TypeOK
  <2> QED BY <2>1, <2>2, <2>3, <2>4, GoToKeeps
<1>2. CASE ResumeStopped(r)
  <2>1. /\ Stage(r) = "stopped_before_merge" /\ pc[r] = "down"
        /\ fresh' = [fresh EXCEPT ![r] = FALSE]
        /\ UNCHANGED <<name, feat, integ, archive, base, budget>>
    BY <1>2 DEF ResumeStopped, LockFree
  <2>2. /\ feat' = [feat EXCEPT ![name[r]] = Feat(r)]
        /\ integ' = [integ EXCEPT ![r] = integ[r]]
    BY <2>1, Known, SameAt DEF IInv, TypeOK, Feat
  <2>3. /\ pc[r] # "none" /\ Feat(r) \in Feature /\ integ[r] \in Integration
        /\ base \in History /\ name' = name /\ base' = base
    BY <2>1, Known
  <2>4. /\ fresh' \in [Runs -> BOOLEAN]
        /\ archive' \in
             [Runs -> [cand : BOOLEAN, dirty : BOOLEAN, final : BOOLEAN]]
        /\ budget' \in [fault : 0..FaultMax, user : 0..UserMax]
    BY <2>1 DEF IInv, TypeOK
  <2>5. ASSUME NEW t \in State, NEW p \in Working,
               st' = [st EXCEPT ![r] = t], pc' = [pc EXCEPT ![r] = p],
               t.stage # "audit_complete",
               Fits(r, t, p, Feat(r), integ[r], base)
        PROVE  IInv'
    BY <2>2, <2>3, <2>4, <2>5, BaseSame, RunKeeps
  <2>6. CASE st' = [st EXCEPT ![r].archiveCommit = base] /\ UNCHANGED pc
    <3> DEFINE s == [st[r] EXCEPT !.archiveCommit = base]
    <3>1. st' = [st EXCEPT ![r] = s] /\ pc' = [pc EXCEPT ![r] = "down"]
      BY <2>1, <2>6, SameLabel
    <3>2. s \in State /\ Fits(r, s, "down", Feat(r), integ[r], base)
      BY <2>1, Known, StoppedFits
    <3>3. s.stage = "stopped_before_merge"
      BY <2>1, Known DEF State
    <3> HIDE DEF s
    <3> QED BY <2>5, <3>1, <3>2, <3>3
  <2>7. ASSUME NEW m \in {"squash", "no-ff"},
               Transition(r, "audit_started",
                 [st[r] EXCEPT !.mode = m, !.archiveCommit = None], "feature")
        PROVE  IInv'
    <3> DEFINE s == [st[r] EXCEPT !.mode = m, !.archiveCommit = None]
               t == [s EXCEPT !.stage = "audit_started"]
    <3>1. s \in State /\ Fits(r, t, "feature", Feat(r), integ[r], base)
      BY <2>1, Known, ReauditFits
    <3> HIDE DEF s
    <3>2. t \in State /\ t.stage = "audit_started"
      BY <3>1, SavedState
    <3>3. CASE st' = [st EXCEPT ![r] = t] /\ pc' = [pc EXCEPT ![r] = "feature"]
      <4> HIDE DEF t
      <4> QED BY <2>5, <3>1, <3>2, <3>3
    <3>4. CASE pc' = [pc EXCEPT ![r] = "down"] /\ UNCHANGED st
      <4>1. st' = [st EXCEPT ![r] = st[r]] /\ st[r] \in State
        BY <2>1, <3>4, Known, SameAt DEF IInv, TypeOK
      <4>2. st[r].stage # "audit_complete"
        BY <2>1, Known
      <4>3. Fits(r, st[r], "down", Feat(r), integ[r], base)
        BY <2>1, Known, DownFits
      <4> QED BY <2>5, <3>4, <4>1, <4>2, <4>3
    <3> QED BY <2>7, <3>3, <3>4 DEF Transition, s
  <2> QED BY <1>2, <2>6, <2>7 DEF ResumeStopped
<1>3. CASE Kill(r)
  <2>1. /\ pc[r] # "none" /\ GoTo(r, "down")
        /\ UNCHANGED <<name, st, fresh, feat, integ, archive, base>>
    BY <1>3 DEF Kill
  <2>2. budget' \in [fault : 0..FaultMax, user : 0..UserMax]
    BY <1>3, BoundsAssumption DEF Kill, SpendFault, IInv, TypeOK
  <2>3. CASE st[r] = None
    BY <2>1, <2>2, <2>3, UnsavedKeeps
  <2>4. CASE st[r] # None
    <3>1. Stage(r) # "none"
      BY <2>4, SavedStage
    <3>2. Fits(r, st[r], "down", Feat(r), integ[r], base)
      BY <3>1, Known, DownFits
    <3>3. fresh' \in [Runs -> BOOLEAN]
      BY <2>1 DEF IInv, TypeOK
    <3> QED BY <2>1, <2>2, <3>1, <3>2, <3>3, GoToKeeps
  <2> QED BY <2>3, <2>4
<1> QED BY <1>1, <1>2, <1>3

\* The owner commits, or rewrites a commit of theirs.
LEMMA OwnerKeeps ==
  ASSUME IInv, DistinctNames,
         \/ OwnerCommits \/ OwnerAmends
         \/ \E n \in Names : OwnerCommitsToFeature(n)
  PROVE  IInv'
<1>b. /\ budget' \in [fault : 0..FaultMax, user : 0..UserMax]
      /\ budget.user \in Nat
  BY BoundsAssumption
     DEF OwnerCommits, OwnerAmends, OwnerCommitsToFeature, SpendUser, IInv, TypeOK
<1>1. CASE OwnerCommits \/ OwnerAmends
  <2>1. UNCHANGED <<name, st, pc, fresh, feat, integ, archive>>
    BY <1>1 DEF OwnerCommits, OwnerAmends
  <2>2. base \in History /\ CommitOf("user", NoRun, budget.user) \in Commit
    BY <1>b, CommitType DEF IInv, TypeOK, Kinds
  <2>3. base' \in History /\ KeepsRecords(base, base')
    BY <1>1, <2>2, AppendCommit, AmendCommit DEF OwnerCommits, OwnerAmends
  <2>4. TypeOK'
    BY <1>b, <2>1, <2>3 DEF IInv, TypeOK, Stage
  <2>5. NamesFit'
    BY <2>1 DEF IInv, NamesFit, Feat
  <2>6. RunsFit'
    <3> SUFFICES ASSUME NEW r \in Runs, st[r] # None
                 PROVE  Fits(r, st[r], pc[r], Feat(r), integ[r], base')
      BY <2>1 DEF RunsFit, Feat
    <3> QED BY <2>2, <2>3, SavedStage, Known, BaseKept
  <2> QED BY <2>4, <2>5, <2>6 DEF IInv
<1>2. ASSUME NEW n \in Names, OwnerCommitsToFeature(n)
      PROVE  IInv'
  <2> DEFINE f == [feat[n] EXCEPT !.head = @ + 1]
  <2>1. /\ feat[n].wt /\ feat[n].head < MaxHead /\ feat' = [feat EXCEPT ![n] = f]
        /\ UNCHANGED <<name, st, pc, fresh, integ, archive, base>>
    BY <1>2 DEF OwnerCommitsToFeature
  <2>2. /\ f \in Feature /\ f.wt = feat[n].wt /\ f.branch = feat[n].branch
        /\ f.audit = feat[n].audit /\ f.head > 0
    <3>1. feat[n] \in Feature /\ feat[n].head \in 0..MaxHead
      BY DEF IInv, TypeOK, Feature
    <3>2. feat[n].head + 1 \in 0..MaxHead /\ feat[n].head + 1 > 0
      BY <2>1, <3>1, BoundsAssumption
    <3> QED BY <3>1, <3>2 DEF Feature
  <2> HIDE DEF f
  <2>3. feat'[n] = f /\ \A m \in Names : m # n => feat'[m] = feat[m]
    BY <2>1 DEF IInv, TypeOK
  <2>4. feat[n] # NoFeature
    BY <2>1 DEF NoFeature
  <2>5. TypeOK'
    BY <1>b, <2>1, <2>2 DEF IInv, TypeOK, Stage
  <2>6. NamesFit'
    BY <2>1, <2>3, <2>4, Apart DEF IInv, NamesFit, Feat
  <2>7. RunsFit'
    <3> SUFFICES ASSUME NEW r \in Runs, st[r] # None
                 PROVE  Fits(r, st[r], pc[r], Feat(r)', integ[r], base)
      BY <2>1 DEF RunsFit
    <3>1. /\ name[r] \in Names
          /\ Fits(r, st[r], pc[r], Feat(r), integ[r], base)
      BY SavedStage, Known
    <3>2. CASE name[r] # n
      BY <2>1, <2>3, <3>1, <3>2 DEF Feat
    <3>3. CASE name[r] = n
      <4>1. Feat(r) = feat[n] /\ Feat(r)' = f
        BY <2>1, <2>3, <3>3 DEF Feat
      <4>2. FeatureFits(st[r], feat[n]) /\ feat[n].branch
        BY <2>1, <3>1, <4>1 DEF Fits, FeatureFits
      <4>3. FeatureFits(st[r], f)
        BY <2>1, <2>2, <4>2 DEF FeatureFits
      <4>4. HeadFits(st[r], f) /\ BaseFits(r, st[r], pc[r], f, base)
        BY <2>2, <3>1, <4>1, <4>2 DEF Fits, HeadFits, BaseFits
      <4> QED BY <3>1, <4>1, <4>3, <4>4 DEF Fits
    <3> QED BY <3>2, <3>3
  <2> QED BY <2>5, <2>6, <2>7 DEF IInv
<1> QED BY <1>1, <1>2

----------------------------------------------------------------------------
(* The invariant, and what follows from it.                                *)

LEMMA InitInv == Init => IInv
<1> SUFFICES ASSUME Init PROVE IInv
  OBVIOUS
<1>1. TypeOK
  <2>1. NoFeature \in Feature /\ NoInteg \in Integration
    BY NoHead DEF NoFeature, NoInteg, Feature, Integration, Trees
  <2>2. << >> \in History
    BY EmptySeq DEF History
  <2>3. budget \in [fault : 0..FaultMax, user : 0..UserMax]
    BY BoundsAssumption DEF Init
  <2> QED BY <2>1, <2>2, <2>3 DEF Init, TypeOK, Stage
<1>2. NamesFit /\ RunsFit
  BY DEF Init, NamesFit, RunsFit, Feat
<1> QED BY <1>1, <1>2 DEF IInv

LEMMA StepInv == IInv /\ DistinctNames /\ DistinctNames' /\ [Next]_vars => IInv'
<1> SUFFICES ASSUME IInv, DistinctNames, DistinctNames', [Next]_vars
             PROVE  IInv'
  OBVIOUS
<1>1. ASSUME NEW r \in Runs, ChooseNames(r) \/ Reserve(r) \/ CreateState(r)
      PROVE  IInv'
  BY <1>1, StartKeeps
<1>2. ASSUME NEW r \in Runs, Resume(r) \/ ResumeStopped(r) \/ Kill(r)
      PROVE  IInv'
  BY <1>2, ResumeKeeps
<1>3. ASSUME NEW r \in Runs, Step(r)
      PROVE  IInv'
  BY <1>1, <1>3, ImplementKeeps, FeatureTreeKeeps, StopKeeps, MergeKeeps,
     ConflictKeeps, IntegrateKeeps, LandKeeps, RecordKeeps, CleanupKeeps DEF Step
<1>4. CASE UNCHANGED vars
  BY <1>4 DEF vars, IInv, TypeOK, NamesFit, RunsFit, Stage, Feat
<1> QED BY <1>1, <1>2, <1>3, <1>4, OwnerKeeps DEF Next

\* The state file of a run whose commit is on the base says what that holds.
LEMMA ReceiptsFollow == IInv => ReceiptsHold
<1> SUFFICES ASSUME IInv, NEW r \in Runs, st[r] # None
             PROVE  /\ Stage(r) \in RecordStages \cup
                         {"base_fast_forwarded", "handoff_archived", "complete"} =>
                         /\ IsPrefix(st[r].intCommit, base)
                         /\ Last(st[r].intCommit) =
                              CommitOf("integration", r, st[r].auditHead)
                         /\ Front(st[r].intCommit) = st[r].intBase
                    /\ Stage(r) \in RecordStages \cup {"complete"} =>
                         /\ IsPrefix(st[r].archiveCommit, base)
                         /\ Front(st[r].archiveCommit) = st[r].intCommit
                    /\ Stage(r) = "complete" =>
                         /\ IsPrefix(st[r].finalCommit, base)
                         /\ Front(st[r].finalCommit) = st[r].archiveCommit
                         /\ Feat(r).wt = st[r].keep /\ Feat(r).branch = st[r].keep
                         /\ integ[r].wt = st[r].keep
                         /\ integ[r].branch = st[r].keep
  BY DEF ReceiptsHold
<1> DEFINE s == st[r]
<1>1. /\ s \in State /\ Stage(r) = s.stage
      /\ Fits(r, s, pc[r], Feat(r), integ[r], base)
  BY SavedStage, Known
<1> HIDE DEF s
<1>2. ASSUME s.stage \in LandedStages
      PROVE  /\ IsPrefix(s.intCommit, base)
             /\ Last(s.intCommit) = CommitOf("integration", r, s.auditHead)
             /\ Front(s.intCommit) = s.intBase
  <2>1. /\ s.intBase \in History /\ s.intFeature = s.auditHead
    BY <1>1, <1>2 DEF Fits, HeadFits, IntegratedStages
  <2>2. /\ s.intCommit = Append(s.intBase, Integrated(r, s))
        /\ IsPrefix(s.intCommit, base)
    BY <1>1, <1>2 DEF Fits, BuildFits, BaseFits
  <2>3. Integrated(r, s) \in Commit
    BY <1>1, BoundsAssumption, CommitType DEF Integrated, Kinds, State
  <2>4. /\ Last(Append(s.intBase, Integrated(r, s))) = Integrated(r, s)
        /\ Front(Append(s.intBase, Integrated(r, s))) = s.intBase
    BY <2>1, <2>3, AppendCommit
  <2> QED BY <2>1, <2>2, <2>4 DEF Integrated
<1>3. ASSUME s.stage \in RecordedStages
      PROVE  IsPrefix(s.archiveCommit, base) /\ Front(s.archiveCommit) = s.intCommit
  BY <1>1, <1>3 DEF Fits, BaseFits
<1>4. ASSUME s.stage = "complete"
      PROVE  /\ IsPrefix(s.finalCommit, base)
             /\ Front(s.finalCommit) = s.archiveCommit
             /\ Feat(r).wt = s.keep /\ Feat(r).branch = s.keep
             /\ integ[r].wt = s.keep /\ integ[r].branch = s.keep
  BY <1>1, <1>4 DEF Fits, BaseFits, FeatureFits, IntegrationFits
<1> QED BY <1>1, <1>2, <1>3, <1>4 DEF s, LandedStages, RecordedStages

LEMMA NoWorkLostFollows == IInv => NoWorkLost
<1> SUFFICES ASSUME IInv, NEW r \in Runs, st[r] # None, Feat(r).head > 0,
                    ~Feat(r).branch
             PROVE  HasLanded(base, r, Feat(r).head)
  BY DEF NoWorkLost
<1> QED BY SavedStage, Known DEF Fits, BaseFits

(* As long as no two runs choose one name, every state file, process,      *)
(* worktree, branch and the base fit together.                             *)
THEOREM Fitting == Spec /\ []DistinctNames => []IInv
<1> QED BY InitInv, StepInv, PTL DEF Spec

(* Then every variable has its type, and an audited run a head to land.    *)
THEOREM TypeCorrect == Spec /\ []DistinctNames => []TypeOK
<1>1. IInv => TypeOK
  BY DEF IInv
<1> QED BY Fitting, <1>1, PTL

(* Whatever is killed, refused or moved in between, what a saved stage     *)
(* claims has landed, was archived and was removed, is so in git.          *)
THEOREM ReceiptsAreTrue == Spec /\ []DistinctNames => []ReceiptsHold
BY Fitting, ReceiptsFollow, PTL

(* The forced deletion of a feature branch (_delete_branch_exact) never    *)
(* takes a commit with it that has not landed.                             *)
THEOREM NoWorkIsLost == Spec /\ []DistinctNames => []NoWorkLost
BY Fitting, NoWorkLostFollows, PTL
=============================================================================
