----------------------------- MODULE TrashPrune -----------------------------
(***************************************************************************)
(* BackupEngine._trash_manifest_entries, for --prune-trash and             *)
(* --prune-excluded: whole Drive folders are trashed where nothing tracked *)
(* under them is kept, the rest file by file; calls run on worker threads  *)
(* and their outcomes are applied in job order; a folder that also holds   *)
(* another app's items is split and retried.  --dry-run, which makes no    *)
(* call and changes nothing, is left out.                                  *)
(***************************************************************************)
EXTENDS Naturals, FiniteSets, SequencesExt

CONSTANTS
  Order,     \* paths of files and directories, in the order sorted() gives
  Keys,      \* the ones that are manifest keys
  Fold,      \* casefold, on the names the paths are made of
  Kinds,     \* Kinds[k]: what the file of key k may be, see AllKinds
  Foreign,   \* the sets of Drive folders that may hold another app's items
  Copies,    \* Copies[k]: the Drive folders of its path it may have gone to
  Workers,   \* PRUNE_TRASH_WORKERS
  FaultMax,  \* bound: failed calls
  StopMax    \* bound: crashes and interrupts

(* kept: there and not marked, and eligible, unreadable or too large now.  *)
(* protected: gone, prune_protected_path.  stale: gone, not marked.        *)
(* unnamed: the same with no Drive id recorded.  marked: gone and marked   *)
(* by an earlier --prune.  shielded: marked and protected.  returned:      *)
(* marked and there again, but not uploaded again, since that failed or    *)
(* the file is unreadable or too large.  excluded: there, not marked, and  *)
(* not backed up any more.                                                 *)
AllKinds == {"untracked", "kept", "protected", "stale", "unnamed", "marked",
             "shielded", "returned", "excluded"}
Gone == {"stale", "unnamed", "marked"}
Marked == {"marked", "shielded", "returned"}

ASSUME KindsAssumption == Kinds \in [Keys -> SUBSET AllKinds]
ASSUME WorkersAssumption == Workers \in Nat \ {0}
ASSUME CopiesAssumption == Copies \in [Keys -> SUBSET Nat]
ASSUME BoundsAssumption == {FaultMax, StopMax} \subseteq Nat

VARIABLES
  kind,     \* what each file is
  copy,     \* which of the folders of its path each file was uploaded to
  foreign,  \* the Drive folders that hold another app's items
  stages,   \* what the run was started with
  trashed,  \* Drive items that were trashed
  mem,      \* the keys in the manifest
  disk,     \* the keys in the saved manifest
  pc,       \* "group", "trash", "settled" or "ended"
  stage,    \* the stages still to do: "missing" (--prune-trash), "excluded"
  targets,  \* the targets of the stage
  pending,  \* the jobs of this round
  outcome,  \* what the workers have made of them so far
  applied,  \* how many outcomes were applied
  retry,    \* the jobs of the next round
  known,    \* known_folder_ids, or << >> before it is needed
  failed,   \* keys of recorded prune errors
  left      \* what is left of the bounds

world == <<kind, copy, foreign, stages>>
work == <<targets, pending, outcome, applied, retry, known>>
vars == <<world, trashed, mem, disk, pc, stage, work, failed, left>>

Folded(p) == [i \in DOMAIN p |-> Fold[p[i]]]
Above(p) == {SubSeq(p, 1, n) : n \in 1..(Len(p) - 1)}

ASSUME KeysAssumption ==
  /\ Order \in Seq(Seq(DOMAIN Fold)) /\ << >> \notin Keys
  /\ \A k \in Keys : {k} \cup Above(k) \subseteq Range(Order)

(* sorted(): each element of S after those of a lower rank.               *)
InOrder ==
  [S \in SUBSET Range(Order) |->
     LET places == {i \in DOMAIN Order : Order[i] \in S}
         Rank(i) == Cardinality({j \in places : j <= i})
     IN [n \in 1..Cardinality(places) |->
           Order[CHOOSE i \in places : Rank(i) = n]]]

\* Drive items: a path and which one of that path, and what tells a file from
\* a folder.  Drive folders are found by name, and Drive names match whatever
\* their case.
Item(k) == <<k, copy[k], "file">>
ParentId(k) == <<Folded(Front(k)), copy[k]>>
Around(k) == {<<Folded(p), copy[k]>> : p \in Above(k)}
Within(f, g) == f[2] = g[2] /\ IsPrefix(g[1], f[1])
IsLive(k) == ({Item(k)} \cup Around(k)) \cap trashed = {}

Spend(bound) == left[bound] > 0 /\ left' = [left EXCEPT ![bound] = @ - 1]

Init ==
  /\ kind \in {f \in [Keys -> AllKinds] : \A k \in Keys : f[k] \in Kinds[k]}
  /\ copy \in {f \in [Keys -> UNION Range(Copies)] : \A k \in Keys : f[k] \in Copies[k]}
  /\ foreign \in Foreign
  /\ stages \in {<<"missing", "excluded">>, <<"missing">>, <<"excluded">>}
  /\ trashed = {}
  /\ mem = {k \in Keys : kind[k] # "untracked"} /\ disk = mem
  /\ pc = "group" /\ stage = stages
  /\ targets = {} /\ pending = << >> /\ outcome = << >>
  /\ applied = 0 /\ retry = << >> /\ known = << >>
  /\ failed = {}
  /\ left = [fault |-> FaultMax, stop |-> StopMax]

(* _stale_manifest_entries and _excluded_manifest_entries.                 *)
Targets(s) ==
  {k \in mem : IF s = "missing" THEN kind[k] \in Gone ELSE kind[k] = "excluded"}

\* Mutant: case is told apart when kept paths are compared.
KeepDirsAsSpelled(T) ==
  UNION {Above(k) : k \in {k \in mem \ T : kind[k] \notin Marked}}
(* The directories that hold something kept, without regard to case.       *)
KeepDirs(T) ==
  UNION {Above(Folded(k)) : k \in {k \in mem \ T : kind[k] \notin Marked}}

\* The Drive ids recorded for the files right in a directory; the code takes
\* the first one in the manifest's order, which may be any.
IdsOf(S) ==
  {f \in [{Front(k) : k \in S} -> {ParentId(k) : k \in S}] :
     \A p \in DOMAIN f : f[p] \in {ParentId(k) : k \in {k \in S : Front(k) = p}}}

(* _group_by_trashable_folder: the directories that may go whole.          *)
Trashable(T, ids) ==
  {p \in DOMAIN ids :
     /\ Folded(p) \notin KeepDirs(T)
     /\ ids[p] \notin {ParentId(k) : k \in {k \in mem \ T : kind[k] \notin Marked}}}

(* folder_for: the shallowest of them above a path.                        *)
FolderFor(k, dirs) ==
  {p \in Above(k) \cap dirs : Above(p) \cap dirs = {}}

FolderJob(p, id, keys) == [path |-> p, id |-> id, keys |-> keys, folder |-> TRUE]
FileJob(k) == [path |-> k, id |-> Item(k), keys |-> {k}, folder |-> FALSE]
FileJobs(S) ==
  LET sorted == InOrder[{k \in S : kind[k] # "unnamed"}]
  IN [i \in DOMAIN sorted |-> FileJob(sorted[i])]

FolderJobs(T, dirs, ids) ==
  LET used == InOrder[UNION {FolderFor(k, dirs) : k \in T}]
      Under(p) == {k \in mem : p \in FolderFor(k, dirs)
                               /\ (k \in T \/ kind[k] \in Marked)}
  IN [i \in DOMAIN used |-> FolderJob(used[i], ids[used[i]], Under(used[i]))]

\* Mutant: the count of applied outcomes is not started again.
SubmitKeepingCount(jobs) ==
  /\ pending' = jobs
  /\ outcome' = [i \in DOMAIN jobs |-> "queued"]
  /\ applied' = applied /\ retry' = << >>
Submit(jobs) ==
  /\ pending' = jobs
  /\ outcome' = [i \in DOMAIN jobs |-> "queued"]
  /\ applied' = 0 /\ retry' = << >>

(* _trash_manifest_entries up to its loop.                                 *)
Group ==
  /\ pc = "group" /\ stage # << >>
  /\ \E ids \in IdsOf({k \in mem : k \in Targets(Head(stage))
                                   \/ kind[k] \in Marked}) :
       LET T == Targets(Head(stage))
           dirs == Trashable(T, ids)
           singles == {k \in T : FolderFor(k, dirs) = {}}
       IN /\ targets' = T
          /\ Submit(FolderJobs(T, dirs, ids) \o FileJobs(singles))
          /\ failed' = failed \cup {k \in singles : kind[k] = "unnamed"}
  /\ known' = << >>
  /\ pc' = "trash"
  /\ UNCHANGED <<world, trashed, mem, disk, stage, left>>

(* Drive refuses to trash a folder with another app's item in it.          *)
Refuses(i) == pending[i].folder /\ \E f \in foreign : Within(f, pending[i].id)

(* _try_trash_drive_item on a worker, jobs being taken up in their order.  *)
(* A call that fails may have had its effect.                              *)
Call(i) ==
  /\ pc = "trash" /\ outcome[i] = "queued"
  /\ Cardinality({j \in 1..(i - 1) : outcome[j] = "queued"}) < Workers
  /\ \/ /\ Refuses(i)
        /\ outcome' = [outcome EXCEPT ![i] = "refused"]
        /\ UNCHANGED <<trashed, left>>
     \/ /\ ~Refuses(i)
        /\ outcome' = [outcome EXCEPT ![i] = "done"]
        /\ trashed' = trashed \cup {pending[i].id}
        /\ UNCHANGED left
     \/ /\ Spend("fault")
        /\ outcome' = [outcome EXCEPT ![i] = "error"]
        /\ trashed' \in {trashed,
                         trashed \cup IF Refuses(i) THEN {} ELSE {pending[i].id}}
  /\ UNCHANGED <<world, mem, disk, pc, stage, targets, pending, applied, retry,
                 known, failed>>

\* Mutant: the directory being split is among its own pieces.
PiecesWithItself(job, k, ids) ==
  LET below == {p \in Above(k) \cap DOMAIN ids : Len(p) >= Len(job.path)}
  IN {p \in below : Above(p) \cap below = {}}
(* The job that takes a key over: that of the shallowest directory below   *)
(* the one split whose id is known, or one of its own.                     *)
Pieces(job, k, ids) ==
  LET below == {p \in Above(k) \cap DOMAIN ids : Len(p) > Len(job.path)}
  IN {p \in below : Above(p) \cap below = {}}

\* Mutant: a subfolder that holds no files directly is passed over.
SplitKnown(job, ids) ==
  LET Child(k) == SubSeq(k, 1, Len(job.path) + 1)
      used == InOrder[{Child(k) : k \in job.keys} \cap DOMAIN ids]
  IN FileJobs({k \in job.keys : Child(k) = k})
     \o [i \in DOMAIN used |->
           FolderJob(used[i], ids[used[i]],
                     {k \in job.keys : Child(k) = used[i]})]
(* _split_folder_job.                                                      *)
SplitJobs(job, ids) ==
  LET used == InOrder[UNION {Pieces(job, k, ids) : k \in job.keys}]
  IN FileJobs({k \in job.keys : Pieces(job, k, ids) = {}})
     \o [i \in DOMAIN used |->
           FolderJob(used[i], ids[used[i]],
                     {k \in job.keys : used[i] \in Pieces(job, k, ids)})]

\* Mutant: whatever Drive answers with a 403 or 404 counts as gone.
IsDoneOrRefused(i) == outcome[i] \in {"done", "refused"}
IsDone(i) == outcome[i] = "done"

(* The first outcome not applied yet is, on the main thread; the manifest  *)
(* is saved when the last checkpoint is old enough.                        *)
Apply ==
  /\ pc = "trash" /\ applied < Len(pending)
  /\ outcome[applied + 1] # "queued"
  /\ applied' = applied + 1
  /\ LET i == applied + 1
         job == pending[i]
     IN \/ /\ IsDone(i)
           /\ mem' = mem \ job.keys
           /\ disk' \in {disk, mem'}
           /\ UNCHANGED <<retry, known, failed>>
        \/ /\ ~IsDone(i) /\ outcome[i] = "refused"
           /\ known' \in IF known = << >> THEN IdsOf(mem) ELSE {known}
           /\ retry' = retry \o SplitJobs(job, known')
           /\ failed' = failed \cup {k \in job.keys :
                                       /\ kind[k] = "unnamed"
                                       /\ Pieces(job, k, known') = {}}
           /\ UNCHANGED <<mem, disk>>
        \/ /\ ~IsDone(i) /\ outcome[i] = "error"
           /\ failed' = failed \cup job.keys
           /\ UNCHANGED <<mem, disk, retry, known>>
  /\ UNCHANGED <<world, trashed, pc, stage, targets, pending, outcome, left>>

(* All are: on to the jobs to retry, the next stage, the last checkpoint.  *)
Retry ==
  /\ pc = "trash" /\ applied = Len(pending) /\ retry # << >>
  /\ Submit(retry)
  /\ UNCHANGED <<world, trashed, mem, disk, pc, stage, targets, known, failed,
                 left>>

EndStage ==
  /\ pc = "trash" /\ applied = Len(pending) /\ retry = << >>
  /\ pc' = "group" /\ stage' = Tail(stage)
  /\ UNCHANGED <<world, trashed, mem, disk, work, failed, left>>

EndRun ==
  /\ pc = "group" /\ stage = << >>
  /\ pc' = "ended" /\ disk' = mem
  /\ UNCHANGED <<world, trashed, mem, stage, work, failed, left>>

(* A crash, Ctrl-C or failed checkpoint, or the end; the next run starts   *)
(* from the saved manifest.                                                *)
NextRun ==
  /\ Spend("stop")
  /\ mem' = disk
  /\ pc' = "group" /\ stage' = stages
  /\ targets' = {} /\ Submit(<< >>) /\ known' = << >>
  /\ failed' = {}
  /\ UNCHANGED <<world, trashed, disk>>

Step == Group \/ Apply \/ Retry \/ EndStage \/ EndRun
Next == Step \/ (\E i \in DOMAIN outcome : Call(i)) \/ NextRun

Spec == Init /\ [][Next]_vars
FairSpec ==
  /\ Spec
  /\ WF_vars(Step)
  /\ WF_vars(\E i \in DOMAIN outcome : Call(i))

----------------------------------------------------------------------------
Dirs == UNION {Above(k) : k \in Keys}
DriveFolders == {<<Folded(p), n>> : p \in Dirs, n \in Range(copy)}
Items == {Item(k) : k \in Keys} \cup DriveFolders

TypeOK ==
  /\ kind \in [Keys -> AllKinds]
  /\ trashed \subseteq Items
  /\ mem \subseteq disk /\ disk \subseteq Keys
  /\ pc \in {"group", "trash", "ended"}
  /\ targets \subseteq Keys
  /\ \A i \in DOMAIN pending :
       /\ pending[i].id \in Items
       /\ pending[i].keys # {} /\ pending[i].keys \subseteq Keys
  /\ outcome \in [DOMAIN pending -> {"queued", "done", "refused", "error"}]
  /\ applied \in 0..Len(pending)
  /\ failed \subseteq Keys
  /\ left \in [{"fault", "stop"} -> Nat]

(* Pruning never takes along what the backup keeps and no --prune ever     *)
(* marked: a Drive folder goes only if nothing of the kind is in it,       *)
(* whichever way its path is spelled, whatever failed or was split,        *)
(* crashed or repeated.  Of marked files it is not true: HistoryStays.     *)
KeptStays ==
  \A k \in Keys :
    (kind[k] \in {"kept", "protected"}
     \/ (kind[k] = "excluded" /\ "excluded" \notin Range(stages)))
    => IsLive(k)

\* A path under which Drive has two folders.
HasTwin(k) ==
  \E j \in Keys : copy[j] # copy[k]
                  /\ {f[1] : f \in Around(j)} \cap {f[1] : f \in Around(k)} # {}

(* A key leaves the manifest only with its copy: no live file is left on   *)
(* Drive that no manifest knows of.  (Of two folders of one path only the  *)
(* one recorded first is trashed.)                                         *)
DroppedIsTrashed ==
  \A k \in Keys :
    kind[k] # "untracked" /\ k \notin mem /\ ~HasTwin(k) => ~IsLive(k)

(* A run that has ended dealt with every target: it is out of the manifest *)
(* or counted as failed, and another app's items hold back nothing but the *)
(* folders they are in, so with no failed call nothing else is left.       *)
TargetsAreSettled ==
  pc = "ended" =>
    /\ \A k \in mem : k \in UNION {Targets(s) : s \in Range(stages)}
                      => k \in failed
    /\ left.fault = FaultMax => \A k \in failed : kind[k] = "unnamed"

(* Pruning ends: the rounds of splitting and retrying do too.              *)
PruneEnds == <>[](pc = "ended")

(* README.md:45 and 71: prune_protected_paths are left on Drive, and so    *)
(* are files of the machine that the backup wants but cannot read or that  *)
(* grew too large, whether an earlier --prune marked them or not.          *)
HistoryStays ==
  \A k \in Keys : kind[k] \in {"protected", "shielded", "kept", "returned"} => IsLive(k)
=============================================================================
