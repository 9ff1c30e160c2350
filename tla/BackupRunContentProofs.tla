----------------------- MODULE BackupRunContentProofs -----------------------
(***************************************************************************)
(* Theorems about what the manifests of BackupRun say of Drive: a save     *)
(* forgets no live copy, a skipped file is backed up, a run that exits 0   *)
(* has backed up every file, and leaves no live copy untracked.            *)
(***************************************************************************)
EXTENDS BackupRunProofs

USE FilesAssumption, ContentsAssumption, RunAssumption, MarkerAssumption

\* Every run keeps each secret in the same form, encrypted or not.
FixedEncryption == \A f \in Secrets, o, p \in Options : o.encrypt = p.encrypt
NoFullRuns == \A o \in Options : ~o.full

\* Entries and jobs have the form their file is kept in.
InForm(m) == \A f \in Files : m[f] # NoEntry => m[f].encrypted = Encrypted(f)
ManifestsInForm ==
    /\ InForm(mem)
    /\ disk # Missing => InForm(disk)
    /\ snapshot # Missing => InForm(snapshot)
JobsInForm == \A f \in Files : job[f].st # "none" => job[f].encrypted = Encrypted(f)
FormInv == ManifestsInForm /\ JobsInForm

\* While a run lasts, what the file on disk says of a live copy is in memory too.
KnownLive(m, f) == m[f] # NoEntry /\ drive[m[f].id].state = "live"
DiskRemembered ==
    pc # "idle" /\ disk # Missing =>
        \A f \in Files : KnownLive(disk, f) => mem[f] # NoEntry /\ mem[f].id = disk[f].id

\* A job whose file has a live copy works on that copy and looks for no other.
Ended == {"none", "failed", "vanished"}
Anew == {"find", "overwrite", "create", "reconcile"}
JobsKeepLive ==
    \A f \in Files : KnownLive(mem, f) /\ job[f].st \notin Ended =>
        job[f].id = mem[f].id /\ job[f].st \notin Anew

\* Prune counts a copy as trashed when it is.
PrunedIsGone == \A f \in Files : job[f].st = "pruned" => drive[job[f].id].state # "live"

KeepInv == FormInv /\ DiskRemembered /\ JobsKeepLive /\ PrunedIsGone

-----------------------------------------------------------------------------
(* What a step does to the manifests, to a job and to the live copies.     *)

\* A manifest is taken over whole, or a result is applied, or entries are marked
\* or dropped.
Reloads == FetchSnapshot \/ Crash \/ \E o \in Options : Start(o)
TakenOver ==
    /\ mem' \in {mem, disk, snapshot, EmptyManifest} /\ mem' # Missing
    /\ mem' = mem \/ Reloads
    /\ disk' \in {mem, disk, snapshot, Missing}
    /\ disk' \in {disk, Missing} \/ (disk' = mem' /\ pc # "idle")
    /\ snapshot' \in {snapshot, disk}
Marked ==
    /\ UNCHANGED <<disk, snapshot>>
    /\ \A f \in Files : \/ mem'[f] = mem[f]
                        \/ mem'[f] = NoEntry /\ job[f].st = "pruned"
                        \/ /\ mem[f] # NoEntry /\ ~Present(f)
                           /\ mem'[f] = [mem[f] EXCEPT !.pruned = TRUE]

LEMMA ManifestSteps ==
    ASSUME TypeOK, [Next]_vars
    PROVE  \/ TakenOver
           \/ Marked
           \/ /\ UNCHANGED <<disk, snapshot>>
              /\ \E f \in Files : /\ ApplyResult(f)
                                  /\ HandlerApply(f) \/ (CompleteUpload /\ taken = f)
<1>0. mem # Missing /\ EmptyManifest # Missing /\ mem \in Manifest
  BY EmptyType DEF TypeOK
<1>1. ASSUME UNCHANGED <<mem, disk, snapshot>> PROVE TakenOver
  <2>1. mem' = mem /\ disk' = disk /\ snapshot' = snapshot
    BY <1>1
  <2> QED BY <1>0, <2>1, Zenon DEF TakenOver
<1>2. CASE MainStep
  <2> USE DEF env, main, pool
  <2>1. CASE CompleteUpload
    BY <2>1 DEF CompleteUpload, TypeOK
  <2>2. ASSUME NEW f \in Files, HandlerApply(f)
        PROVE  UNCHANGED <<disk, snapshot>> /\ ApplyResult(f)
    BY <2>2 DEF HandlerApply
  <2>3. CASE FlagStale
    BY <2>3 DEF FlagStale, StaleEntries, Marked
  <2>4. ASSUME NEW f \in Files, ApplyTrash(f) PROVE Marked
    BY <1>0, <2>4 DEF ApplyTrash, Manifest, Marked
  <2>5. CASE FetchSnapshot \/ Checkpoint \/ FinalCheckpoint \/ UploadSnapshot \/ HandlerCheckpoint
    BY <1>0, <2>5
    DEF Reloads, FetchSnapshot, Checkpoint, FinalCheckpoint, UploadSnapshot, HandlerCheckpoint, TakenOver
  <2>6. ASSUME NEW f \in Files, ScanFile(f) \/ ScanError(f) \/ TakeResult(f)
        PROVE  TakenOver
    BY <1>1, <2>6 DEF ScanFile, ScanError, TakeResult
  <2>7. CASE \/ SkipFetch \/ PrepareSkip \/ PrepareUpload \/ RecordFuture \/ EndSkip \/ EndDrain
             \/ EndScan \/ EndSettle \/ SaveFails \/ SkipPrune \/ TrashStale \/ EndTrash
             \/ CancelQueued \/ Shutdown
    BY <1>1, <2>7
    DEF SkipFetch, PrepareSkip, PrepareUpload, RecordFuture, EndSkip, EndDrain, EndScan, EndSettle,
        SaveFails, SkipPrune, TrashStale, EndTrash, CancelQueued, Shutdown
  <2> QED BY <1>2, <2>1, <2>2, <2>3, <2>4, <2>5, <2>6, <2>7 DEF MainStep
<1>3. ASSUME NEW f \in Files, WorkerStep(f) PROVE TakenOver
  BY <1>1, <1>3
  DEF WorkerStep, StartJob, EncryptFile, UpdateKnown, FindByName, OverwriteFound, CreateFile,
      DigestPlaintext, TrashReplaced, Reconcile, CallFails, AnswerLost, CreateAgain, TrashCall, env,
      main
<1>4. CASE Environment
  <2>1. CASE \E o \in Options : Start(o)
    <3>1. mem' \in {disk, EmptyManifest} /\ mem' # Missing /\ UNCHANGED <<disk, snapshot>>
      BY <1>0, <2>1 DEF Start, env
    <3>2. Reloads
      BY <2>1 DEF Reloads
    <3> QED BY <3>1, <3>2 DEF TakenOver
  <2>2. CASE Crash
    <3>1. mem' = EmptyManifest /\ UNCHANGED <<disk, snapshot>>
      BY <2>2 DEF Crash, env
    <3>2. Reloads
      BY <2>2 DEF Reloads
    <3> QED BY <1>0, <3>1, <3>2 DEF TakenOver
  <2>3. CASE LoseManifest
    <3>1. mem' = mem /\ disk' = Missing /\ snapshot' = snapshot
      BY <2>3 DEF LoseManifest, main
    <3> QED BY <1>0, <3>1 DEF TakenOver
  <2>4. CASE Interrupt \/ (\E f \in Files : Write(f)) \/ (\E i \in DOMAIN drive : Purge(i))
    BY <1>1, <2>4 DEF Interrupt, Write, Purge, env, main
  <2> QED BY <1>4, <2>1, <2>2, <2>3, <2>4 DEF Environment
<1>5. CASE UNCHANGED vars
  BY <1>1, <1>5 DEF vars, env, main
<1> QED BY <1>2, <1>3, <1>4, <1>5 DEF Next

\* The entry a finished upload leaves in the manifest.
Recorded(f) ==
    /\ mem'[f] \in Entry /\ ~mem'[f].pruned
    /\ mem'[f].id = job[f].id /\ mem'[f].encrypted = job[f].encrypted
    /\ mem'[f].size = job[f].size /\ mem'[f].mtime = job[f].mtime
    /\ mem'[f].md5 = IF job[f].data = Absent THEN local[f].content ELSE job[f].data

LEMMA Applied ==
    ASSUME Before, NEW f \in Files, ApplyResult(f)
    PROVE  /\ \A g \in Files : g # f => mem'[g] = mem[g] /\ job'[g] = job[g]
           /\ job'[f] = NoJob
           /\ IF job[f].st \in {"done", "leftover"} THEN Recorded(f) ELSE mem' = mem
<1> DEFINE md5 == IF job[f].data = Absent THEN local[f].content ELSE job[f].data
           entry == [md5 |-> md5, size |-> job[f].size, mtime |-> job[f].mtime, id |-> job[f].id,
                     encrypted |-> job[f].encrypted, pruned |-> FALSE]
<1>1. job[f] \in Job /\ local[f].content \in Digests /\ mem \in Manifest /\ job \in [Files -> Job]
  BY DEF Before, TypeOK
<1>2. job' = [job EXCEPT ![f] = NoJob]
  BY DEF ApplyResult
<1>3. CASE job[f].st \in {"done", "leftover"}
  <2>1. mem' = [mem EXCEPT ![f] = entry]
    BY <1>3 DEF ApplyResult
  <2>2. entry \in Entry
    BY <1>1, <1>3, IdFact DEF Entry, NeedId, Job
  <2>3. /\ entry.id = job[f].id /\ entry.encrypted = job[f].encrypted /\ entry.md5 = md5
        /\ entry.size = job[f].size /\ entry.mtime = job[f].mtime /\ ~entry.pruned
    OBVIOUS
  <2> HIDE DEF entry
  <2>4. mem'[f] = entry /\ \A g \in Files : g # f => mem'[g] = mem[g]
    BY <1>1, <2>1 DEF Manifest
  <2> QED BY <1>1, <1>2, <1>3, <2>2, <2>3, <2>4 DEF Recorded
<1>4. CASE job[f].st \notin {"done", "leftover"}
  <2>1. mem' = mem
    BY <1>4, Zenon DEF ApplyResult
  <2> QED BY <1>1, <1>2, <1>4, <2>1
<1> QED BY <1>3, <1>4

\* The main thread and the environment leave a job alone, drop it, submit one or,
\* in the prune phase, hand out the trash calls.
LEMMA JobSteps ==
    ASSUME TypeOK, CurIsFile, MainStep \/ Environment \/ UNCHANGED vars, NEW f \in Files
    PROVE  \/ job'[f] = job[f]
           \/ job'[f] = NoJob
           \/ PrepareUpload /\ f = cur.file /\ job'[f] = Work(f)
           \/ /\ TrashStale /\ f \in StaleEntries
              /\ job'[f] = [NoJob EXCEPT !.st = "prune", !.id = mem[f].id,
                                         !.encrypted = mem[f].encrypted]
<1>0. job \in [Files -> Job]
  BY DEF TypeOK
<1>1. CASE PrepareUpload
  <2>1. cur.file \in Files /\ job' = [job EXCEPT ![cur.file] = Work(cur.file)]
    BY <1>1 DEF PrepareUpload, CurIsFile
  <2> QED BY <1>0, <1>1, <2>1
<1>2. CASE TrashStale
  BY <1>2 DEF TrashStale
<1>3. CASE MainStep /\ ~PrepareUpload /\ ~TrashStale
  BY <1>0, <1>3
  DEF MainStep, FetchSnapshot, SkipFetch, ScanFile, ScanError, PrepareSkip, RecordFuture,
      EndSkip, EndDrain, EndScan, EndSettle, TakeResult, CompleteUpload, ApplyResult,
      Checkpoint, SaveFails, SkipPrune, FlagStale, EndTrash, ApplyTrash, FinalCheckpoint,
      UploadSnapshot, CancelQueued, HandlerCheckpoint, HandlerApply, Shutdown, pool
<1>4. CASE Environment \/ UNCHANGED vars
  BY <1>4
  DEF Environment, Start, Interrupt, Crash, LoseManifest, Write, Purge, pool, vars
<1> QED BY <1>1, <1>2, <1>3, <1>4


\* No step brings a copy back to life.
LiveShrinks ==
    \A i \in DOMAIN drive : i \in DOMAIN drive' /\ (drive'[i].state = "live" => drive[i].state = "live")

\* A worker keeps the form of its job, and turns from the id it was given only when
\* there was none, or its copy has gone.
Turned(f) == job[f].id = 0 \/ drive[job[f].id].state # "live" \/ job[f].st \in Anew
JobWorked(f) ==
    /\ job[f].st \notin Ended /\ job'[f].encrypted = job[f].encrypted
    /\ ~Turned(f) => job'[f].id = job[f].id /\ job'[f].st \notin Anew
    /\ job'[f].st = "pruned" => drive'[job'[f].id].state # "live"

LEMMA TrashedGone ==
    ASSUME drive \in Seq(DriveFile), NEW id \in DOMAIN drive
    PROVE  Trashed(id)[id].state # "live"
<1> DEFINE new == [drive[id] EXCEPT !.state = "trashed"]
<1>1. drive[id] \in DriveFile /\ id \in 1 .. Len(drive)
  BY ElementOfSeq, LenProperties
<1>2. new.state = "trashed"
  BY <1>1 DEF DriveFile
<1>3. CASE drive[id].state # "live"
  BY <1>3 DEF Trashed
<1>4. CASE drive[id].state = "live"
  <2>1. Trashed(id) = [drive EXCEPT ![id] = new]
    BY <1>4 DEF Trashed
  <2> HIDE DEF new
  <2> QED BY <1>2, <2>1
<1> QED BY <1>3, <1>4

LEMMA WorkerShrinks ==
    ASSUME Before, NEW f \in Files, WorkerStep(f)
    PROVE  LiveShrinks
<1> USE DEF LiveShrinks
<1>0. TypeOK /\ drive \in Seq(DriveFile) /\ job \in [Files -> Job]
  BY DEF Before, TypeOK
<1>1. CASE UNCHANGED drive
  BY <1>1
<1>2. ASSUME NEW id \in DOMAIN drive, Readable(f), drive' = Overwritten(id, Payload(f))
      PROVE  LiveShrinks
  BY <1>0, <1>2, PayloadFact, OverwrittenFact
<1>3. CASE Readable(f) /\ drive' = Created(f, Payload(f))
  <2> DEFINE new == Created(f, Payload(f))
  <2>1. Payload(f) \in Contents
    BY <1>0, <1>3, PayloadFact
  <2>2. /\ DOMAIN new = DOMAIN drive \cup {Len(drive) + 1}
        /\ \A i \in DOMAIN drive : new[i] = drive[i]
    BY <1>0, <2>1, CreatedFact
  <2>3. drive' = new
    BY <1>3
  <2> HIDE DEF new
  <2> QED BY <2>2, <2>3
<1>4. ASSUME NEW id \in DOMAIN drive, drive' = Trashed(id)
      PROVE  LiveShrinks
  BY <1>0, <1>4, TrashedFact
<1>5. /\ job[f].st \in {"update", "overwrite", "prune"} => job[f].id \in DOMAIN drive
      /\ job[f].st = "trash" => job[f].replaced \in DOMAIN drive
  BY IdFact DEF NeedId, Pruning
<1>6. CASE StartJob(f) \/ EncryptFile(f) \/ FindByName(f) \/ DigestPlaintext(f) \/ CallFails(f)
           \/ Reconcile(f)
  BY <1>1, <1>6 DEF StartJob, EncryptFile, FindByName, DigestPlaintext, CallFails, Reconcile, env
<1>7. CASE UpdateKnown(f) \/ OverwriteFound(f)
  BY <1>1, <1>2, <1>5, <1>7 DEF UpdateKnown, OverwriteFound
<1>8. CASE CreateFile(f) \/ CreateAgain(f)
  BY <1>1, <1>3, <1>8 DEF CreateFile, CreateAgain
<1>9. CASE TrashReplaced(f) \/ TrashCall(f)
  BY <1>1, <1>4, <1>5, <1>9 DEF TrashReplaced, TrashCall
<1>10. CASE AnswerLost(f)
  BY <1>2, <1>3, <1>4, <1>5, <1>10 DEF AnswerLost
<1> QED BY <1>6, <1>7, <1>8, <1>9, <1>10 DEF WorkerStep

LEMMA ShrinksNext == ASSUME Before, [Next]_vars PROVE LiveShrinks
<1>1. UNCHANGED drive => LiveShrinks
  BY DEF LiveShrinks
<1>2. ASSUME NEW i \in DOMAIN drive, Purge(i) PROVE LiveShrinks
  <2>1. drive[i] \in DriveFile /\ DOMAIN drive' = DOMAIN drive
    BY <1>2, ElementOfSeq, LenProperties DEF Purge, Before, TypeOK
  <2>2. \A k \in DOMAIN drive : drive'[k] = drive[k] \/ drive'[k].state = "purged"
    BY <1>2, <2>1 DEF Purge, DriveFile
  <2> QED BY <2>1, <2>2 DEF LiveShrinks
<1> QED BY <1>1, <1>2, WorkerShrinks, OthersKeepDrive DEF Next, Environment, Before

LEMMA WorkerJob ==
    ASSUME Before, NEW f \in Files, WorkerStep(f)
    PROVE  JobWorked(f) /\ \A g \in Files : g # f => job'[g] = job[g]
<1>0. /\ TypeOK /\ drive \in Seq(DriveFile) /\ job \in [Files -> Job] /\ job[f] \in Job
      /\ job[f].st \in JobStates
  BY DEF Before, TypeOK, Job
<1>1. \A g \in Files : g # f => job'[g] = job[g]
  BY <1>0
  DEF WorkerStep, StartJob, EncryptFile, UpdateKnown, FindByName, OverwriteFound, CreateFile,
      DigestPlaintext, TrashReplaced, Reconcile, CallFails, AnswerLost, CreateAgain, TrashCall,
      Goto, pool
<1>2. job[f].st \notin Ended
  BY DEF WorkerStep, StartJob, EncryptFile, UpdateKnown, FindByName, OverwriteFound, CreateFile,
      DigestPlaintext, TrashReplaced, Reconcile, CallFails, AnswerLost, CreateAgain, TrashCall,
      Running, Ended
<1> SUFFICES JobWorked(f)
  BY <1>1
<1>a. ASSUME NEW st, Goto(f, st)
      PROVE  job'[f].st = st /\ job'[f].encrypted = job[f].encrypted /\ job'[f].id = job[f].id
  BY <1>0, <1>a DEF Goto, Job
<1>b. ASSUME NEW st, Goto(f, st), st # "pruned", st \notin Anew \/ Turned(f) PROVE JobWorked(f)
  BY <1>2, <1>a, <1>b DEF JobWorked
<1>c. ASSUME NEW st \in GiveUp(job[f].st), Goto(f, st) PROVE JobWorked(f)
  <2>1. st # "pruned" /\ (st \in Anew => job[f].st \in Anew)
    BY DEF GiveUp, Anew
  <2> QED BY <1>b, <1>c, <2>1 DEF Turned
<1>d. ASSUME job' = [job EXCEPT ![f] = PutDone(f, job[f].id, Payload(f))], job[f].id \in Ids, Readable(f)
      PROVE  JobWorked(f)
  <2> DEFINE c == Payload(f)
             id == job[f].id
  <2>1. c \in Contents /\ job'[f] = PutDone(f, id, c)
    BY <1>0, <1>d, PayloadFact
  <2> HIDE DEF c, id
  <2>2. /\ PutDone(f, id, c).id = id /\ PutDone(f, id, c).encrypted = job[f].encrypted
        /\ PutDone(f, id, c).st \in {"digest", "trash", "done"}
    BY <1>0, <1>d, <2>1, PutDoneFact DEF id
  <2> QED BY <1>2, <2>1, <2>2 DEF JobWorked, Anew, id
<1>e. /\ job[f].st \in {"update", "overwrite"} \cup Pruning
             => job[f].id \in Ids /\ job[f].id \in DOMAIN drive
  BY IdFact DEF NeedId
<1>3. CASE StartJob(f)
  BY <1>b, <1>3 DEF StartJob, Anew, Turned
<1>4. CASE EncryptFile(f)
  <2>1. CASE Present(f)
    <3>1. PICK st \in {"update", "find"} :
                /\ job' = [job EXCEPT ![f].data = local[f].content, ![f].st = st]
                /\ st = "find" => job[f].id = 0
      BY <1>4, <2>1 DEF EncryptFile
    <3>2. job'[f] = [job[f] EXCEPT !.data = local[f].content, !.st = st]
      BY <1>0, <3>1
    <3>3. job'[f].st = st /\ job'[f].id = job[f].id /\ job'[f].encrypted = job[f].encrypted
      BY <1>0, <3>2 DEF Job
    <3> QED BY <1>2, <3>1, <3>3 DEF JobWorked, Turned, Anew
  <2> QED BY <1>4, <1>b, <2>1 DEF EncryptFile, Anew
<1>5. CASE UpdateKnown(f)
  <2>1. CASE drive[job[f].id].state = "purged" /\ job' = [job EXCEPT ![f].st = "find", ![f].id = 0]
    <3>1. job'[f] = [job[f] EXCEPT !.st = "find", !.id = 0]
      BY <1>0, <2>1
    <3>2. job'[f].st = "find" /\ job'[f].encrypted = job[f].encrypted
      BY <1>0, <3>1 DEF Job
    <3> QED BY <1>2, <2>1, <3>2 DEF JobWorked, Turned
  <2> QED BY <1>b, <1>d, <1>e, <1>5, <2>1 DEF UpdateKnown, Anew
<1>6. CASE FindByName(f) \/ Reconcile(f)
  <2>1. ASSUME NEW i, job' = [job EXCEPT ![f].st = "overwrite", ![f].id = i] PROVE JobWorked(f)
    <3>1. job'[f] = [job[f] EXCEPT !.st = "overwrite", !.id = i]
      BY <1>0, <2>1
    <3>2. job'[f].st = "overwrite" /\ job'[f].encrypted = job[f].encrypted
      BY <1>0, <3>1 DEF Job
    <3> QED BY <1>2, <1>6, <3>2 DEF JobWorked, Turned, Anew, FindByName, Reconcile
  <2> QED BY <1>b, <1>6, <2>1 DEF FindByName, Reconcile, Turned, Anew
<1>7. CASE OverwriteFound(f)
  BY <1>b, <1>d, <1>e, <1>7 DEF OverwriteFound, Anew
<1>8. CASE CreateFile(f)
  <2>1. CASE Readable(f) /\ job' = [job EXCEPT ![f] = PutDone(f, Len(drive) + 1, Payload(f))]
    <3> DEFINE c == Payload(f)
               id == Len(drive) + 1
    <3>1. c \in Contents /\ id \in Ids /\ job'[f] = PutDone(f, id, c)
      BY <1>0, <2>1, PayloadFact, LenProperties DEF Ids
    <3> HIDE DEF c, id
    <3>2. /\ PutDone(f, id, c).encrypted = job[f].encrypted
          /\ PutDone(f, id, c).st \in {"digest", "trash", "done"}
      BY <1>0, <3>1, PutDoneFact
    <3> QED BY <1>2, <1>8, <3>1, <3>2 DEF JobWorked, Turned, Anew, CreateFile
  <2> QED BY <1>b, <1>8, <2>1 DEF CreateFile, Anew
<1>9. CASE DigestPlaintext(f)
  <2>1. PICK st \in {"trash", "done"} :
            job' = [job EXCEPT ![f].data = local[f].content, ![f].st = st]
    BY <1>9 DEF DigestPlaintext
  <2>2. job'[f] = [job[f] EXCEPT !.data = local[f].content, !.st = st]
    BY <1>0, <2>1
  <2>3. job'[f].st = st /\ job'[f].id = job[f].id /\ job'[f].encrypted = job[f].encrypted
    BY <1>0, <2>2 DEF Job
  <2> QED BY <1>2, <2>3 DEF JobWorked, Anew
<1>10. CASE TrashReplaced(f)
  BY <1>b, <1>10 DEF TrashReplaced, Anew
<1>11. CASE CallFails(f) \/ AnswerLost(f)
  BY <1>c, <1>11 DEF CallFails, AnswerLost
<1>12. CASE CreateAgain(f)
  BY <1>2, <1>12 DEF CreateAgain, pool, JobWorked, Turned, Anew
<1>13. CASE TrashCall(f)
  <2>1. CASE Goto(f, "pruned") /\ drive' = Trashed(job[f].id)
    <3>1. drive'[job[f].id].state # "live"
      BY <1>0, <1>e, <1>13, <2>1, TrashedGone DEF TrashCall, Pruning
    <3> QED BY <1>2, <1>a, <2>1, <3>1 DEF JobWorked, Anew
  <2> QED BY <1>b, <1>13, <2>1 DEF TrashCall, Anew
<1> QED BY <1>3, <1>4, <1>5, <1>6, <1>7, <1>8, <1>9, <1>10, <1>11, <1>12, <1>13 DEF WorkerStep

-----------------------------------------------------------------------------
(* Every entry and job has the form its file is kept in.                   *)

LEMMA FormFixed ==
    ASSUME TypeOK, FixedEncryption, [Next]_vars, NEW f \in Files
    PROVE  Encrypted(f)' = Encrypted(f)
<1>1. options \in Options /\ options' \in Options
  <2>1. TypeOK => options \in Options
    BY DEF TypeOK
  <2>2. options' = options \/ \E o \in Options : Start(o)
    BY DEF Next, MainStep, Environment, WorkerStep,
        FetchSnapshot, SkipFetch, ScanFile, ScanError, PrepareSkip, PrepareUpload, RecordFuture,
        EndSkip, EndDrain, EndScan, EndSettle, TakeResult, CompleteUpload, Checkpoint, SaveFails,
        SkipPrune, FlagStale, TrashStale, EndTrash, ApplyTrash, FinalCheckpoint, UploadSnapshot,
        CancelQueued, HandlerCheckpoint, HandlerApply, Shutdown, Interrupt, Crash, LoseManifest,
        Write, Purge, StartJob, EncryptFile, UpdateKnown, FindByName, OverwriteFound, CreateFile,
        DigestPlaintext, TrashReplaced, Reconcile, CallFails, AnswerLost, CreateAgain, TrashCall,
        vars, main
  <2> QED BY <2>1, <2>2 DEF Start
<1> QED BY <1>1 DEF Encrypted, FixedEncryption

LEMMA FormNext ==
    ASSUME Before, FixedEncryption, FormInv, [Next]_vars
    PROVE  FormInv'
<1>0. TypeOK /\ CurIsFile /\ mem \in Manifest /\ job \in [Files -> Job]
  BY DEF Before, TypeOK
<1>1. \A f \in Files : Encrypted(f)' = Encrypted(f)
  BY <1>0, FormFixed
<1> DEFINE After(m) == \A f \in Files : m[f] # NoEntry => m[f].encrypted = Encrypted(f)
<1>2. ASSUME After(mem'), disk' # Missing => After(disk'), snapshot' # Missing => After(snapshot')
      PROVE  ManifestsInForm'
  BY <1>1, <1>2 DEF ManifestsInForm, InForm
<1>3. /\ After(mem) /\ After(EmptyManifest)
      /\ disk # Missing => After(disk)
      /\ snapshot # Missing => After(snapshot)
  BY DEF FormInv, ManifestsInForm, InForm, EmptyManifest
<1>4. ManifestsInForm'
  <2>1. CASE TakenOver
    <3>1. /\ After(mem')
          /\ disk' # Missing => After(disk')
          /\ snapshot' # Missing => After(snapshot')
      BY <1>3, <2>1 DEF TakenOver
    <3> QED BY <1>2, <3>1
  <2>2. CASE Marked
    <3>1. \A f \in Files : mem[f] # NoEntry => mem[f] \in Entry
      BY <1>0 DEF Manifest
    <3>2. \A f \in Files : mem'[f] # NoEntry =>
              mem[f] # NoEntry /\ mem'[f].encrypted = mem[f].encrypted
      BY <2>2, <3>1 DEF Marked, Entry
    <3>3. After(mem')
      BY <1>3, <3>2
    <3> QED BY <1>2, <1>3, <2>2, <3>3 DEF Marked
  <2>3. ASSUME UNCHANGED <<disk, snapshot>>, NEW f \in Files, ApplyResult(f)
        PROVE  ManifestsInForm'
    <3>1. \A g \in Files : g # f => mem'[g] = mem[g]
      BY <2>3, Applied
    <3>2. mem'[f] = mem[f] \/ (job[f].st # "none" /\ mem'[f].encrypted = job[f].encrypted)
      <4>1. CASE job[f].st \in {"done", "leftover"}
        BY <2>3, <4>1, Applied DEF Recorded
      <4>2. CASE job[f].st \notin {"done", "leftover"}
        BY <2>3, <4>2, Applied
      <4> QED BY <4>1, <4>2
    <3>3. After(mem')
      BY <1>3, <3>1, <3>2 DEF FormInv, JobsInForm
    <3> QED BY <1>2, <1>3, <2>3, <3>3
  <2> QED BY <1>0, <2>1, <2>2, <2>3, ManifestSteps
<1>5. JobsInForm'
  <2> SUFFICES ASSUME NEW f \in Files, job'[f].st # "none"
               PROVE  job'[f].encrypted = Encrypted(f)
    BY <1>1 DEF JobsInForm
  <2>0. job[f].st # "none" => job[f].encrypted = Encrypted(f)
    BY DEF FormInv, JobsInForm
  <2>1. CASE job'[f] = job[f]
    BY <2>0, <2>1
  <2>2. CASE job'[f] = NoJob
    BY <2>2 DEF NoJob
  <2>3. CASE job'[f] = Work(f)
    BY <2>3 DEF Work
  <2>4. CASE /\ f \in StaleEntries
             /\ job'[f] = [NoJob EXCEPT !.st = "prune", !.id = mem[f].id,
                                        !.encrypted = mem[f].encrypted]
    BY <1>3, <2>4 DEF NoJob, StaleEntries
  <2>5. ASSUME NEW g \in Files, WorkerStep(g) PROVE job'[f].encrypted = Encrypted(f)
    BY <2>0, <2>1, <2>5, WorkerJob DEF JobWorked, Ended
  <2> QED BY <1>0, <2>1, <2>2, <2>3, <2>4, <2>5, JobSteps DEF Next
<1> QED BY <1>4, <1>5 DEF FormInv

-----------------------------------------------------------------------------
(* What is live is remembered, and kept by the jobs.                       *)

\* The id of an entry and of a job exists.
LEMMA KnownIds ==
    ASSUME IInv
    PROVE  /\ \A f \in Files : mem[f] # NoEntry => mem[f] \in Entry /\ mem[f].id \in DOMAIN drive
           /\ disk # Missing =>
                \A f \in Files : disk[f] # NoEntry => disk[f].id \in DOMAIN drive
           /\ \A f \in Files : job[f].st \in NeedId => job[f].id \in DOMAIN drive
<1>1. Before
  BY DEF IInv, Before
<1>2. mem \in Manifest
  BY DEF IInv, TypeOK
<1> QED BY <1>1, <1>2, IdFact DEF IInv, ManifestTracksOwnFile, OwnCopies, Tracks, Manifest

LEMMA PrunedNext ==
    ASSUME IInv, PrunedIsGone, [Next]_vars PROVE PrunedIsGone'
<1> SUFFICES ASSUME NEW f \in Files, job'[f].st = "pruned" PROVE drive'[job'[f].id].state # "live"
  BY DEF PrunedIsGone
<1>0. Before /\ TypeOK /\ CurIsFile
  BY DEF IInv, Before
<1>1. CASE job'[f] = job[f]
  <2>1. job[f].id \in DOMAIN drive /\ drive[job[f].id].state # "live"
    BY <1>1, KnownIds DEF PrunedIsGone, NeedId, Pruning
  <2> QED BY <1>0, <1>1, <2>1, ShrinksNext DEF LiveShrinks
<1>2. CASE job'[f].st \in {"none", "queued", "prune"}
  BY <1>2
<1>3. ASSUME NEW g \in Files, WorkerStep(g) PROVE drive'[job'[f].id].state # "live"
  BY <1>0, <1>1, <1>3, WorkerJob DEF JobWorked
<1>4. CASE MainStep \/ Environment \/ UNCHANGED vars
  <2>1. job'[f] = job[f] \/ job'[f].st \in {"none", "queued", "prune"}
    <3>1. NoJob.st = "none" /\ Work(f).st = "queued"
      BY DEF NoJob, Work
    <3>2. [NoJob EXCEPT !.st = "prune", !.id = mem[f].id, !.encrypted = mem[f].encrypted].st = "prune"
      BY DEF NoJob
    <3> QED BY <1>0, <1>4, <3>1, <3>2, JobSteps
  <2> QED BY <1>1, <1>2, <2>1
<1> QED BY <1>3, <1>4 DEF Next

\* An entry of a live copy was there before, of the same copy, unless its file has no
\* job.
LEMMA EntryStays ==
    ASSUME IInv, NothingLeft, [Next]_vars, NEW f \in Files, KnownLive(mem, f)',
           job'[f].st # "none"
    PROVE  KnownLive(mem, f) /\ mem'[f].id = mem[f].id
<1>0. Before /\ TypeOK /\ CurIsFile /\ mem \in Manifest /\ job \in [Files -> Job]
  BY DEF IInv, Before, TypeOK
<1>1. CASE mem'[f] = mem[f]
  BY <1>0, <1>1, KnownIds, ShrinksNext DEF KnownLive, LiveShrinks
<1>2. CASE Marked
  <2>1. mem[f] # NoEntry /\ mem'[f].id = mem[f].id
    BY <1>2, KnownIds DEF Marked, KnownLive, Entry
  <2> QED BY <1>0, <2>1, KnownIds, ShrinksNext DEF KnownLive, LiveShrinks
<1>3. ASSUME NEW g \in Files, ApplyResult(g) PROVE mem'[f] = mem[f]
  <2>1. job' = [job EXCEPT ![g] = NoJob]
    BY <1>3 DEF ApplyResult
  <2>2. f # g
    BY <1>0, <2>1 DEF NoJob
  <2> QED BY <1>0, <1>3, <2>2 DEF ApplyResult, Manifest
<1>4. CASE TakenOver
  <2>1. CASE FetchSnapshot \/ \E o \in Options : Start(o)
    <3>1. pc \in {"idle", "load"} /\ UNCHANGED job
      BY <2>1 DEF Start, FetchSnapshot, pool
    <3> QED BY <3>1 DEF NothingLeft, Submitted
  <2>2. CASE Crash
    BY <2>2 DEF Crash, NoJob
  <2> QED BY <1>1, <1>4, <2>1, <2>2 DEF TakenOver, Reloads
<1> QED BY <1>0, <1>1, <1>2, <1>3, <1>4, ManifestSteps

LEMMA JobsKeepNext ==
    ASSUME IInv, KeepInv, NothingLeft, [Next]_vars PROVE JobsKeepLive'
<1> SUFFICES ASSUME NEW f \in Files, KnownLive(mem, f)', job'[f].st \notin Ended
             PROVE  job'[f].id = mem'[f].id /\ job'[f].st \notin Anew
  BY DEF JobsKeepLive
<1>0. Before /\ TypeOK /\ CurIsFile
  BY DEF IInv, Before
<1>1. KnownLive(mem, f) /\ mem'[f].id = mem[f].id
  BY EntryStays DEF Ended
<1>2. mem[f].id # 0
  BY <1>1, KnownIds DEF KnownLive, Entry, Ids
<1>3. CASE job'[f] = job[f]
  BY <1>1, <1>3 DEF KeepInv, JobsKeepLive
<1>4. ASSUME NEW g \in Files, WorkerStep(g)
      PROVE  job'[f].id = mem'[f].id /\ job'[f].st \notin Anew
  <2>1. CASE g = f
    <3>1. JobWorked(f)
      BY <1>0, <1>4, <2>1, WorkerJob
    <3>2. job[f].id = mem[f].id /\ job[f].st \notin Anew
      BY <1>1, <3>1 DEF JobWorked, KeepInv, JobsKeepLive
    <3> QED BY <1>1, <1>2, <3>1, <3>2 DEF JobWorked, Turned, KnownLive
  <2> QED BY <1>0, <1>3, <1>4, <2>1, WorkerJob
<1>5. CASE MainStep \/ Environment \/ UNCHANGED vars
  <2>0. NoJob.st = "none"
    BY DEF NoJob
  <2>1. CASE PrepareUpload /\ job'[f] = Work(f)
    <3>1. mem[f].encrypted = Encrypted(f)
      BY <1>1 DEF KnownLive, KeepInv, FormInv, ManifestsInForm, InForm
    <3> QED BY <1>1, <2>1, <3>1 DEF Work, KnownLive, Anew
  <2>2. CASE job'[f] = [NoJob EXCEPT !.st = "prune", !.id = mem[f].id,
                                     !.encrypted = mem[f].encrypted]
    BY <1>1, <2>2 DEF NoJob, Anew
  <2> QED BY <1>0, <1>3, <1>5, <2>0, <2>1, <2>2, JobSteps DEF Ended
<1> QED BY <1>4, <1>5 DEF Next

\* Only a start leaves the idle phase.
LEMMA IdleStart ==
    ASSUME [Next]_vars, pc = "idle", pc' # "idle" PROVE \E o \in Options : Start(o)
BY DEF Next, MainStep, Environment, WorkerStep,
    FetchSnapshot, SkipFetch, ScanFile, ScanError, PrepareSkip, PrepareUpload, RecordFuture,
    EndSkip, EndDrain, EndScan, EndSettle, TakeResult, CompleteUpload, Checkpoint, SaveFails,
    SkipPrune, FlagStale, TrashStale, EndTrash, ApplyTrash, FinalCheckpoint, UploadSnapshot,
    CancelQueued, HandlerCheckpoint, HandlerApply, Shutdown, Interrupt, Crash, LoseManifest,
    Write, Purge, StartJob, EncryptFile, UpdateKnown, FindByName, OverwriteFound, CreateFile,
    DigestPlaintext, TrashReplaced, Reconcile, CallFails, AnswerLost, CreateAgain, TrashCall,
    vars, main

LEMMA DiskNext ==
    ASSUME IInv, KeepInv, NoFullRuns, [Next]_vars PROVE DiskRemembered'
<1> SUFFICES ASSUME pc' # "idle", disk' # Missing, NEW f \in Files, KnownLive(disk, f)'
             PROVE  mem'[f] # NoEntry /\ mem'[f].id = disk'[f].id
  BY DEF DiskRemembered
<1>0. Before /\ TypeOK /\ mem \in Manifest
  BY DEF IInv, Before, TypeOK
<1>1. ASSUME NEW o \in Options, Start(o) PROVE mem'[f] # NoEntry /\ mem'[f].id = disk'[f].id
  <2>1. mem' = disk'
    BY <1>1 DEF Start, NoFullRuns, env
  <2> QED BY <2>1 DEF KnownLive
<1>2. ASSUME ~\E o \in Options : Start(o), UNCHANGED disk
      PROVE  KnownLive(disk, f) /\ KnownLive(mem, f) /\ mem[f].id = disk[f].id
  <2>1. pc # "idle"
    BY <1>2, IdleStart
  <2>2. KnownLive(disk, f)
    BY <1>0, <1>2, KnownIds, ShrinksNext DEF KnownLive, LiveShrinks
  <2> QED BY <1>2, <2>1, <2>2 DEF KeepInv, DiskRemembered, KnownLive
<1>3. CASE Marked /\ ~\E o \in Options : Start(o)
  <2>1. KnownLive(mem, f) /\ mem[f].id = disk'[f].id
    BY <1>2, <1>3 DEF Marked
  <2>2. job[f].st # "pruned"
    BY <2>1 DEF KnownLive, KeepInv, JobsKeepLive, PrunedIsGone, Ended
  <2>3. mem[f] \in Entry
    BY <2>1, KnownIds DEF KnownLive
  <2>4. mem'[f] = mem[f] \/ mem'[f] = [mem[f] EXCEPT !.pruned = TRUE]
    BY <1>3, <2>2 DEF Marked
  <2>5. mem'[f] \in Entry /\ mem'[f].id = mem[f].id
    BY <2>3, <2>4 DEF Entry
  <2> QED BY <2>1, <2>5
<1>4. ASSUME UNCHANGED disk, NEW g \in Files, ApplyResult(g), ~\E o \in Options : Start(o)
      PROVE  mem'[f] # NoEntry /\ mem'[f].id = disk'[f].id
  <2>1. KnownLive(mem, f) /\ mem[f].id = disk'[f].id
    BY <1>2, <1>4
  <2>2. CASE f = g /\ job[f].st \in {"done", "leftover"}
    <3>1. job[f].id = mem[f].id
      BY <2>1, <2>2 DEF KeepInv, JobsKeepLive, Ended
    <3>2. mem'[f] \in Entry /\ mem'[f].id = job[f].id
      BY <1>0, <1>4, <2>2, Applied DEF Recorded
    <3> QED BY <2>1, <3>1, <3>2
  <2>3. CASE ~(f = g /\ job[f].st \in {"done", "leftover"})
    <3>1. mem'[f] = mem[f]
      BY <1>0, <1>4, <2>3, Applied
    <3> QED BY <2>1, <3>1 DEF KnownLive
  <2> QED BY <2>2, <2>3
<1>5. CASE TakenOver /\ ~\E o \in Options : Start(o)
  <2>1. CASE disk' = mem'
    BY <2>1 DEF KnownLive
  <2>2. CASE disk' = disk
    <3>1. mem' = mem
      BY <1>5, <2>2 DEF TakenOver, Reloads, FetchSnapshot, Crash
    <3> QED BY <1>2, <1>5, <2>2, <3>1 DEF KnownLive
  <2> QED BY <1>5, <2>1, <2>2 DEF TakenOver
<1> QED BY <1>0, <1>1, <1>3, <1>4, <1>5, ManifestSteps

LEMMA KeepNext ==
    ASSUME IInv, HeldInv, KeepInv, NoFullRuns, FixedEncryption, [Next]_vars PROVE KeepInv'
<1>1. Before /\ NothingLeft
  BY DEF IInv, Before, HeldInv
<1> QED BY <1>1, FormNext, PrunedNext, JobsKeepNext, DiskNext DEF KeepInv

LEMMA KeepInit == Init => KeepInv
BY DEF Init, KeepInv, FormInv, ManifestsInForm, InForm, JobsInForm, DiskRemembered, JobsKeepLive,
       PrunedIsGone, KnownLive, EmptyManifest, NoJob, Ended

-----------------------------------------------------------------------------
\* Without --full, and with each secret always in the same form, no save makes the
\* manifest file forget a copy that is live: an entry leaves it only once Drive has
\* trashed the copy, and changes its id only when the old copy is gone, whatever
\* kills, interrupts, failed calls, purges and prunes there are.
THEOREM LiveCopiesAreKept ==
    ASSUME NoFullRuns, FixedEncryption PROVE Spec => NeverForgetsLiveCopy
<1> DEFINE Kept ==
        \A f \in Files :
          /\ disk # Missing /\ disk[f] # NoEntry
          /\ disk' # Missing /\ drive'[disk[f].id].state = "live"
          => disk'[f] # NoEntry /\ disk'[f].id = disk[f].id
<1>1. IInv /\ HeldInv /\ KeepInv /\ [Next]_vars => [Kept]_vars
  <2> SUFFICES ASSUME IInv, KeepInv, [Next]_vars, NEW f \in Files,
                      disk # Missing, disk[f] # NoEntry, disk' # Missing,
                      drive'[disk[f].id].state = "live"
               PROVE  disk'[f] # NoEntry /\ disk'[f].id = disk[f].id
    OBVIOUS
  <2>0. Before /\ TypeOK
    BY DEF IInv, Before
  <2>1. CASE disk' = disk
    BY <2>1
  <2>2. CASE disk' # disk
    <3>1. TakenOver
      BY <2>0, <2>2, ManifestSteps DEF Marked
    <3>2. disk' = mem' /\ pc # "idle"
      BY <2>2, <3>1 DEF TakenOver
    <3>3. mem' = mem
      BY <2>2, <3>1 DEF TakenOver, Reloads, FetchSnapshot, Crash, Start, env
    <3>4. KnownLive(disk, f)
      BY <2>0, KnownIds, ShrinksNext DEF KnownLive, LiveShrinks
    <3> QED BY <3>2, <3>3, <3>4 DEF KeepInv, DiskRemembered
  <2> QED BY <2>1, <2>2
<1>2. IInv /\ HeldInv /\ KeepInv /\ [Next]_vars => KeepInv'
  BY KeepNext
<1> QED BY <1>1, <1>2, KeepInit, HeldAlways, Invariance, PTL DEF Spec, NeverForgetsLiveCopy

-----------------------------------------------------------------------------
(* A file that is skipped is backed up.                                    *)

\* A file's mtime counts its versions. History[f][n] is the content of version n of
\* f, over all time.
Follows(History) == \A f \in Files : local[f].content = History[f][local[f].mtime]

\* A content that was replaced is not put back; a deleted file may come back as it was.
NothingComesBack(History) ==
    \A f \in Files, i, j, k \in Nat :
        i <= j /\ j <= k /\ History[f][i] = History[f][k] /\ History[f][i] # Absent
            => History[f][j] \in {History[f][i], Absent}

\* What may keep a skipped file from being backed up: a copy trashed or deleted by
\* hand, and an encrypted file edited between its encryption and its digest.
NoTrashRuns == \A o \in Options : o.prune # "trash"
NoPurges == budget["purge"] = 0
SecretsAtRest == WritesDuringRun => \A f \in Secrets, o \in Options : ~o.encrypt

\* Drive file id holds a version of f no older than the recorded one, of MD5 d, and
\* that one is no older than the recorded mtime t.
Backs(History, f, t, d, id) ==
    /\ id \in DOMAIN drive
    /\ \E i, k \in Nat : /\ t <= i /\ i <= k /\ k <= local[f].mtime
                         /\ History[f][i] = d /\ History[f][k] = drive[id].content

AllLive == \A i \in DOMAIN drive : drive[i].state = "live"
CurFits == pc = "prepare" => cur.mtime <= local[cur.file].mtime

\* An encrypted job holds the content of now; what is uploaded backs its file.
Encoded == {"update", "find", "overwrite", "create", "reconcile", "digest", "done"}
JobFits(History, f) ==
    /\ job[f].st \notin Pruning \cup {"trash", "leftover"} /\ job[f].replaced = 0
    /\ job[f].st # "none" => job[f].mtime <= local[f].mtime
    /\ job[f].encrypted /\ job[f].st \in Encoded =>
           job[f].data = local[f].content /\ job[f].data # Absent
    /\ job[f].st = "digest" => job[f].encrypted
    /\ job[f].st \in {"digest", "done"} =>
           job[f].data # Absent /\ Backs(History, f, job[f].mtime, job[f].data, job[f].id)
EntriesFit(History, m) ==
    \A f \in Files : m[f] # NoEntry => Backs(History, f, m[f].mtime, m[f].md5, m[f].id)
ManifestsFit(History) ==
    /\ EntriesFit(History, mem)
    /\ disk # Missing => EntriesFit(History, disk)
    /\ snapshot # Missing => EntriesFit(History, snapshot)
SkipInv(History) ==
    /\ NoPurges /\ AllLive /\ CurFits
    /\ \A f \in Files : JobFits(History, f)
    /\ ManifestsFit(History)

\* The content a write leaves in a Drive file, and in no other.
LEMMA OverwrittenContent ==
    ASSUME drive \in Seq(DriveFile), NEW id \in DOMAIN drive, NEW c \in Contents
    PROVE  /\ Overwritten(id, c)[id].content = c
           /\ \A i \in DOMAIN drive : i # id => Overwritten(id, c)[i] = drive[i]
<1> DEFINE new == [drive[id] EXCEPT !.content = c]
<1>1. drive[id] \in DriveFile /\ id \in 1 .. Len(drive)
  BY ElementOfSeq, LenProperties
<1>2. new.content = c
  BY <1>1 DEF DriveFile
<1>3. Overwritten(id, c) = [drive EXCEPT ![id] = new]
  BY DEF Overwritten
<1> HIDE DEF new
<1> QED BY <1>2, <1>3

LEMMA CreatedContent ==
    ASSUME drive \in Seq(DriveFile), NEW f \in Files, NEW c \in Contents
    PROVE  /\ Created(f, c)[Len(drive) + 1].content = c
           /\ Created(f, c)[Len(drive) + 1].state = "live"
<1> DEFINE new == [name |-> NameOf[<<f, job[f].encrypted>>], content |-> c, state |-> "live"]
<1>1. Created(f, c) = Append(drive, new) /\ new.content = c /\ new.state = "live"
  BY DEF Created
<1> HIDE DEF new
<1> QED BY <1>1, LenProperties

\* What a worker writes is the content of now, into a copy of its own file.
Own(f, id) == \E e \in BOOLEAN : drive[id].name = NameOf[<<f, e>>]
DriveWorked(f) ==
    /\ \A id \in DOMAIN drive :
          /\ id \in DOMAIN drive'
          /\ \/ drive'[id].content = drive[id].content
             \/ Own(f, id) /\ drive'[id].content = local[f].content
    /\ AllLive'

LEMMA PayloadIsNow ==
    ASSUME TypeOK, NEW History, NEW f \in Files, JobFits(History, f), job[f].st \in Encoded, Readable(f)
    PROVE  Payload(f) = local[f].content /\ Payload(f) \in Contents
BY PayloadFact DEF Payload, JobFits

LEMMA WorkerDrive ==
    ASSUME Before, AllLive, NEW History, NEW f \in Files, JobFits(History, f), WorkerStep(f)
    PROVE  DriveWorked(f)
<1>0. TypeOK /\ drive \in Seq(DriveFile) /\ job \in [Files -> Job]
  BY DEF Before, TypeOK
<1>1. CASE UNCHANGED drive
  BY <1>1 DEF DriveWorked, AllLive
<1>2. ASSUME job[f].st \in {"update", "overwrite"}, Readable(f),
             drive' = Overwritten(job[f].id, Payload(f))
      PROVE  DriveWorked(f)
  <2> DEFINE c == Payload(f)
             id == job[f].id
  <2>1. c = local[f].content /\ c \in Contents
    BY <1>0, <1>2, PayloadIsNow DEF Encoded
  <2>2. id \in DOMAIN drive /\ Own(f, id)
    <3>1. id \in DOMAIN drive /\ id # 0
      BY <1>2, IdFact DEF NeedId, Ids
    <3>2. job[f].encrypted \in BOOLEAN
      BY <1>0 DEF Job
    <3> QED BY <3>1, <3>2 DEF Own, Before, JobsTrack, Tracks
  <2>3. drive' = Overwritten(id, c)
    BY <1>2
  <2> HIDE DEF c, id
  <2>4. DOMAIN drive' = DOMAIN drive /\ \A i \in DOMAIN drive : drive'[i].state = drive[i].state
    BY <1>0, <2>1, <2>2, <2>3, OverwrittenFact
  <2>5. drive'[id].content = c /\ \A i \in DOMAIN drive : i # id => drive'[i] = drive[i]
    BY <1>0, <2>1, <2>2, <2>3, OverwrittenContent
  <2> QED BY <2>1, <2>2, <2>4, <2>5 DEF DriveWorked, AllLive
<1>3. ASSUME job[f].st = "create", Readable(f), drive' = Created(f, Payload(f))
      PROVE  DriveWorked(f)
  <2> DEFINE c == Payload(f)
  <2>1. c \in Contents /\ drive' = Created(f, c)
    BY <1>0, <1>3, PayloadIsNow DEF Encoded
  <2> HIDE DEF c
  <2> DEFINE new == Created(f, c)
  <2>2. /\ DOMAIN new = DOMAIN drive \cup {Len(drive) + 1}
        /\ \A i \in DOMAIN drive : new[i] = drive[i]
    BY <1>0, <2>1, CreatedFact
  <2>3. new[Len(drive) + 1].state = "live"
    BY <1>0, <2>1, CreatedContent
  <2> HIDE DEF new
  <2>4. drive' = new
    BY <2>1 DEF new
  <2> QED BY <2>2, <2>3, <2>4 DEF DriveWorked, AllLive
<1>4. job[f].st \notin Pruning \cup {"trash"}
  BY DEF JobFits
<1>6. CASE StartJob(f) \/ EncryptFile(f) \/ FindByName(f) \/ DigestPlaintext(f) \/ CallFails(f)
           \/ Reconcile(f)
  BY <1>1, <1>6 DEF StartJob, EncryptFile, FindByName, DigestPlaintext, CallFails, Reconcile, env
<1>7. CASE UpdateKnown(f) \/ OverwriteFound(f)
  BY <1>1, <1>2, <1>7 DEF UpdateKnown, OverwriteFound
<1>8. CASE CreateFile(f) \/ CreateAgain(f)
  BY <1>1, <1>3, <1>8 DEF CreateFile, CreateAgain
<1>9. CASE TrashReplaced(f) \/ TrashCall(f)
  BY <1>4, <1>9 DEF TrashReplaced, TrashCall, Pruning
<1>10. CASE AnswerLost(f)
  BY <1>2, <1>3, <1>4, <1>10 DEF AnswerLost
<1> QED BY <1>6, <1>7, <1>8, <1>9, <1>10 DEF WorkerStep

\* An upload by one worker leaves what backs any file.
LEMMA BacksWorked ==
    ASSUME TypeOK, InjectiveNames, NEW History, Follows(History), NEW g \in Files, DriveWorked(g),
           UNCHANGED local, NEW f \in Files, NEW t \in Nat, NEW d, NEW id,
           Backs(History, f, t, d, id), Own(f, id)
    PROVE  Backs(History, f, t, d, id)'
<1>0. id \in DOMAIN drive /\ id \in DOMAIN drive' /\ local[f].mtime \in Nat
  BY DEF Backs, DriveWorked, TypeOK
<1>1. PICK i, k \in Nat : /\ t <= i /\ i <= k /\ k <= local[f].mtime
                          /\ History[f][i] = d /\ History[f][k] = drive[id].content
  BY DEF Backs
<1>2. CASE drive'[id].content = drive[id].content
  BY <1>0, <1>1, <1>2 DEF Backs
<1>3. CASE Own(g, id) /\ drive'[id].content = local[g].content
  <2>1. f = g
    BY <1>3 DEF Own, InjectiveNames
  <2>2. drive'[id].content = History[f][local[f].mtime]
    BY <1>3, <2>1 DEF Follows
  <2>3. i <= local[f].mtime
    BY <1>0, <1>1
  <2> QED BY <1>0, <1>1, <2>2, <2>3 DEF Backs
<1> QED BY <1>0, <1>2, <1>3 DEF DriveWorked

\* The content of now, in a copy of its own, backs a file.
LEMMA BacksNow ==
    ASSUME TypeOK, NEW History, Follows(History), NEW f \in Files, UNCHANGED local,
           NEW t \in Nat, t <= local[f].mtime, NEW id \in DOMAIN drive',
           drive'[id].content = local[f].content
    PROVE  Backs(History, f, t, local[f].content, id)'
<1>1. local[f].mtime \in Nat /\ History[f][local[f].mtime] = local[f].content
  BY DEF TypeOK, Follows
<1> QED BY <1>1 DEF Backs

\* A job that goes on without having uploaded.
LEMMA FitsOn ==
    ASSUME TypeOK, NEW History, NEW f \in Files, JobFits(History, f), job[f].st # "none",
           UNCHANGED local, job'[f].replaced = job[f].replaced, job'[f].mtime = job[f].mtime,
           job'[f].encrypted = job[f].encrypted, job'[f].data = job[f].data,
           job'[f].st \notin Pruning \cup {"trash", "leftover", "digest", "done"},
           job'[f].encrypted /\ job'[f].st \in Encoded => job[f].st \in Encoded
    PROVE  JobFits(History, f)'
<1>1. /\ job'[f].st \notin Pruning \cup {"trash", "leftover"} /\ job'[f].replaced = 0
      /\ job'[f].mtime <= local'[f].mtime
      /\ job'[f].st \notin {"digest", "done"}
  BY DEF JobFits
<1>2. job'[f].encrypted /\ job'[f].st \in Encoded =>
          job'[f].data = local'[f].content /\ job'[f].data # Absent
  BY DEF JobFits
<1> QED BY <1>1, <1>2 DEF JobFits

\* A job whose upload Drive has answered.
LEMMA FitsPut ==
    ASSUME TypeOK, NEW History, Follows(History), NEW f \in Files, JobFits(History, f),
           job[f].st \in Encoded, Readable(f), UNCHANGED local, NEW id \in Ids, id \in DOMAIN drive',
           drive'[id].content = Payload(f), job'[f] = PutDone(f, id, Payload(f))
    PROVE  JobFits(History, f)'
<1> DEFINE c == Payload(f)
<1>1. c = local[f].content /\ c \in Contents /\ c # Absent /\ c \in Digests
  BY PayloadIsNow DEF Readable, Digests
<1>2. job'[f] = PutDone(f, id, c)
  OBVIOUS
<1>3. drive'[id].content = local[f].content
  BY <1>1
<1> HIDE DEF c
<1>4. job[f] \in Job /\ job[f].replaced = 0 /\ job[f].mtime \in Nat /\ job[f].mtime <= local[f].mtime
  BY DEF TypeOK, Job, JobFits, Encoded
<1>5. PutDone(f, id, c) = [job[f] EXCEPT !.st = IF job[f].encrypted THEN "digest" ELSE "done",
                                         !.id = id, !.data = c]
  BY <1>4 DEF PutDone, Replaces
<1>6. /\ job'[f].st = (IF job[f].encrypted THEN "digest" ELSE "done")
      /\ job'[f].id = id /\ job'[f].data = c /\ job'[f].replaced = 0
      /\ job'[f].mtime = job[f].mtime /\ job'[f].encrypted = job[f].encrypted
  BY <1>2, <1>4, <1>5 DEF Job
<1>7. Backs(History, f, job[f].mtime, local[f].content, id)'
  BY <1>3, <1>4, <1>6, BacksNow
<1>8. Backs(History, f, job[f].mtime, job[f].data, job[f].id)'
  BY <1>1, <1>6, <1>7 DEF Backs
<1>9. job'[f].st \in {"digest", "done"} /\ (job'[f].st = "digest" => job'[f].encrypted)
  BY <1>6
<1> QED BY <1>1, <1>4, <1>6, <1>8, <1>9 DEF JobFits, Pruning

\* An upload that Drive has answered left the content of now.
Uploads(f) ==
    job'[f].st \in {"digest", "done"} =>
        \/ drive'[job'[f].id].content = local[f].content
        \/ job[f].st = "digest" /\ job'[f].id = job[f].id

LEMMA WorkerFits ==
    ASSUME Before, NEW History, Follows(History), NEW f \in Files, JobFits(History, f),
           WorkerStep(f), DriveWorked(f)
    PROVE  JobFits(History, f)' /\ Uploads(f)
<1> DEFINE Goal == JobFits(History, f)' /\ Uploads(f)
<1>0. /\ TypeOK /\ drive \in Seq(DriveFile) /\ job \in [Files -> Job] /\ job[f] \in Job
      /\ local[f].mtime \in Nat
  BY DEF Before, TypeOK
<1>1. job[f].st \notin Ended /\ UNCHANGED local
  BY WorkerJob
  DEF JobWorked, WorkerStep, StartJob, EncryptFile, UpdateKnown, FindByName, OverwriteFound,
      CreateFile, DigestPlaintext, TrashReplaced, Reconcile, CallFails, AnswerLost, CreateAgain,
      TrashCall, env
<1>a. ASSUME NEW st, Goto(f, st), st \notin Pruning \cup {"trash", "leftover", "digest", "done"},
             job[f].encrypted /\ st \in Encoded => job[f].st \in Encoded
      PROVE  Goal
  <2>1. job'[f] = [job[f] EXCEPT !.st = st]
    BY <1>0, <1>a DEF Goto
  <2>2. /\ job'[f].st = st /\ job'[f].replaced = job[f].replaced /\ job'[f].mtime = job[f].mtime
        /\ job'[f].encrypted = job[f].encrypted /\ job'[f].data = job[f].data
    BY <1>0, <2>1 DEF Job
  <2> QED BY <1>0, <1>1, <1>a, <2>2, FitsOn DEF Ended, Uploads
<1>b. ASSUME NEW st \in GiveUp(job[f].st), Goto(f, st), job[f].st # "trash" PROVE Goal
  <2>1. st = "failed" \/ (st = "reconcile" /\ job[f].st = "create")
    BY <1>b DEF GiveUp
  <2> QED BY <1>a, <1>b, <2>1 DEF Encoded, Pruning
<1>c. ASSUME NEW st \in Encoded \ {"digest", "done"}, NEW id, job[f].st \in Encoded,
             job' = [job EXCEPT ![f].st = st, ![f].id = id]
      PROVE  Goal
  <2>1. job'[f] = [job[f] EXCEPT !.st = st, !.id = id]
    BY <1>0, <1>c
  <2>2. /\ job'[f].st = st /\ job'[f].replaced = job[f].replaced /\ job'[f].mtime = job[f].mtime
        /\ job'[f].encrypted = job[f].encrypted /\ job'[f].data = job[f].data
    BY <1>0, <2>1 DEF Job
  <2> QED BY <1>0, <1>1, <1>c, <2>2, FitsOn DEF Ended, Encoded, Pruning, Uploads
<1>d. ASSUME NEW id \in Ids, id \in DOMAIN drive', job[f].st \in Encoded, Readable(f),
             drive'[id].content = Payload(f), job' = [job EXCEPT ![f] = PutDone(f, id, Payload(f))]
      PROVE  Goal
  <2>1. job'[f] = PutDone(f, id, Payload(f))
    BY <1>0, <1>d
  <2>2. drive'[job'[f].id].content = local[f].content
    <3> DEFINE c == Payload(f)
    <3>1. c = local[f].content /\ c \in Contents /\ drive'[id].content = c
      BY <1>0, <1>d, PayloadIsNow
    <3>2. job'[f] = PutDone(f, id, c)
      BY <2>1
    <3> HIDE DEF c
    <3>3. PutDone(f, id, c).id = id
      BY <1>0, <1>d, <3>1, PutDoneFact
    <3> QED BY <3>1, <3>2, <3>3
  <2> QED BY <1>0, <1>1, <1>d, <2>1, <2>2, FitsPut DEF Uploads
<1>2. CASE StartJob(f)
  <2>1. PICK st \in {"encrypt", "update", "find"} :
            Goto(f, st) /\ (job[f].encrypted => st = "encrypt")
    BY <1>2 DEF StartJob
  <2> QED BY <1>a, <2>1 DEF Encoded, Pruning
<1>3. CASE EncryptFile(f)
  <2>1. CASE Present(f)
    <3>1. PICK st \in {"update", "find"} :
              job' = [job EXCEPT ![f].data = local[f].content, ![f].st = st]
      BY <1>3, <2>1 DEF EncryptFile
    <3>2. job'[f] = [job[f] EXCEPT !.data = local[f].content, !.st = st]
      BY <1>0, <3>1
    <3>3. /\ job'[f].st = st /\ job'[f].replaced = job[f].replaced /\ job'[f].mtime = job[f].mtime
          /\ job'[f].data = local[f].content
      BY <1>0, <3>2 DEF Job
    <3>4. job[f].st # "none" /\ local[f].content # Absent
      BY <1>1, <2>1 DEF Ended, Present
    <3> QED BY <1>1, <3>3, <3>4 DEF JobFits, Pruning, Uploads
  <2> QED BY <1>3, <1>a, <2>1 DEF EncryptFile, Encoded, Pruning
<1>4. CASE UpdateKnown(f) \/ OverwriteFound(f)
  <2>1. CASE Goto(f, "vanished") \/ Goto(f, "failed")
    BY <1>a, <2>1 DEF Encoded, Pruning
  <2>2. CASE job' = [job EXCEPT ![f].st = "find", ![f].id = 0]
    <3>1. "find" \in Encoded \ {"digest", "done"} /\ job[f].st \in Encoded
      BY <1>4 DEF Encoded, UpdateKnown, OverwriteFound
    <3> QED BY <1>c, <2>2, <3>1
  <2>3. CASE /\ Readable(f) /\ drive' = Overwritten(job[f].id, Payload(f))
             /\ job' = [job EXCEPT ![f] = PutDone(f, job[f].id, Payload(f))]
    <3>1. job[f].st \in {"update", "overwrite"}
      BY <1>4 DEF UpdateKnown, OverwriteFound
    <3>2. job[f].id \in Ids /\ job[f].id \in DOMAIN drive /\ Payload(f) \in Contents
      BY <1>0, <2>3, <3>1, IdFact, PayloadFact DEF NeedId
    <3>3. job[f].id \in DOMAIN drive' /\ drive'[job[f].id].content = Payload(f)
      BY <1>0, <2>3, <3>2, OverwrittenContent, OverwrittenFact
    <3> QED BY <1>d, <2>3, <3>1, <3>2, <3>3 DEF Encoded
  <2> QED BY <1>4, <2>1, <2>2, <2>3 DEF UpdateKnown, OverwriteFound
<1>5. CASE FindByName(f) \/ Reconcile(f)
  <2>1. job[f].st \in Encoded
    BY <1>5 DEF FindByName, Reconcile, Encoded
  <2>2. CASE Goto(f, "create") \/ Goto(f, "failed")
    BY <1>a, <2>1, <2>2 DEF Encoded, Pruning
  <2>3. ASSUME NEW i, job' = [job EXCEPT ![f].st = "overwrite", ![f].id = i]
        PROVE  Goal
    <3>1. "overwrite" \in Encoded \ {"digest", "done"}
      BY DEF Encoded
    <3> QED BY <1>c, <2>1, <2>3, <3>1
  <2> QED BY <1>5, <2>2, <2>3 DEF FindByName, Reconcile
<1>6. CASE CreateFile(f)
  <2>1. CASE Goto(f, "vanished")
    BY <1>a, <2>1 DEF Encoded, Pruning
  <2>2. CASE /\ Readable(f) /\ drive' = Created(f, Payload(f))
             /\ job' = [job EXCEPT ![f] = PutDone(f, Len(drive) + 1, Payload(f))]
    <3>1. Len(drive) + 1 \in Ids /\ Payload(f) \in Contents
      BY <1>0, <2>2, LenProperties, PayloadFact DEF Ids
    <3>2. Len(drive) + 1 \in DOMAIN drive' /\ drive'[Len(drive) + 1].content = Payload(f)
      <4> DEFINE c == Payload(f)
      <4>1. c \in Contents /\ drive' = Created(f, c)
        BY <2>2, <3>1
      <4> HIDE DEF c
      <4>2. Len(drive) + 1 \in DOMAIN drive' /\ drive'[Len(drive) + 1].content = c
        <5>1. Created(f, c)[Len(drive) + 1].content = c
          BY <1>0, <4>1, CreatedContent
        <5>2. DOMAIN Created(f, c) = DOMAIN drive \cup {Len(drive) + 1}
          BY <1>0, <4>1, CreatedFact
        <5> QED BY <4>1, <5>1, <5>2, Zenon
      <4> QED BY <4>2 DEF c
    <3> QED BY <1>6, <1>d, <2>2, <3>1, <3>2 DEF CreateFile, Encoded
  <2> QED BY <1>6, <2>1, <2>2 DEF CreateFile
<1>7. CASE DigestPlaintext(f)
  <2>1. /\ job[f].st = "digest" /\ job[f].encrypted /\ job[f].replaced = 0
        /\ job[f].data = local[f].content /\ job[f].data # Absent
        /\ Backs(History, f, job[f].mtime, job[f].data, job[f].id)
        /\ job[f].mtime <= local[f].mtime
    BY <1>7 DEF DigestPlaintext, JobFits, Encoded
  <2>2. job' = [job EXCEPT ![f].data = local[f].content, ![f].st = "done"] /\ UNCHANGED <<drive, local>>
    BY <1>7, <2>1 DEF DigestPlaintext, Replaces, env
  <2>3. job'[f] = [job[f] EXCEPT !.data = local[f].content, !.st = "done"]
    BY <1>0, <2>2
  <2>4. /\ job'[f].st = "done" /\ job'[f].replaced = 0 /\ job'[f].mtime = job[f].mtime
        /\ job'[f].data = job[f].data /\ job'[f].id = job[f].id
    BY <1>0, <2>1, <2>3 DEF Job
  <2>5. Backs(History, f, job[f].mtime, job[f].data, job[f].id)'
    BY <2>1, <2>2, <2>4 DEF Backs
  <2> QED BY <2>1, <2>2, <2>4, <2>5 DEF JobFits, Pruning, Uploads
<1>8. CASE CallFails(f) \/ AnswerLost(f)
  BY <1>b, <1>8 DEF CallFails, AnswerLost, JobFits
<1>9. CASE CreateAgain(f)
  <2>1. UNCHANGED job /\ job[f].st = "create"
    BY <1>9 DEF CreateAgain, pool
  <2> QED BY <1>0, <1>1, <2>1, FitsOn DEF Encoded, Pruning, Uploads
<1>10. CASE TrashReplaced(f) \/ TrashCall(f)
  BY <1>10 DEF TrashReplaced, TrashCall, JobFits, Pruning
<1> QED BY <1>2, <1>3, <1>4, <1>5, <1>6, <1>7, <1>8, <1>9, <1>10 DEF WorkerStep

\* The environment moves files on; nothing else of what backs a file changes.
LEMMA BacksOn ==
    ASSUME NEW History, NEW f \in Files, UNCHANGED drive, local[f].mtime \in Nat,
           local'[f].mtime \in Nat, local[f].mtime <= local'[f].mtime,
           NEW t \in Nat, NEW d, NEW id, Backs(History, f, t, d, id)
    PROVE  Backs(History, f, t, d, id)'
<1>1. PICK i, k \in Nat : /\ t <= i /\ i <= k /\ k <= local[f].mtime
                          /\ History[f][i] = d /\ History[f][k] = drive[id].content
  BY DEF Backs
<1>2. k <= local'[f].mtime
  BY <1>1
<1> QED BY <1>1, <1>2 DEF Backs

\* What every step of the main thread and the environment leaves.
LEMMA OthersOn ==
    ASSUME TypeOK, NoPurges, MainStep \/ Environment \/ UNCHANGED vars
    PROVE  /\ UNCHANGED drive
           /\ \A f \in Files : /\ local[f].mtime \in Nat /\ local'[f].mtime \in Nat
                               /\ local[f].mtime <= local'[f].mtime
           /\ \/ UNCHANGED local
              \/ UNCHANGED job /\ (WritesDuringRun \/ pc = "idle")
<1>0. \A f \in Files : local[f].mtime \in Nat
  BY DEF TypeOK
<1>1. ASSUME NEW i \in DOMAIN drive, Purge(i) PROVE FALSE
  BY <1>1 DEF Purge, Spend, NoPurges
<1>2. UNCHANGED drive
  BY <1>1, OthersKeepDrive DEF Environment
<1>3. CASE UNCHANGED local
  BY <1>0, <1>2, <1>3
<1>4. ASSUME NEW f \in Files, Write(f)
      PROVE  /\ UNCHANGED job /\ (WritesDuringRun \/ pc = "idle")
             /\ \A g \in Files : local'[g].mtime \in Nat /\ local[g].mtime <= local'[g].mtime
  <2>1. PICK c \in Digests : local' = [local EXCEPT ![f] = [content |-> c, mtime |-> @.mtime + 1]]
    BY <1>4 DEF Write
  <2>2. \A g \in Files : local'[g].mtime \in {local[g].mtime, local[g].mtime + 1}
    BY <2>1 DEF TypeOK
  <2> QED BY <1>0, <1>4, <2>2 DEF Write, pool
<1>5. CASE MainStep \/ UNCHANGED vars
  BY <1>3, <1>5
  DEF MainStep, FetchSnapshot, SkipFetch, ScanFile, ScanError, PrepareSkip, PrepareUpload,
      RecordFuture, EndSkip, EndDrain, EndScan, EndSettle, TakeResult, CompleteUpload,
      Checkpoint, SaveFails, SkipPrune, FlagStale, TrashStale, EndTrash, ApplyTrash,
      FinalCheckpoint, UploadSnapshot, CancelQueued, HandlerCheckpoint, HandlerApply, Shutdown,
      vars, env
<1>6. CASE Environment
  <2>1. UNCHANGED local \/ \E f \in Files : Write(f)
    BY <1>1, <1>6 DEF Environment, Start, Interrupt, Crash, LoseManifest, env
  <2> QED BY <1>0, <1>2, <1>3, <1>4, <2>1
<1> QED BY <1>5, <1>6

\* Jobs.
LEMMA JobsFitNext ==
    ASSUME Before, FormInv, NothingLeft, InjectiveNames, NoTrashRuns, SecretsAtRest, NEW History,
           Follows(History), SkipInv(History), [Next]_vars, NEW f \in Files
    PROVE  JobFits(History, f)'
<1>0. /\ TypeOK /\ CurIsFile /\ NoPurges /\ AllLive /\ job \in [Files -> Job] /\ job[f] \in Job
      /\ JobFits(History, f)
  BY DEF Before, TypeOK, SkipInv
<1>1. ASSUME NEW g \in Files, WorkerStep(g) PROVE JobFits(History, f)'
  <2>1. DriveWorked(g)
    BY <1>0, <1>1, WorkerDrive DEF SkipInv
  <2>2. CASE g = f
    BY <1>0, <1>1, <2>1, <2>2, WorkerFits
  <2>3. CASE g # f
    <3>1. job'[f] = job[f] /\ UNCHANGED local
      BY <1>1, <2>3, WorkerJob
      DEF WorkerStep, StartJob, EncryptFile, UpdateKnown, FindByName, OverwriteFound,
          CreateFile, DigestPlaintext, TrashReplaced, Reconcile, CallFails, AnswerLost, CreateAgain,
          TrashCall, env
    <3>2. ASSUME job[f].st \in {"digest", "done"}
          PROVE  Backs(History, f, job[f].mtime, job[f].data, job[f].id)'
      <4>1. Own(f, job[f].id) /\ job[f].mtime \in Nat
        <5>1. job[f].id # 0 /\ job[f].encrypted \in BOOLEAN
          BY <1>0, <3>2, IdFact DEF NeedId, Ids, Job
        <5> QED BY <1>0, <5>1 DEF Own, Before, JobsTrack, Tracks, Job
      <4>2. Backs(History, f, job[f].mtime, job[f].data, job[f].id)
        BY <1>0, <3>2 DEF JobFits
      <4> QED BY <1>0, <2>1, <3>1, <4>1, <4>2, BacksWorked
    <3> QED BY <1>0, <3>1, <3>2 DEF JobFits
  <2> QED BY <2>2, <2>3
<1>2. CASE MainStep \/ Environment \/ UNCHANGED vars
  <2>0. /\ UNCHANGED drive
        /\ local[f].mtime \in Nat /\ local'[f].mtime \in Nat /\ local[f].mtime <= local'[f].mtime
        /\ \/ UNCHANGED local
           \/ UNCHANGED job /\ (WritesDuringRun \/ pc = "idle")
    BY <1>0, <1>2, OthersOn
  <2>1. CASE job'[f] = job[f]
    <3>1. ASSUME job[f].st \in {"digest", "done"}
          PROVE  Backs(History, f, job[f].mtime, job[f].data, job[f].id)'
      <4>1. job[f].mtime \in Nat /\ Backs(History, f, job[f].mtime, job[f].data, job[f].id)
        BY <1>0, <3>1 DEF JobFits, Job
      <4> QED BY <2>0, <2>1, <4>1, BacksOn
    <3>2. UNCHANGED local \/ job[f].st = "none" \/ ~job[f].encrypted
      <4>1. CASE WritesDuringRun /\ job[f].st # "none"
        <5>1. job[f].encrypted = Encrypted(f) /\ options \in Options
          BY <1>0, <4>1 DEF FormInv, JobsInForm, TypeOK
        <5> QED BY <4>1, <5>1 DEF SecretsAtRest, Encrypted
      <4>2. CASE pc = "idle"
        BY <4>2 DEF NothingLeft, Submitted
      <4> QED BY <2>0, <4>1, <4>2
    <3>3. job[f].st # "none" => job'[f].mtime <= local'[f].mtime
      BY <1>0, <2>0, <2>1 DEF JobFits, Job
    <3> QED BY <1>0, <2>1, <3>1, <3>2, <3>3 DEF JobFits, Encoded
  <2>2. CASE job'[f] = NoJob
    BY <2>2 DEF NoJob, JobFits, Encoded, Pruning
  <2>3. CASE PrepareUpload /\ f = cur.file /\ job'[f] = Work(f)
    <3>1. mem[f] # NoEntry => mem[f].encrypted = Encrypted(f)
      BY DEF FormInv, ManifestsInForm, InForm
    <3>2. /\ job'[f].st = "queued" /\ job'[f].replaced = 0 /\ job'[f].mtime = cur.mtime
      BY <2>3, <3>1 DEF Work
    <3>3. cur.mtime <= local'[f].mtime
      BY <2>3, <2>0 DEF PrepareUpload, SkipInv, CurFits, env
    <3> QED BY <3>2, <3>3 DEF JobFits, Encoded, Pruning
  <2>4. CASE TrashStale
    BY <1>0, <2>4 DEF TrashStale, NoTrashRuns, TypeOK
  <2> QED BY <1>0, <1>2, <2>1, <2>2, <2>3, <2>4, JobSteps
<1> QED BY <1>1, <1>2 DEF Next

\* What backs a file after a step.
BacksAfter(History, f, t, d, id) ==
    /\ id \in DOMAIN drive'
    /\ \E i, k \in Nat : /\ t <= i /\ i <= k /\ k <= local'[f].mtime
                         /\ History[f][i] = d /\ History[f][k] = drive'[id].content
EntriesAfter(History, m) ==
    \A f \in Files : m[f] # NoEntry => BacksAfter(History, f, m[f].mtime, m[f].md5, m[f].id)

\* Manifests.
LEMMA ManifestsFitNext ==
    ASSUME IInv, FormInv, InjectiveNames, NEW History, Follows(History), SkipInv(History),
           [Next]_vars
    PROVE  ManifestsFit(History)'
<1>0. /\ Before /\ TypeOK /\ mem \in Manifest
      /\ disk # Missing => disk \in Manifest
      /\ snapshot # Missing => snapshot \in Manifest
  BY DEF IInv, Before, TypeOK
<1>1. ASSUME NEW f \in Files, NEW t \in Nat, NEW d, NEW id, NEW e \in BOOLEAN,
             Backs(History, f, t, d, id), Tracks(f, id, e)
      PROVE  BacksAfter(History, f, t, d, id)
  <2>1. Own(f, id)
    BY <1>1 DEF Own, Tracks
  <2>2. ASSUME NEW g \in Files, WorkerStep(g) PROVE Backs(History, f, t, d, id)'
    <3>1. DriveWorked(g) /\ UNCHANGED local
      BY <1>0, <2>2, WorkerDrive
      DEF SkipInv, WorkerStep, StartJob, EncryptFile, UpdateKnown, FindByName, OverwriteFound,
          CreateFile, DigestPlaintext, TrashReplaced, Reconcile, CallFails, AnswerLost, CreateAgain,
          TrashCall, env
    <3> QED BY <1>0, <1>1, <2>1, <2>2, <3>1, BacksWorked
  <2>3. CASE MainStep \/ Environment \/ UNCHANGED vars
    <3>1. /\ UNCHANGED drive
          /\ local[f].mtime \in Nat /\ local'[f].mtime \in Nat /\ local[f].mtime <= local'[f].mtime
      BY <1>0, <2>3, OthersOn DEF SkipInv
    <3>2. Backs(History, f, t, d, id)'
      BY <1>1, <3>1, BacksOn
    <3> QED BY <3>2 DEF Backs, BacksAfter
  <2>4. CASE \E g \in Files : WorkerStep(g)
    BY <2>2, <2>4 DEF Backs, BacksAfter
  <2> QED BY <2>3, <2>4 DEF Next
<1>2. ASSUME NEW m \in Manifest, OwnCopies(m), EntriesFit(History, m)
      PROVE  EntriesAfter(History, m)
  <2> SUFFICES ASSUME NEW f \in Files, m[f] # NoEntry
               PROVE  BacksAfter(History, f, m[f].mtime, m[f].md5, m[f].id)
    BY DEF EntriesAfter
  <2>1. m[f].mtime \in Nat /\ m[f].encrypted \in BOOLEAN
    BY DEF Manifest, Entry
  <2>2. Tracks(f, m[f].id, m[f].encrypted) /\ Backs(History, f, m[f].mtime, m[f].md5, m[f].id)
    BY <1>2 DEF OwnCopies, EntriesFit
  <2> QED BY <1>1, <2>1, <2>2
<1>3. /\ EntriesAfter(History, mem)
      /\ disk # Missing => EntriesAfter(History, disk)
      /\ snapshot # Missing => EntriesAfter(History, snapshot)
      /\ EntriesAfter(History, EmptyManifest)
  BY <1>0, <1>2 DEF SkipInv, ManifestsFit, IInv, ManifestTracksOwnFile, EntriesAfter, EmptyManifest
<1>4. ASSUME EntriesAfter(History, mem'), disk' # Missing => EntriesAfter(History, disk'),
             snapshot' # Missing => EntriesAfter(History, snapshot')
      PROVE  ManifestsFit(History)'
  BY <1>4 DEF ManifestsFit, EntriesFit, EntriesAfter, Backs, BacksAfter
<1>5. CASE TakenOver
  <2>1. /\ EntriesAfter(History, mem')
        /\ disk' # Missing => EntriesAfter(History, disk')
        /\ snapshot' # Missing => EntriesAfter(History, snapshot')
    BY <1>0, <1>3, <1>5 DEF TakenOver
  <2> QED BY <1>4, <2>1
<1>6. CASE Marked
  <2>1. ASSUME NEW e \in Entry
        PROVE  LET marked == [e EXCEPT !.pruned = TRUE]
               IN  marked.id = e.id /\ marked.mtime = e.mtime /\ marked.md5 = e.md5
    BY DEF Entry
  <2>2. ASSUME NEW f \in Files, mem'[f] # NoEntry
        PROVE  /\ mem[f] # NoEntry /\ mem'[f].id = mem[f].id
               /\ mem'[f].mtime = mem[f].mtime /\ mem'[f].md5 = mem[f].md5
    <3>1. mem'[f] = mem[f] \/ (mem[f] # NoEntry /\ mem'[f] = [mem[f] EXCEPT !.pruned = TRUE])
      BY <1>6, <2>2 DEF Marked
    <3>2. mem[f] # NoEntry => mem[f] \in Entry
      BY <1>0 DEF Manifest
    <3> QED BY <2>1, <2>2, <3>1, <3>2
  <2>3. EntriesAfter(History, mem')
    BY <1>3, <2>2 DEF EntriesAfter
  <2> QED BY <1>3, <1>4, <1>6, <2>3 DEF Marked
<1>7. ASSUME UNCHANGED <<disk, snapshot>>, NEW g \in Files, ApplyResult(g)
      PROVE  ManifestsFit(History)'
  <2>1. ASSUME job[g].st \in {"done", "leftover"}
        PROVE  BacksAfter(History, g, mem'[g].mtime, mem'[g].md5, mem'[g].id)
    <3>1. JobFits(History, g) /\ job[g] \in Job
      BY <1>0 DEF SkipInv, TypeOK
    <3>2. job[g].data # Absent /\ Backs(History, g, job[g].mtime, job[g].data, job[g].id)
      BY <2>1, <3>1 DEF JobFits
    <3>3. Tracks(g, job[g].id, job[g].encrypted) /\ job[g].encrypted \in BOOLEAN /\ job[g].mtime \in Nat
      BY <1>0, <2>1, <3>1 DEF Before, JobsHaveIds, JobsTrack, NeedId, Job
    <3>4. BacksAfter(History, g, job[g].mtime, job[g].data, job[g].id)
      BY <1>1, <3>2, <3>3
    <3>5. mem'[g].mtime = job[g].mtime /\ mem'[g].md5 = job[g].data /\ mem'[g].id = job[g].id
      BY <1>0, <1>7, <2>1, <3>2, Applied DEF Recorded
    <3> QED BY <3>4, <3>5
  <2>2. ASSUME NEW f \in Files, ~(f = g /\ job[f].st \in {"done", "leftover"})
        PROVE  mem'[f] = mem[f]
    BY <1>0, <1>7, <2>2, Applied
  <2>3. EntriesAfter(History, mem')
    BY <1>3, <2>1, <2>2 DEF EntriesAfter
  <2> QED BY <1>3, <1>4, <1>7, <2>3
<1> QED BY <1>0, <1>5, <1>6, <1>7, ManifestSteps

LEMMA PurgesNext == ASSUME TypeOK, NoPurges, [Next]_vars PROVE NoPurges'
<1>1. CASE UNCHANGED budget
  BY <1>1 DEF NoPurges
<1>2. ASSUME NEW e \in Events, Spend(e) PROVE NoPurges'
  BY <1>2 DEF Spend, NoPurges, TypeOK, Events
<1>3. CASE MainStep
  BY <1>1, <1>2, <1>3
  DEF MainStep, FetchSnapshot, SkipFetch, ScanFile, ScanError, PrepareSkip, PrepareUpload,
      RecordFuture, EndSkip, EndDrain, EndScan, EndSettle, TakeResult, CompleteUpload, Checkpoint,
      SaveFails, SkipPrune, FlagStale, TrashStale, EndTrash, ApplyTrash, FinalCheckpoint,
      UploadSnapshot, CancelQueued, HandlerCheckpoint, HandlerApply, Shutdown, Events
<1>4. ASSUME NEW f \in Files, WorkerStep(f) PROVE NoPurges'
  BY <1>1, <1>2, <1>4
  DEF WorkerStep, StartJob, EncryptFile, UpdateKnown, FindByName, OverwriteFound, CreateFile,
      DigestPlaintext, TrashReplaced, Reconcile, CallFails, AnswerLost, CreateAgain, TrashCall,
      Events
<1>5. CASE Environment
  BY <1>2, <1>5
  DEF Environment, Start, Interrupt, Crash, LoseManifest, Write, Purge, Events
<1> QED BY <1>1, <1>3, <1>4, <1>5 DEF Next, vars

LEMMA CurFitsNext ==
    ASSUME Before, CurFits, NoPurges, [Next]_vars PROVE CurFits'
<1>0. TypeOK /\ CurIsFile /\ CurIsFile'
  BY CurNext DEF Before
<1> SUFFICES ASSUME pc' = "prepare" PROVE cur'.mtime <= local'[cur'.file].mtime
  BY DEF CurFits
<1>1. cur'.file \in Files
  BY <1>0 DEF CurIsFile
<1>2. \A f \in Files : local[f].mtime \in Nat /\ local'[f].mtime \in Nat
                       /\ local[f].mtime <= local'[f].mtime
  <2>1. ASSUME NEW g \in Files, WorkerStep(g) PROVE UNCHANGED local
    BY <2>1
    DEF WorkerStep, StartJob, EncryptFile, UpdateKnown, FindByName, OverwriteFound,
        CreateFile, DigestPlaintext, TrashReplaced, Reconcile, CallFails, AnswerLost, CreateAgain,
        TrashCall, env
  <2>2. \A f \in Files : local[f].mtime \in Nat
    BY <1>0 DEF TypeOK
  <2>3. CASE MainStep \/ Environment \/ UNCHANGED vars
    BY <1>0, <2>3, OthersOn
  <2> QED BY <2>1, <2>2, <2>3 DEF Next
<1>3. CASE UNCHANGED <<pc, cur>>
  <2>1. cur.file \in Files /\ cur.mtime <= local[cur.file].mtime /\ cur.mtime \in Nat
    BY <1>0, <1>1, <1>3 DEF CurFits, TypeOK, FileEntry
  <2> QED BY <1>2, <1>3, <2>1
<1>4. ASSUME NEW f \in Files, ScanFile(f) PROVE cur'.mtime <= local'[cur'.file].mtime
  <2>1. cur' = [file |-> f, size |-> Size[local[f].content], mtime |-> local[f].mtime] /\ local' = local
    BY <1>4 DEF ScanFile, env
  <2> QED BY <1>2, <2>1
<1>5. UNCHANGED <<pc, cur>> \/ \E f \in Files : ScanFile(f)
  BY DEF Next, MainStep, Environment, WorkerStep,
    FetchSnapshot, SkipFetch, ScanFile, ScanError, PrepareSkip, PrepareUpload, RecordFuture,
    EndSkip, EndDrain, EndScan, EndSettle, TakeResult, CompleteUpload, Checkpoint, SaveFails,
    SkipPrune, FlagStale, TrashStale, EndTrash, ApplyTrash, FinalCheckpoint, UploadSnapshot,
    CancelQueued, HandlerCheckpoint, HandlerApply, Shutdown, Start, Interrupt, Crash, LoseManifest,
    Write, Purge, StartJob, EncryptFile, UpdateKnown, FindByName, OverwriteFound, CreateFile,
    DigestPlaintext, TrashReplaced, Reconcile, CallFails, AnswerLost, CreateAgain, TrashCall,
    vars, main
<1> QED BY <1>3, <1>4, <1>5

LEMMA SkipNext ==
    ASSUME IInv, HeldInv, FormInv, InjectiveNames, NoTrashRuns, SecretsAtRest, NEW History,
           Follows(History), SkipInv(History), [Next]_vars
    PROVE  SkipInv(History)'
<1>0. Before /\ TypeOK /\ NothingLeft /\ NoPurges /\ AllLive /\ CurFits
  BY DEF IInv, Before, HeldInv, SkipInv
<1>1. \A f \in Files : JobFits(History, f)'
  BY <1>0, JobsFitNext
<1>2. AllLive'
  <2>1. ASSUME NEW g \in Files, WorkerStep(g) PROVE AllLive'
    BY <1>0, <2>1, WorkerDrive DEF SkipInv, DriveWorked
  <2>2. CASE MainStep \/ Environment \/ UNCHANGED vars
    BY <1>0, <2>2, OthersOn DEF AllLive
  <2> QED BY <2>1, <2>2 DEF Next
<1>3. NoPurges' /\ CurFits' /\ ManifestsFit(History)'
  BY <1>0, PurgesNext, CurFitsNext, ManifestsFitNext
<1> QED BY <1>1, <1>2, <1>3 DEF SkipInv

LEMMA SkipInit == ASSUME Init, Budget["purge"] = 0, NEW History PROVE SkipInv(History)
<1>1. NoPurges /\ AllLive /\ CurFits /\ ManifestsFit(History)
  BY DEF Init, NoPurges, AllLive, CurFits, ManifestsFit, EntriesFit, EmptyManifest
<1>2. \A f \in Files : JobFits(History, f)
  BY DEF Init, JobFits, NoJob, Pruning, Encoded
<1> QED BY <1>1, <1>2 DEF SkipInv

\* The MD5 of a skipped file is in its history between its entry and now.
LEMMA SkippedBackedUp ==
    ASSUME TypeOK, CurIsFile, NEW History, NothingComesBack(History), SkipInv(History),
           Follows(History)
    PROVE  SkipIsBackedUp
<1> SUFFICES ASSUME pc = "prepare", ~MustUpload, local[cur.file].mtime = cur.mtime
             PROVE  BackedUp(cur.file, mem)
  BY DEF SkipIsBackedUp
<1> DEFINE f == cur.file
           entry == mem[f]
           now == local[f].mtime
<1>1. f \in Files /\ mem[f] \in Entry \cup {NoEntry} /\ now \in Nat /\ drive \in Seq(DriveFile)
  BY DEF CurIsFile, TypeOK, Manifest
<1>2. ~NeedsUpload(entry, cur)
  BY DEF MustUpload
<1>3. /\ entry # NoEntry
      /\ \/ now = entry.mtime
         \/ local[f].content # Absent /\ local[f].content = entry.md5
  BY <1>2 DEF NeedsUpload, Present
<1>4. entry.mtime \in Nat
  BY <1>1, <1>3 DEF Entry
<1>5. PICK i, k \in Nat : /\ entry.mtime <= i /\ i <= k /\ k <= now
                          /\ History[f][i] = entry.md5
                          /\ History[f][k] = drive[entry.id].content
  BY <1>1, <1>3 DEF SkipInv, ManifestsFit, EntriesFit, Backs
<1>6. /\ entry.id \in DOMAIN drive /\ drive[entry.id].state = "live"
      /\ drive[entry.id].content # Absent
  <2>1. entry.id \in DOMAIN drive
    BY <1>1, <1>3 DEF SkipInv, ManifestsFit, EntriesFit, Backs
  <2>2. drive[entry.id] \in DriveFile
    BY <1>1, <2>1, ElementOfSeq, LenProperties
  <2> QED BY <2>1, <2>2 DEF SkipInv, AllLive, DriveFile
<1>7. local[f].content = History[f][now]
  BY <1>1 DEF Follows
<1>8. CASE now = entry.mtime
  <2>1. k = now
    BY <1>1, <1>5, <1>8
  <2> QED BY <1>3, <1>5, <1>6, <1>7, <2>1 DEF BackedUp
<1>9. CASE local[f].content # Absent /\ local[f].content = entry.md5
  <2>1. History[f][k] \in {History[f][i], Absent}
    BY <1>1, <1>5, <1>7, <1>9 DEF NothingComesBack
  <2> QED BY <1>3, <1>5, <1>6, <1>9, <2>1 DEF BackedUp
<1> QED BY <1>3, <1>8, <1>9

\* No file is skipped that is not backed up, as long as its secrets keep one form, no
\* encrypted file is edited during a run, nobody deletes a copy by hand or by
\* --prune-trash, and no file returns to a content it had before the last: whatever
\* kills, interrupts, failed and lost calls, lost manifests, --full runs and other
\* edits there are, before, between and during the runs.
THEOREM SkipsAreBackedUp ==
    ASSUME InjectiveNames, FixedEncryption, NoTrashRuns, SecretsAtRest, Budget["purge"] = 0,
           NEW History, NothingComesBack(History)
    PROVE  Spec /\ []Follows(History) => []SkipIsBackedUp
<1>1. TypeOK /\ CurIsFile /\ SkipInv(History) /\ Follows(History) => SkipIsBackedUp
  BY SkippedBackedUp
<1>2. Init => FormInv
  BY KeepInit DEF KeepInv
<1>3. IInv /\ HeldInv /\ FormInv /\ [Next]_vars => FormInv'
  BY FormNext DEF IInv, Before
<1>4. Init => SkipInv(History)
  BY SkipInit
<1>5. IInv /\ HeldInv /\ FormInv /\ SkipInv(History) /\ Follows(History) /\ [Next]_vars
        => SkipInv(History)'
  BY SkipNext
<1>6. IInv => TypeOK /\ CurIsFile
  BY DEF IInv
<1> QED BY <1>1, <1>2, <1>3, <1>4, <1>5, <1>6, HeldAlways, Invariance, PTL DEF Spec

-----------------------------------------------------------------------------
(* A run that exits 0 has backed up every file.                            *)

Covered(f) ==
    mem[f] # NoEntry /\ ~mem[f].pruned /\ drive[mem[f].id].content = local[f].content

\* Every present file waits for its scan, is in the main thread's hand, has a job, or
\* is covered, unless an error was counted; after the uploads it is covered.
Late == pc \in ClosingPhase \/ (pc = "shutdown" /\ exit = "ok")
Scanning ==
    pc \in UploadPhase /\ "file" \notin errors =>
        \A f \in Files : Present(f) =>
            f \in toScan \/ (pc = "prepare" /\ cur.file = f) \/ job[f].st # "none" \/ Covered(f)
Closing == Late /\ "file" \notin errors => \A f \in Files : Present(f) => Covered(f)
Scanned == pc = "settle" => toScan = {}
CurIsNow == pc = "prepare" => cur.mtime = local[cur.file].mtime
TakenIsDone == taken # NoFile => pc \in {"drain", "settle"} /\ job[taken].st \in Finished

\* What Drive has answered is what the file holds.
JobsHold ==
    \A f \in Files : job[f].st \in {"digest", "done"} => drive[job[f].id].content = local[f].content

\* The manifest on disk is the one in memory, unless that is dirty or empty.
Saved ==
    /\ pc # "idle" /\ ~dirty /\ disk # Missing => disk = mem \/ mem = EmptyManifest
    /\ pc = "upload" \/ (pc = "shutdown" /\ exit = "ok") => disk # Missing /\ ~dirty
ExitIsLast == exit = "ok" /\ pc # "idle" => pc = "shutdown" /\ errors = {}

RunInv ==
    /\ Scanning /\ Closing /\ Scanned /\ CurIsNow /\ TakenIsDone /\ JobsHold /\ Saved /\ ExitIsLast

\* How the phases follow each other.
LEMMA PhaseSteps ==
    ASSUME TypeOK, [Next]_vars
    PROVE  /\ pc' \in ClosingPhase => pc \in ClosingPhase \/ EndSettle
           /\ pc' = "shutdown" /\ exit' = "ok" =>
                  \/ UploadSnapshot /\ errors = {} /\ errors' = {}
                  \/ exit = "ok" /\ pc # "idle" /\ UNCHANGED errors
           /\ pc' \in UploadPhase => pc \in UploadPhase \/ FetchSnapshot \/ SkipFetch
           /\ pc' # "idle" => errors \subseteq errors' \/ pc = "idle"
           /\ exit' = "ok" /\ pc' # "idle" =>
                  pc' = "shutdown" \/ (exit = "ok" /\ pc # "idle")
<1>1. CASE MainStep
  BY <1>1
  DEF MainStep, FetchSnapshot, SkipFetch, ScanFile, ScanError, PrepareSkip, PrepareUpload,
      RecordFuture, EndSkip, EndDrain, EndScan, EndSettle, TakeResult, CompleteUpload, ApplyResult,
      Checkpoint, SaveFails, SkipPrune, FlagStale, TrashStale, EndTrash, ApplyTrash,
      FinalCheckpoint, UploadSnapshot, CancelQueued, HandlerCheckpoint, HandlerApply, Shutdown,
      main, UploadPhase, ClosingPhase
<1>2. ASSUME NEW f \in Files, WorkerStep(f) PROVE UNCHANGED <<pc, exit, errors>>
  BY <1>2
  DEF WorkerStep, StartJob, EncryptFile, UpdateKnown, FindByName, OverwriteFound, CreateFile,
      DigestPlaintext, TrashReplaced, Reconcile, CallFails, AnswerLost, CreateAgain, TrashCall, main
<1>3. CASE \E f \in Files : WorkerStep(f)
  <2>1. UNCHANGED <<pc, exit, errors>>
    BY <1>2, <1>3
  <2> QED BY <2>1, <1>3 DEF UploadPhase, ClosingPhase
<1>4. CASE Environment
  BY <1>4
  DEF Environment, Start, Interrupt, Crash, LoseManifest, Write, Purge, main, UploadPhase,
      ClosingPhase
<1>5. CASE UNCHANGED vars
  BY <1>5 DEF vars, main, UploadPhase, ClosingPhase
<1> QED BY <1>1, <1>3, <1>4, <1>5 DEF Next

\* Nothing edits the profile while a run lasts.
LEMMA StillWhileRunning ==
    ASSUME ~WritesDuringRun, [Next]_vars, pc # "idle" PROVE UNCHANGED local
BY DEF Next, MainStep, Environment, WorkerStep,
    FetchSnapshot, SkipFetch, ScanFile, ScanError, PrepareSkip, PrepareUpload, RecordFuture,
    EndSkip, EndDrain, EndScan, EndSettle, TakeResult, CompleteUpload, Checkpoint, SaveFails,
    SkipPrune, FlagStale, TrashStale, EndTrash, ApplyTrash, FinalCheckpoint, UploadSnapshot,
    CancelQueued, HandlerCheckpoint, HandlerApply, Shutdown, Start, Interrupt, Crash, LoseManifest,
    Write, Purge, StartJob, EncryptFile, UpdateKnown, FindByName, OverwriteFound, CreateFile,
    DigestPlaintext, TrashReplaced, Reconcile, CallFails, AnswerLost, CreateAgain, TrashCall,
    vars, env

\* A step of a run leaves the content of a file's own copy, or makes it that of now.
LEMMA CopyStays ==
    ASSUME Before, InjectiveNames, NEW History, SkipInv(History), [Next]_vars,
           NEW f \in Files, NEW id \in DOMAIN drive, Own(f, id)
    PROVE  /\ id \in DOMAIN drive'
           /\ drive'[id].content = drive[id].content \/ drive'[id].content = local[f].content
<1>1. ASSUME NEW g \in Files, WorkerStep(g)
      PROVE  /\ id \in DOMAIN drive'
             /\ drive'[id].content = drive[id].content \/ drive'[id].content = local[f].content
  <2>1. DriveWorked(g)
    BY <1>1, WorkerDrive DEF SkipInv
  <2>2. Own(g, id) => f = g
    BY DEF Own, InjectiveNames
  <2> QED BY <2>1, <2>2 DEF DriveWorked
<1>2. CASE MainStep \/ Environment \/ UNCHANGED vars
  <2>1. UNCHANGED drive
    BY <1>2, OthersOn DEF Before, SkipInv
  <2> QED BY <2>1
<1> QED BY <1>1, <1>2 DEF Next

\* What is covered stays so while its entry does.
LEMMA CoveredStays ==
    ASSUME IInv, InjectiveNames, NEW History, SkipInv(History), [Next]_vars, UNCHANGED local,
           NEW f \in Files, Covered(f), mem'[f] = mem[f]
    PROVE  Covered(f)'
<1>1. Before /\ mem[f] \in Entry
  BY KnownIds DEF IInv, Before, Covered
<1>2. mem[f].id \in DOMAIN drive /\ Own(f, mem[f].id)
  <2>1. Tracks(f, mem[f].id, mem[f].encrypted) /\ mem[f].encrypted \in BOOLEAN
    BY <1>1 DEF IInv, ManifestTracksOwnFile, OwnCopies, Covered, Entry
  <2> QED BY <2>1 DEF Own, Tracks
<1>3. drive'[mem[f].id].content = local[f].content
  BY <1>1, <1>2, CopyStays DEF Covered
<1> QED BY <1>3 DEF Covered

LEMMA JobsHoldNext ==
    ASSUME IInv, InjectiveNames, ~WritesDuringRun, NothingLeft, NEW History, Follows(History),
           SkipInv(History), JobsHold, [Next]_vars
    PROVE  JobsHold'
<1> SUFFICES ASSUME NEW f \in Files, job'[f].st \in {"digest", "done"}
             PROVE  drive'[job'[f].id].content = local'[f].content
  BY DEF JobsHold
<1>0. Before /\ TypeOK /\ CurIsFile /\ job \in [Files -> Job] /\ drive \in Seq(DriveFile)
  BY DEF IInv, Before, TypeOK
<1>1. ASSUME job[f].st \in {"digest", "done"}, job'[f].id = job[f].id
      PROVE  drive'[job'[f].id].content = local'[f].content
  <2>1. job[f].id \in DOMAIN drive /\ Own(f, job[f].id)
    <3>1. job[f].id # 0 /\ job[f].id \in DOMAIN drive /\ job[f].encrypted \in BOOLEAN
      BY <1>0, <1>1, IdFact DEF NeedId, Ids, Job
    <3> QED BY <1>0, <3>1 DEF Own, Before, JobsTrack, Tracks
  <2>2. UNCHANGED local
    BY <1>1, StillWhileRunning DEF NothingLeft, Submitted
  <2> QED BY <1>0, <1>1, <2>1, <2>2, CopyStays DEF JobsHold
<1>2. CASE job'[f] = job[f]
  BY <1>1, <1>2
<1>3. ASSUME NEW g \in Files, WorkerStep(g) PROVE drive'[job'[f].id].content = local'[f].content
  <2>1. CASE g = f
    <3>1. UNCHANGED local
      BY <1>0, <1>3, <2>1, WorkerJob, StillWhileRunning DEF JobWorked, Ended, NothingLeft, Submitted
    <3>2. Uploads(f)
      BY <1>0, <1>3, <2>1, WorkerDrive, WorkerFits DEF SkipInv
    <3> QED BY <1>1, <3>1, <3>2 DEF Uploads
  <2>2. CASE g # f
    BY <1>0, <1>2, <1>3, <2>2, WorkerJob
  <2> QED BY <2>1, <2>2
<1>4. CASE MainStep \/ Environment \/ UNCHANGED vars
  <2>1. NoJob.st = "none" /\ Work(f).st = "queued"
    BY DEF NoJob, Work
  <2>2. [NoJob EXCEPT !.st = "prune", !.id = mem[f].id, !.encrypted = mem[f].encrypted].st = "prune"
    BY DEF NoJob
  <2> QED BY <1>0, <1>2, <1>4, <2>1, <2>2, JobSteps
<1> QED BY <1>3, <1>4 DEF Next

\* The manifest file follows the one in memory.
LEMMA SavedNext ==
    ASSUME IInv, Saved, ExitIsLast, [Next]_vars PROVE Saved'
<1>0. Before /\ TypeOK /\ mem # Missing /\ EmptyManifest # Missing
  BY EmptyType DEF IInv, Before, TypeOK
<1>1. ASSUME UNCHANGED <<mem, disk, dirty, pc, exit>> PROVE Saved'
  BY <1>1 DEF Saved
<1>2. ASSUME UNCHANGED <<mem, disk, dirty>>, pc # "idle", pc' \notin {"upload", "shutdown"}
      PROVE  Saved'
  BY <1>2 DEF Saved
<1>3. ASSUME UNCHANGED <<mem, disk, dirty>>, pc # "idle", pc' = "shutdown", exit' # "ok"
      PROVE  Saved'
  BY <1>3 DEF Saved
<1>4. ASSUME dirty' = TRUE, pc' \notin {"upload", "shutdown"} PROVE Saved'
  BY <1>4 DEF Saved
<1>5. ASSUME NEW f \in Files, ApplyResult(f), UNCHANGED <<disk, pc>>, pc \in UploadPhase \cup HandlerPhase
      PROVE  Saved'
  <2>1. CASE job[f].st \in {"done", "leftover"}
    <3>1. dirty' = TRUE
      BY <1>5, <2>1 DEF ApplyResult
    <3> QED BY <1>4, <1>5, <3>1 DEF UploadPhase, HandlerPhase
  <2>2. CASE job[f].st \notin {"done", "leftover"}
    <3>1. UNCHANGED <<mem, dirty>>
      BY <1>5, <2>2, Zenon DEF ApplyResult
    <3> QED BY <1>2, <1>5, <3>1 DEF UploadPhase, HandlerPhase
  <2> QED BY <2>1, <2>2
<1>6. CASE MainStep
  <2> USE DEF env, main, pool
  <2>1. CASE FetchSnapshot
    BY <2>1 DEF FetchSnapshot, Saved
  <2>2. ASSUME NEW f \in Files, ScanFile(f) \/ ScanError(f) PROVE Saved'
    BY <1>2, <2>2 DEF ScanFile, ScanError
  <2>3. CASE \/ SkipFetch \/ PrepareSkip \/ PrepareUpload \/ RecordFuture \/ EndSkip \/ EndDrain
             \/ EndScan \/ EndSettle \/ SkipPrune \/ TrashStale \/ EndTrash \/ CancelQueued
    BY <1>2, <2>3
    DEF SkipFetch, PrepareSkip, PrepareUpload, RecordFuture, EndSkip, EndDrain, EndScan, EndSettle,
        SkipPrune, TrashStale, EndTrash, CancelQueued
  <2>4. ASSUME NEW f \in Files, TakeResult(f) PROVE Saved'
    BY <1>1, <2>4 DEF TakeResult
  <2>5. CASE CompleteUpload
    <3>1. taken \in Files /\ ApplyResult(taken) /\ UNCHANGED <<disk, pc>> /\ pc \in UploadPhase
      BY <1>0, <2>5 DEF CompleteUpload, TypeOK, UploadPhase
    <3> QED BY <1>5, <3>1
  <2>6. ASSUME NEW f \in Files, HandlerApply(f) PROVE Saved'
    BY <1>5, <2>6 DEF HandlerApply, HandlerPhase
  <2>7. CASE Checkpoint
    BY <1>0, <2>7 DEF Checkpoint, Saved
  <2>8. CASE SaveFails
    BY <1>3, <2>8 DEF SaveFails
  <2>9. CASE FlagStale
    <3>1. CASE \A f \in Files : mem[f] = NoEntry \/ Present(f) \/ mem[f].pruned
      <4>1. mem' = mem
        <5>1. mem' = [f \in Files |-> mem[f]]
          BY <2>9, <3>1 DEF FlagStale, StaleEntries
        <5> QED BY <1>0, <5>1 DEF TypeOK, Manifest
      <4>2. dirty' = dirty
        BY <1>0, <2>9, <3>1 DEF FlagStale, StaleEntries, TypeOK
      <4> QED BY <1>2, <2>9, <4>1, <4>2 DEF FlagStale
    <3>2. CASE ~\A f \in Files : mem[f] = NoEntry \/ Present(f) \/ mem[f].pruned
      <4>1. dirty' = TRUE
        BY <1>0, <2>9, <3>2 DEF FlagStale, StaleEntries, TypeOK
      <4> QED BY <1>4, <2>9, <4>1 DEF FlagStale
    <3> QED BY <3>1, <3>2
  <2>10. ASSUME NEW f \in Files, ApplyTrash(f) PROVE Saved'
    BY <1>2, <1>4, <2>10 DEF ApplyTrash
  <2>11. CASE FinalCheckpoint
    BY <1>0, <2>11 DEF FinalCheckpoint, Saved, TypeOK
  <2>12. CASE UploadSnapshot
    BY <2>12 DEF UploadSnapshot, Saved
  <2>13. CASE HandlerCheckpoint
    <3>1. exit' # "ok"
      BY <2>13 DEF HandlerCheckpoint, ExitIsLast
    <3> QED BY <1>0, <2>13, <3>1 DEF HandlerCheckpoint, Saved, TypeOK
  <2>14. CASE Shutdown
    BY <2>14 DEF Shutdown, Saved
  <2> QED
    BY <1>6, <2>1, <2>2, <2>3, <2>4, <2>5, <2>6, <2>7, <2>8, <2>9, <2>10, <2>11, <2>12, <2>13,
       <2>14
    DEF MainStep
<1>7. ASSUME NEW f \in Files, WorkerStep(f) PROVE Saved'
  BY <1>1, <1>7
  DEF WorkerStep, StartJob, EncryptFile, UpdateKnown, FindByName, OverwriteFound, CreateFile,
      DigestPlaintext, TrashReplaced, Reconcile, CallFails, AnswerLost, CreateAgain, TrashCall, main,
      env
<1>8. CASE Environment
  <2>1. ASSUME NEW o \in Options, Start(o) PROVE Saved'
    BY <2>1 DEF Start, Saved, env
  <2>2. CASE Interrupt
    BY <1>2, <1>3, <2>2 DEF Interrupt, env
  <2>3. CASE Crash
    BY <2>3 DEF Crash, Saved
  <2>4. CASE LoseManifest
    BY <2>4 DEF LoseManifest, Saved, main
  <2>5. CASE (\E f \in Files : Write(f)) \/ (\E i \in DOMAIN drive : Purge(i))
    BY <1>1, <2>5 DEF Write, Purge, main
  <2> QED BY <1>8, <2>1, <2>2, <2>3, <2>4, <2>5 DEF Environment
<1>9. CASE UNCHANGED vars
  BY <1>1, <1>9 DEF vars, env, main
<1> QED BY <1>6, <1>7, <1>8, <1>9 DEF Next

\* The exit code is set last.
LEMMA ExitNext ==
    ASSUME TypeOK, ExitIsLast, [Next]_vars PROVE ExitIsLast'
<1> SUFFICES ASSUME exit' = "ok", pc' # "idle" PROVE pc' = "shutdown" /\ errors' = {}
  BY DEF ExitIsLast
<1>1. pc' = "shutdown"
  <2>1. CASE exit = "ok" /\ pc # "idle"
    <3>1. pc = "shutdown"
      BY <2>1 DEF ExitIsLast
    <3>2. pc' \in {"shutdown", "idle"}
      BY <3>1
      DEF Next, MainStep, Environment, WorkerStep,
        FetchSnapshot, SkipFetch, ScanFile, ScanError, PrepareSkip, PrepareUpload, RecordFuture,
        EndSkip, EndDrain, EndScan, EndSettle, TakeResult, CompleteUpload, Checkpoint, SaveFails,
        SkipPrune, FlagStale, TrashStale, EndTrash, ApplyTrash, FinalCheckpoint, UploadSnapshot,
        CancelQueued, HandlerCheckpoint, HandlerApply, Shutdown, Start, Interrupt, Crash,
        LoseManifest, Write, Purge, StartJob, EncryptFile, UpdateKnown, FindByName, OverwriteFound,
        CreateFile, DigestPlaintext, TrashReplaced, Reconcile, CallFails, AnswerLost, CreateAgain,
        TrashCall, vars, main
    <3> QED BY <3>2
  <2> QED BY <2>1, PhaseSteps
<1> QED BY <1>1, PhaseSteps DEF ExitIsLast

\* The scan is over when the last uploads are waited for.
LEMMA ScannedNext ==
    ASSUME Scanned, [Next]_vars PROVE Scanned'
BY DEF Scanned, Next, MainStep, Environment, WorkerStep,
    FetchSnapshot, SkipFetch, ScanFile, ScanError, PrepareSkip, PrepareUpload, RecordFuture,
    EndSkip, EndDrain, EndScan, EndSettle, TakeResult, CompleteUpload, Checkpoint, SaveFails,
    SkipPrune, FlagStale, TrashStale, EndTrash, ApplyTrash, FinalCheckpoint, UploadSnapshot,
    CancelQueued, HandlerCheckpoint, HandlerApply, Shutdown, Start, Interrupt, Crash, LoseManifest,
    Write, Purge, StartJob, EncryptFile, UpdateKnown, FindByName, OverwriteFound, CreateFile,
    DigestPlaintext, TrashReplaced, Reconcile, CallFails, AnswerLost, CreateAgain, TrashCall,
    vars, main

\* A file is prepared as it was scanned.
LEMMA CurIsNowNext ==
    ASSUME ~WritesDuringRun, CurIsNow, [Next]_vars PROVE CurIsNow'
<1> SUFFICES ASSUME pc' = "prepare" PROVE cur'.mtime = local'[cur'.file].mtime
  BY DEF CurIsNow
<1>1. ASSUME NEW f \in Files, ScanFile(f) PROVE cur'.mtime = local'[cur'.file].mtime
  <2>1. cur' = [file |-> f, size |-> Size[local[f].content], mtime |-> local[f].mtime] /\ local' = local
    BY <1>1 DEF ScanFile, env
  <2> QED BY <2>1
<1>2. UNCHANGED <<pc, cur>> \/ \E f \in Files : ScanFile(f)
  BY DEF Next, MainStep, Environment, WorkerStep,
    FetchSnapshot, SkipFetch, ScanFile, ScanError, PrepareSkip, PrepareUpload, RecordFuture,
    EndSkip, EndDrain, EndScan, EndSettle, TakeResult, CompleteUpload, Checkpoint, SaveFails,
    SkipPrune, FlagStale, TrashStale, EndTrash, ApplyTrash, FinalCheckpoint, UploadSnapshot,
    CancelQueued, HandlerCheckpoint, HandlerApply, Shutdown, Start, Interrupt, Crash, LoseManifest,
    Write, Purge, StartJob, EncryptFile, UpdateKnown, FindByName, OverwriteFound, CreateFile,
    DigestPlaintext, TrashReplaced, Reconcile, CallFails, AnswerLost, CreateAgain, TrashCall,
    vars, main
<1>3. CASE UNCHANGED <<pc, cur>>
  BY <1>3, StillWhileRunning DEF CurIsNow
<1> QED BY <1>1, <1>2, <1>3

\* What was popped stays finished until it is applied.
LEMMA TakenNext ==
    ASSUME Before, TakenIsDone, NothingLeft, [Next]_vars PROVE TakenIsDone'
<1> DEFINE Goal == pc' \in {"drain", "settle"} /\ job'[taken'].st \in Finished
<1> SUFFICES ASSUME taken' # NoFile PROVE Goal
  BY DEF TakenIsDone
<1>0. TypeOK /\ CurIsFile /\ job \in [Files -> Job]
  BY DEF Before, TypeOK
<1>1. ASSUME NEW f \in Files, TakeResult(f) PROVE Goal
  BY <1>1 DEF TakeResult, main
<1>2. CASE UNCHANGED <<taken, job, pc>>
  BY <1>2 DEF TakenIsDone
<1>3. ASSUME NEW f \in Files, WorkerStep(f) PROVE Goal
  <2>1. job[f].st \notin Finished /\ taken' = taken /\ pc' = pc
    BY <1>3 DEF WorkerStep, StartJob, EncryptFile, UpdateKnown, FindByName, OverwriteFound,
      CreateFile, DigestPlaintext, TrashReplaced, Reconcile, CallFails, AnswerLost,
      CreateAgain, TrashCall, Running, Finished, GiveUp, pool, main
  <2>2. taken \in Files /\ taken # f
    BY <1>0, <2>1 DEF TakenIsDone, TypeOK
  <2> QED BY <1>0, <1>3, <2>1, <2>2, WorkerJob DEF TakenIsDone
<1>4. CASE MainStep
  <2>1. CASE pc \in {"drain", "settle"} /\ taken # NoFile
    BY <1>1, <1>2, <1>4, <2>1
    DEF MainStep, FetchSnapshot, SkipFetch, ScanFile, ScanError, PrepareSkip, PrepareUpload,
        RecordFuture, EndSkip, EndDrain, EndScan, EndSettle, CompleteUpload, Checkpoint, SaveFails,
        SkipPrune, FlagStale, TrashStale, EndTrash, ApplyTrash, FinalCheckpoint, UploadSnapshot,
        CancelQueued, HandlerCheckpoint, HandlerApply, Shutdown, pool
  <2>2. CASE taken = NoFile
    <3>1. taken' = NoFile \/ \E f \in Files : TakeResult(f)
      BY <1>4, <2>2
      DEF MainStep, FetchSnapshot, SkipFetch, ScanFile, ScanError, PrepareSkip, PrepareUpload,
          RecordFuture, EndSkip, EndDrain, EndScan, EndSettle, CompleteUpload, Checkpoint, SaveFails,
          SkipPrune, FlagStale, TrashStale, EndTrash, ApplyTrash, FinalCheckpoint, UploadSnapshot,
          CancelQueued, HandlerCheckpoint, HandlerApply, Shutdown, pool
    <3> QED BY <1>1, <3>1
  <2> QED BY <2>1, <2>2 DEF TakenIsDone
<1>5. CASE Environment \/ UNCHANGED vars
  <2>1. CASE UNCHANGED vars
    BY <1>2, <2>1 DEF vars, main, pool
  <2>2. CASE Environment
    BY <1>2, <2>2 DEF Environment, Start, Interrupt, Crash, LoseManifest, Write, Purge, pool, main,
                      TakenIsDone
  <2> QED BY <1>5, <2>1, <2>2
<1> QED BY <1>3, <1>4, <1>5 DEF Next

\* While a run lasts, only its own result touches the entry of a file that is there.
LEMMA EntryOfRun ==
    ASSUME Before, NEW History, SkipInv(History), [Next]_vars, pc \notin {"idle", "load"},
           pc' # "idle", NEW f \in Files, Present(f)
    PROVE  \/ mem'[f] = mem[f]
           \/ ApplyResult(f) /\ (HandlerApply(f) \/ (CompleteUpload /\ taken = f))
<1>0. TypeOK /\ job[f].st # "pruned"
  BY DEF Before, SkipInv, JobFits, Pruning
<1>1. CASE TakenOver
  <2>1. ~Reloads
    BY DEF Reloads, FetchSnapshot, Crash, Start
  <2> QED BY <1>1, <2>1 DEF TakenOver
<1>2. CASE Marked
  BY <1>0, <1>2 DEF Marked
<1>3. ASSUME NEW g \in Files, ApplyResult(g), HandlerApply(g) \/ (CompleteUpload /\ taken = g)
      PROVE  \/ mem'[f] = mem[f]
             \/ ApplyResult(f) /\ (HandlerApply(f) \/ (CompleteUpload /\ taken = f))
  BY <1>3, Applied
<1> QED BY <1>0, <1>1, <1>2, <1>3, ManifestSteps

\* The result of a present file covers it, or counts as an error.
LEMMA ResultCovers ==
    ASSUME Before, NEW History, SkipInv(History), JobsHold, TakenIsDone, CompleteUpload,
           NEW f \in Files, taken = f, Present(f)
    PROVE  "file" \in errors' \/ Covered(f)'
<1>0. taken # NoFile
  BY FilesAssumption
<1>1. /\ ApplyResult(f) /\ UNCHANGED <<local, drive>> /\ job[f].st \in Finished \ {"leftover"}
  BY <1>0 DEF CompleteUpload, TakenIsDone, SkipInv, JobFits, env
<1>2. CASE job[f].st = "done"
  <2>1. Recorded(f)
    BY <1>1, <1>2, Applied
  <2>2. mem'[f] # NoEntry /\ ~mem'[f].pruned /\ mem'[f].id = job[f].id
    BY <2>1, MarkerAssumption DEF Recorded
  <2>3. drive[job[f].id].content = local[f].content
    BY <1>2 DEF JobsHold
  <2>4. mem'[f] # NoEntry /\ ~mem'[f].pruned /\ drive'[mem'[f].id].content = local'[f].content
    BY <1>1, <2>2, <2>3
  <2> QED BY <2>4 DEF Covered
<1>3. CASE job[f].st \in {"failed", "vanished"}
  BY <1>1, <1>3 DEF ApplyResult
<1> QED BY <1>1, <1>2, <1>3 DEF Finished


\* A file that waits for its scan, or was scanned, is passed on.
LEMMA Handed ==
    ASSUME TypeOK, CurIsFile, [Next]_vars, pc \in UploadPhase, pc' \in UploadPhase,
           "file" \notin errors', NEW f \in Files, Present(f)
    PROVE  /\ f \in toScan => f \in toScan' \/ (pc' = "prepare" /\ cur'.file = f)
           /\ pc = "prepare" /\ cur.file = f =>
                  \/ pc' = "prepare" /\ cur'.file = f
                  \/ PrepareSkip
                  \/ PrepareUpload /\ job'[f].st # "none"
<1> DEFINE Goal ==
      /\ f \in toScan => f \in toScan' \/ (pc' = "prepare" /\ cur'.file = f)
      /\ pc = "prepare" /\ cur.file = f =>
             \/ pc' = "prepare" /\ cur'.file = f
             \/ PrepareSkip
             \/ PrepareUpload /\ job'[f].st # "none"
<1>1. ASSUME UNCHANGED toScan, UNCHANGED <<pc, cur>> \/ pc # "prepare" PROVE Goal
  BY <1>1
<1>2. CASE MainStep
  <2>1. ASSUME NEW g \in Files, ScanFile(g) PROVE Goal
    <3>1. CASE Present(g)
      <4>1. /\ toScan' = toScan \ {g} /\ pc = "scan" /\ pc' = "prepare"
            /\ cur' = [file |-> g, size |-> Size[local[g].content], mtime |-> local[g].mtime]
        BY <2>1, <3>1 DEF ScanFile
      <4>2. cur'.file = g
        BY <4>1
      <4> QED BY <4>1, <4>2
    <3>2. CASE ~Present(g)
      <4>1. toScan' = toScan \ {g} /\ pc = "scan" /\ g # f
        BY <2>1, <3>2 DEF ScanFile
      <4> QED BY <4>1
    <3> QED BY <3>1, <3>2
  <2>2. ASSUME NEW g \in Files, ScanError(g) PROVE Goal
    BY <2>2 DEF ScanError
  <2>3. CASE PrepareSkip
    BY <2>3 DEF PrepareSkip
  <2>4. CASE PrepareUpload
    <3>1. pc = "prepare" /\ toScan' = toScan /\ job' = [job EXCEPT ![cur.file] = Work(cur.file)]
      BY <2>4 DEF PrepareUpload
    <3>2. cur.file = f => job'[f].st = "queued"
      BY <3>1 DEF TypeOK, Work
    <3> QED BY <2>4, <3>1, <3>2
  <2>5. CASE MainStep /\ ~PrepareSkip /\ ~PrepareUpload /\ \A g \in Files : ~ScanFile(g) /\ ~ScanError(g)
    <3>1. UNCHANGED toScan /\ (pc # "prepare" \/ UNCHANGED <<pc, cur>>)
      BY <2>5
      DEF MainStep, FetchSnapshot, SkipFetch, RecordFuture, EndSkip, EndDrain, EndScan, EndSettle,
          TakeResult, CompleteUpload, Checkpoint, SaveFails, SkipPrune, FlagStale, TrashStale,
          EndTrash, ApplyTrash, FinalCheckpoint, UploadSnapshot, CancelQueued, HandlerCheckpoint,
          HandlerApply, Shutdown, main, UploadPhase
    <3> QED BY <1>1, <3>1
  <2> QED BY <1>2, <2>1, <2>2, <2>3, <2>4, <2>5
<1>3. ASSUME NEW g \in Files, WorkerStep(g) PROVE Goal
  BY <1>1, <1>3
  DEF WorkerStep, StartJob, EncryptFile, UpdateKnown, FindByName, OverwriteFound, CreateFile,
      DigestPlaintext, TrashReplaced, Reconcile, CallFails, AnswerLost, CreateAgain, TrashCall, main
<1>4. CASE Environment
  BY <1>1, <1>4
  DEF Environment, Start, Interrupt, Crash, LoseManifest, Write, Purge, main, UploadPhase
<1>5. CASE UNCHANGED vars
  BY <1>1, <1>5 DEF vars, main
<1> QED BY <1>2, <1>3, <1>4, <1>5 DEF Next

\* A job of the upload phase stays until its result is applied.
LEMMA JobOfRun ==
    ASSUME Before, TakenIsDone, [Next]_vars, pc \in UploadPhase, pc' \in UploadPhase,
           NEW f \in Files, job[f].st # "none"
    PROVE  job'[f].st # "none" \/ (CompleteUpload /\ taken = f)
<1> DEFINE Goal == job'[f].st # "none" \/ (CompleteUpload /\ taken = f)
<1>0. TypeOK /\ CurIsFile /\ job \in [Files -> Job]
  BY DEF Before, TypeOK
<1>1. CASE UNCHANGED job
  BY <1>1
<1>2. CASE PrepareUpload
  <2>1. job' = [job EXCEPT ![cur.file] = Work(cur.file)]
    BY <1>2 DEF PrepareUpload
  <2>2. Work(f).st = "queued"
    BY DEF Work
  <2> QED BY <1>0, <2>1, <2>2
<1>3. CASE CompleteUpload
  <2>1. job' = [job EXCEPT ![taken] = NoJob]
    BY <1>3 DEF CompleteUpload, ApplyResult
  <2> QED BY <1>0, <1>3, <2>1
<1>4. ASSUME NEW g \in Files, WorkerStep(g) PROVE Goal
  <2> SUFFICES job'[g].st # "none"
    BY <1>0, <1>1, <1>4, WorkerJob
  <2>1. ASSUME NEW st, Goto(g, st), st # "none" PROVE job'[g].st # "none"
    BY <1>0, <2>1 DEF Goto, Job
  <2>2. \A st \in GiveUp(job[g].st) : st # "none"
    BY DEF GiveUp
  <2>3. CASE StartJob(g) \/ FindByName(g) \/ Reconcile(g) \/ DigestPlaintext(g)
    BY <1>0, <2>3 DEF StartJob, FindByName, Reconcile, DigestPlaintext, Goto, Job
  <2>4. CASE CallFails(g) \/ AnswerLost(g)
    BY <2>1, <2>2, <2>4 DEF CallFails, AnswerLost
  <2>5. CASE CreateAgain(g)
    BY <2>5 DEF CreateAgain, pool
  <2>6. CASE EncryptFile(g) \/ TrashReplaced(g) \/ TrashCall(g)
    BY <1>0, <2>6 DEF EncryptFile, TrashReplaced, TrashCall, Goto, Job
  <2>7. ASSUME NEW id, NEW c, job' = [job EXCEPT ![g] = PutDone(g, id, c)]
        PROVE  job'[g].st # "none"
    BY <1>0, <2>7 DEF PutDone, Job
  <2>8. CASE UpdateKnown(g)
    <3>1. CASE job' = [job EXCEPT ![g].st = "find", ![g].id = 0]
      BY <1>0, <3>1 DEF Job
    <3> QED BY <2>1, <2>7, <2>8, <3>1 DEF UpdateKnown
  <2>9. CASE OverwriteFound(g) \/ CreateFile(g)
    BY <2>1, <2>7, <2>9 DEF OverwriteFound, CreateFile
  <2> QED BY <1>4, <2>3, <2>4, <2>5, <2>6, <2>8, <2>9 DEF WorkerStep
<1>5. CASE MainStep /\ ~PrepareUpload /\ ~CompleteUpload
  <2>1. UNCHANGED job
    BY <1>5
    DEF MainStep, FetchSnapshot, SkipFetch, ScanFile, ScanError, PrepareSkip, RecordFuture, EndSkip,
        EndDrain, EndScan, EndSettle, TakeResult, Checkpoint, SaveFails, SkipPrune, FlagStale,
        TrashStale, EndTrash, ApplyTrash, FinalCheckpoint, UploadSnapshot, CancelQueued,
        HandlerCheckpoint, HandlerApply, Shutdown, pool, UploadPhase
  <2> QED BY <1>1, <2>1
<1>6. CASE Environment \/ UNCHANGED vars
  BY <1>1, <1>6
  DEF Environment, Start, Interrupt, Crash, LoseManifest, Write, Purge, pool, vars, UploadPhase
<1> QED BY <1>2, <1>3, <1>4, <1>5, <1>6 DEF Next


\* A skipped file is covered.
LEMMA SkippedCovered ==
    ASSUME TypeOK, CurIsFile, NEW History, NothingComesBack(History), SkipInv(History),
           Follows(History), CurIsNow, PrepareSkip, NEW f \in Files, cur.file = f
    PROVE  Covered(f)
<1>1. pc = "prepare" /\ ~MustUpload /\ local[f].mtime = cur.mtime
  BY DEF PrepareSkip, CurIsNow
<1>2. BackedUp(f, mem)
  BY <1>1, SkippedBackedUp DEF SkipIsBackedUp
<1>3. ~mem[f].pruned
  BY <1>1 DEF MustUpload, NeedsUpload
<1> QED BY <1>2, <1>3 DEF BackedUp, Covered

LEMMA ScanningNext ==
    ASSUME IInv, InjectiveNames, ~WritesDuringRun, NEW History, NothingComesBack(History),
           Follows(History), SkipInv(History), RunInv, [Next]_vars
    PROVE  Scanning'
<1> SUFFICES ASSUME pc' \in UploadPhase, "file" \notin errors', NEW f \in Files, local'[f].content # Absent
             PROVE  \/ f \in toScan'
                    \/ pc' = "prepare" /\ cur'.file = f
                    \/ job'[f].st # "none"
                    \/ Covered(f)'
  BY DEF Scanning, Present
<1>0. Before /\ TypeOK /\ CurIsFile
  BY DEF IInv, Before
<1>1. CASE FetchSnapshot \/ SkipFetch
  BY <1>1 DEF FetchSnapshot, SkipFetch
<1>2. CASE pc \in UploadPhase
  <2>1. pc \notin {"idle", "load"} /\ pc' # "idle" /\ pc # "handler"
    BY <1>2 DEF UploadPhase
  <2>2. UNCHANGED local /\ Present(f)
    BY <2>1, StillWhileRunning DEF Present
  <2>3. "file" \notin errors
    BY <1>0, <2>1, PhaseSteps
  <2>4. ~(CompleteUpload /\ taken = f) \/ Covered(f)'
    BY <1>0, <2>2, ResultCovers DEF RunInv
  <2>5. ASSUME Covered(f) PROVE Covered(f)'
    <3>1. mem'[f] = mem[f] \/ (CompleteUpload /\ taken = f)
      BY <1>0, <2>1, <2>2, EntryOfRun DEF HandlerApply
    <3> QED BY <2>2, <2>4, <2>5, <3>1, CoveredStays
  <2>6. CASE f \in toScan
    BY <1>0, <1>2, <2>2, <2>6, Handed
  <2>7. CASE pc = "prepare" /\ cur.file = f
    <3>1. PrepareSkip => Covered(f)
      BY <1>0, <2>7, SkippedCovered DEF RunInv
    <3> QED BY <1>0, <1>2, <2>2, <2>5, <2>7, <3>1, Handed
  <2>8. CASE job[f].st # "none"
    BY <1>0, <1>2, <2>4, <2>8, JobOfRun DEF RunInv
  <2> QED BY <1>2, <2>2, <2>3, <2>5, <2>6, <2>7, <2>8 DEF RunInv, Scanning
<1> QED BY <1>0, <1>1, <1>2, PhaseSteps

LEMMA ClosingNext ==
    ASSUME IInv, HeldInv, InjectiveNames, ~WritesDuringRun, NEW History, SkipInv(History), RunInv,
           [Next]_vars
    PROVE  Closing'
<1> SUFFICES ASSUME Late', "file" \notin errors', NEW f \in Files, local'[f].content # Absent
             PROVE  Covered(f)'
  BY DEF Closing, Present
<1>0. Before /\ TypeOK
  BY DEF IInv, Before
<1>1. CASE Late
  <2>1. pc \notin {"idle", "load", "handler", "drain", "settle"} /\ pc' # "idle"
    BY <1>1 DEF Late, ClosingPhase
  <2>2. UNCHANGED local /\ Present(f)
    BY <2>1, StillWhileRunning DEF Present
  <2>3. Covered(f)
    BY <1>0, <1>1, <2>1, <2>2, PhaseSteps DEF RunInv, Closing
  <2>4. mem'[f] = mem[f]
    BY <1>0, <2>1, <2>2, EntryOfRun DEF HandlerApply, CompleteUpload
  <2> QED BY <2>2, <2>3, <2>4, CoveredStays
<1>2. CASE EndSettle
  <2>1. /\ pc = "settle" /\ taken = NoFile /\ futures = {}
        /\ UNCHANGED <<local, drive, mem, errors, job>>
    BY <1>2 DEF EndSettle, env, pool
  <2>2. toScan = {} /\ job[f].st = "none"
    BY <2>1 DEF RunInv, Scanned, HeldInv, DrainHolds, Submitted
  <2>3. Covered(f)
    BY <2>1, <2>2 DEF RunInv, Scanning, UploadPhase, Present
  <2> QED BY <2>1, <2>3 DEF Covered
<1>3. Late \/ EndSettle
  BY <1>0, PhaseSteps DEF Late, RunInv, ExitIsLast, UploadSnapshot, ClosingPhase
<1> QED BY <1>1, <1>2, <1>3

LEMMA RunNext ==
    ASSUME IInv, HeldInv, InjectiveNames, ~WritesDuringRun, NEW History, NothingComesBack(History),
           Follows(History), SkipInv(History), RunInv, [Next]_vars
    PROVE  RunInv'
<1>0. Before /\ TypeOK /\ NothingLeft
  BY DEF IInv, Before, HeldInv
<1>1. Scanning' /\ Closing'
  BY ScanningNext, ClosingNext
<1>2. Scanned' /\ CurIsNow' /\ TakenIsDone'
  BY <1>0, ScannedNext, CurIsNowNext, TakenNext DEF RunInv
<1>3. JobsHold' /\ Saved' /\ ExitIsLast'
  BY <1>0, JobsHoldNext, SavedNext, ExitNext DEF RunInv
<1> QED BY <1>1, <1>2, <1>3 DEF RunInv

LEMMA RunInit == Init => RunInv
BY DEF Init, RunInv, Scanning, Closing, Scanned, CurIsNow, TakenIsDone, JobsHold, Saved, ExitIsLast,
       Late, UploadPhase, ClosingPhase, NoJob

\* A run that exits 0 leaves every file on Drive, live, with its present content, under
\* its own name and recorded on disk, if the profile rests while runs last, secrets keep
\* one form, no copy is deleted by hand or by --prune-trash, and no file returns to a
\* content it had before the last: whatever happened to that run and to earlier ones.
THEOREM OkRunsAreComplete ==
    ASSUME InjectiveNames, FixedEncryption, NoTrashRuns, ~WritesDuringRun, Budget["purge"] = 0,
           NEW History, NothingComesBack(History)
    PROVE  Spec /\ []Follows(History) => []OkRunIsComplete
<1>0. SecretsAtRest
  BY DEF SecretsAtRest
<1>1. IInv /\ FormInv /\ SkipInv(History) /\ RunInv => OkRunIsComplete
  <2> SUFFICES ASSUME IInv, FormInv, SkipInv(History), RunInv, pc = "shutdown", exit = "ok",
                      NEW f \in Files, Present(f)
               PROVE  /\ disk # Missing /\ BackedUp(f, disk)
                      /\ ~disk[f].pruned
                      /\ drive[disk[f].id].name = NameOf[<<f, Encrypted(f)>>]
    BY DEF OkRunIsComplete
  <2>1. Covered(f) /\ mem[f] # NoEntry
    BY DEF RunInv, ExitIsLast, Closing, Late, Covered
  <2>2. disk # Missing /\ disk = mem
    BY <2>1 DEF RunInv, Saved, EmptyManifest
  <2>3. Tracks(f, mem[f].id, mem[f].encrypted) /\ mem[f].encrypted = Encrypted(f)
    BY <2>1 DEF IInv, ManifestTracksOwnFile, OwnCopies, FormInv, ManifestsInForm, InForm
  <2>4. drive[mem[f].id].state = "live"
    BY <2>3 DEF SkipInv, AllLive, Tracks
  <2> QED BY <2>1, <2>2, <2>3, <2>4 DEF Covered, BackedUp, Tracks
<1>2. Init => FormInv
  BY KeepInit DEF KeepInv
<1>3. IInv /\ HeldInv /\ FormInv /\ [Next]_vars => FormInv'
  BY FormNext DEF IInv, Before
<1>4. Init => SkipInv(History)
  BY SkipInit
<1>5. IInv /\ HeldInv /\ FormInv /\ SkipInv(History) /\ Follows(History) /\ [Next]_vars
        => SkipInv(History)'
  BY <1>0, SkipNext
<1>6. IInv /\ HeldInv /\ SkipInv(History) /\ Follows(History) /\ RunInv /\ [Next]_vars => RunInv'
  BY RunNext
<1>7. Init => RunInv
  BY RunInit
<1> QED BY <1>1, <1>2, <1>3, <1>4, <1>5, <1>6, <1>7, HeldAlways, Invariance, PTL DEF Spec

-----------------------------------------------------------------------------
(* Every live copy is tracked, also when secrets change their form.        *)

\* The live copies of a file, under either of its names, and the one a manifest knows.
LiveOf(f) == Named(f, TRUE) \cup Named(f, FALSE)
Known(m, f) == IF m = Missing THEN {} ELSE IF m[f] = NoEntry THEN {} ELSE {m[f].id}

\* Nothing cuts a run short, and no Drive call fails or is repeated.
Harms == {"crash", "interrupt", "saveFault", "driveFault", "lostCreate"}
Unharmed == \A e \in Harms : budget[e] = 0

\* Memory knows the live copy of a file until its job has put one, then the job does.
AtRest == {"none", "queued", "encrypt", "update", "find", "overwrite", "create", "vanished",
           "failed", "prune"}
AtWork == {"queued", "encrypt", "update", "find", "overwrite", "create", "digest", "trash"}
JobKnows(f) ==
    LET j == job[f]
    IN  /\ j.st \in AtRest \cup AtWork \cup {"done", "pruned"}
        /\ j.st \in AtRest => LiveOf(f) \subseteq Known(mem, f)
        /\ j.st \in AtWork => LiveOf(f) \subseteq {j.id, j.replaced}
        /\ j.st \in {"find", "create"} => LiveOf(f) \subseteq {j.replaced}
        /\ j.st \in {"done", "prune"} => LiveOf(f) \subseteq {j.id}
        /\ j.st = "pruned" => LiveOf(f) = {}
JobsKnow == pc \notin {"idle", "load"} => \A f \in Files : JobKnows(f)

\* Between runs the manifest file, and the snapshot for when it is lost, know all.
FilesKnow ==
    /\ pc \in {"idle", "load"} =>
           \A f \in Files : /\ LiveOf(f) \subseteq Known(snapshot, f)
                            /\ disk # Missing => LiveOf(f) \subseteq Known(disk, f)
    /\ pc = "load" => mem = IF disk = Missing THEN EmptyManifest ELSE disk

\* What is saved in the end is what is in memory.
SavedLast ==
    /\ pc \notin {"idle", "load"} /\ ~dirty /\ disk # Missing => disk = mem
    /\ pc \in {"upload", "shutdown"} => disk = mem
    /\ pc = "shutdown" => snapshot = disk

\* A file has no job before it is scanned, and none once the uploads are over.
OneJobEach ==
    /\ pc \in UploadPhase => \A f \in toScan : job[f].st = "none"
    /\ pc = "prepare" => job[cur.file].st = "none" /\ cur.file \notin toScan
    /\ pc = "record" => cur.file \notin toScan
    /\ pc \in {"prune", "final", "upload", "shutdown"} => Submitted = {}
    /\ pc = "trash" => Submitted \subseteq futures
    /\ pc \notin HandlerPhase

TrackInv == Unharmed /\ TakenIsDone /\ JobsKnow /\ FilesKnow /\ SavedLast /\ OneJobEach

\* Harms stay away, and with them the steps they are spent on.
LEMMA UnharmedNext ==
    ASSUME TypeOK, Unharmed, [Next]_vars PROVE Unharmed'
<1>1. CASE UNCHANGED budget
  BY <1>1 DEF Unharmed
<1>2. ASSUME NEW e \in Events, Spend(e) PROVE Unharmed'
  BY <1>2 DEF Spend, Unharmed, TypeOK, Events, Harms
<1>3. CASE MainStep
  BY <1>1, <1>2, <1>3
  DEF MainStep, FetchSnapshot, SkipFetch, ScanFile, ScanError, PrepareSkip, PrepareUpload,
      RecordFuture, EndSkip, EndDrain, EndScan, EndSettle, TakeResult, CompleteUpload, Checkpoint,
      SaveFails, SkipPrune, FlagStale, TrashStale, EndTrash, ApplyTrash, FinalCheckpoint,
      UploadSnapshot, CancelQueued, HandlerCheckpoint, HandlerApply, Shutdown, Events
<1>4. ASSUME NEW f \in Files, WorkerStep(f) PROVE Unharmed'
  BY <1>1, <1>2, <1>4
  DEF WorkerStep, StartJob, EncryptFile, UpdateKnown, FindByName, OverwriteFound, CreateFile,
      DigestPlaintext, TrashReplaced, Reconcile, CallFails, AnswerLost, CreateAgain, TrashCall,
      Events
<1>5. CASE Environment
  BY <1>2, <1>5
  DEF Environment, Start, Interrupt, Crash, LoseManifest, Write, Purge, Events
<1> QED BY <1>1, <1>3, <1>4, <1>5 DEF Next, vars

\* What these steps then cannot be.
LEMMA NoHarm ==
    ASSUME Unharmed
    PROVE  /\ \A e \in Harms : ~Spend(e)
           /\ ~SaveFails /\ ~Interrupt /\ ~Crash
           /\ \A f \in Files : ~CallFails(f) /\ ~AnswerLost(f) /\ ~CreateAgain(f)
<1>1. \A e \in Harms : ~Spend(e)
  BY DEF Unharmed, Spend
<1> QED BY <1>1 DEF Harms, SaveFails, Interrupt, Crash, CallFails, AnswerLost, CreateAgain

\* A step that creates no file makes none live.
LEMMA NoneLiver ==
    ASSUME NothingCreated, NEW f PROVE LiveOf(f)' \subseteq LiveOf(f)
BY DEF NothingCreated, LiveOf, Named

\* Id 0 is no file's.
LEMMA ZeroIsNone == ASSUME TypeOK, NEW f PROVE 0 \notin LiveOf(f)
<1>1. DOMAIN drive = 1 .. Len(drive)
  BY LenProperties DEF TypeOK
<1> QED BY <1>1 DEF LiveOf, Named

\* A file that is created is a live copy of that one file.
LEMMA OneLiver ==
    ASSUME TypeOK, InjectiveNames, NEW f \in Files, Readable(f), drive' = Created(f, Payload(f)),
           NEW g \in Files
    PROVE  LiveOf(g)' \subseteq LiveOf(g) \cup (IF g = f THEN {Len(drive) + 1} ELSE {})
<1> DEFINE new == Created(f, Payload(f))
           name == NameOf[<<f, job[f].encrypted>>]
<1>1. /\ DOMAIN new = DOMAIN drive \cup {Len(drive) + 1}
      /\ \A i \in DOMAIN drive : new[i] = drive[i]
      /\ new[Len(drive) + 1].name = name
  <2>1. Payload(f) \in Contents /\ drive \in Seq(DriveFile) /\ job \in [Files -> Job]
    BY PayloadFact DEF TypeOK
  <2> QED BY <2>1, CreatedFact
<1>2. drive' = new
  OBVIOUS
<1>3. g # f => name # NameOf[<<g, TRUE>>] /\ name # NameOf[<<g, FALSE>>]
  <2>1. job[f].encrypted \in BOOLEAN
    BY DEF TypeOK, Job
  <2> QED BY <2>1 DEF InjectiveNames
<1> HIDE DEF new, name
<1> QED BY <1>1, <1>2, <1>3 DEF LiveOf, Named

\* A worker's step makes nothing live but a new copy of its own file.
LEMMA WorkerLiver ==
    ASSUME Before, Unharmed, InjectiveNames, NEW f \in Files, WorkerStep(f)
    PROVE  \/ NothingCreated
           \/ CreateFile(f) /\ Readable(f) /\ drive' = Created(f, Payload(f))
<1>0. TypeOK /\ drive \in Seq(DriveFile) /\ job \in [Files -> Job]
  BY DEF Before, TypeOK
<1>1. CASE UNCHANGED drive
  BY <1>1 DEF NothingCreated
<1>2. ASSUME NEW id \in DOMAIN drive, Readable(f), drive' = Overwritten(id, Payload(f))
      PROVE  NothingCreated
  <2> DEFINE new == Overwritten(id, Payload(f))
  <2>1. /\ DOMAIN new = DOMAIN drive
        /\ \A i \in DOMAIN drive : new[i].name = drive[i].name /\ new[i].state = drive[i].state
    BY <1>0, <1>2, PayloadFact, OverwrittenFact
  <2>2. drive' = new
    BY <1>2
  <2> HIDE DEF new
  <2> QED BY <2>1, <2>2 DEF NothingCreated
<1>3. ASSUME NEW id \in DOMAIN drive, drive' = Trashed(id)
      PROVE  NothingCreated
  <2> DEFINE new == Trashed(id)
  <2>1. /\ DOMAIN new = DOMAIN drive
        /\ \A i \in DOMAIN drive : /\ new[i].name = drive[i].name
                                   /\ new[i].state = "live" => drive[i].state = "live"
    BY <1>0, <1>3, TrashedFact
  <2>2. drive' = new
    BY <1>3
  <2> HIDE DEF new
  <2> QED BY <2>1, <2>2 DEF NothingCreated
<1>4. /\ job[f].st \in {"update", "overwrite", "prune"} => job[f].id \in DOMAIN drive
      /\ job[f].st = "trash" => job[f].replaced \in DOMAIN drive
  BY IdFact DEF NeedId, Pruning
<1>5. CASE StartJob(f) \/ EncryptFile(f) \/ FindByName(f) \/ DigestPlaintext(f) \/ Reconcile(f)
  BY <1>1, <1>5 DEF StartJob, EncryptFile, FindByName, DigestPlaintext, Reconcile, env
<1>6. CASE UpdateKnown(f) \/ OverwriteFound(f)
  BY <1>1, <1>2, <1>4, <1>6 DEF UpdateKnown, OverwriteFound
<1>7. CASE CreateFile(f)
  BY <1>1, <1>7 DEF CreateFile
<1>8. CASE TrashReplaced(f) \/ TrashCall(f)
  BY <1>1, <1>3, <1>4, <1>8 DEF TrashReplaced, TrashCall
<1> QED BY <1>5, <1>6, <1>7, <1>8, NoHarm DEF WorkerStep

\* A worker's step keeps its job in the know, and all others.
LEMMA WorkerKnows ==
    ASSUME Before, Unharmed, InjectiveNames, NEW f \in Files, WorkerStep(f), JobKnows(f)
    PROVE  JobKnows(f)'
<1>0. /\ TypeOK /\ drive \in Seq(DriveFile) /\ job \in [Files -> Job] /\ job[f] \in Job
      /\ job[f].id \in Nat /\ job[f].replaced \in Nat
  BY DEF Before, TypeOK, Job
<1>1. Known(mem, f)' = Known(mem, f)
  BY DEF WorkerStep, StartJob, EncryptFile, UpdateKnown, FindByName, OverwriteFound, CreateFile,
      DigestPlaintext, TrashReplaced, Reconcile, CallFails, AnswerLost, CreateAgain, TrashCall,
      main, Known
<1>2. 0 \notin LiveOf(f)
  BY <1>0, ZeroIsNone
<1>3. ~CreateFile(f) => LiveOf(f)' \subseteq LiveOf(f)
  BY WorkerLiver, NoneLiver
<1>4. job[f].st \in NeedId => job[f].id # 0
  BY IdFact DEF Ids
\* the job moves on: what its new state asks for
<1>a. ASSUME NEW st, Goto(f, st)
      PROVE  job'[f].st = st /\ job'[f].id = job[f].id /\ job'[f].replaced = job[f].replaced
  BY <1>0, <1>a DEF Goto, Job
<1>b. ASSUME NEW st \in {"update", "find"}, job'[f].st = st, job'[f].id = job[f].id,
             job'[f].replaced = job[f].replaced, st = "find" => job[f].id = 0,
             job[f].st \in {"queued", "encrypt"}, LiveOf(f)' \subseteq LiveOf(f)
      PROVE  JobKnows(f)'
  BY <1>1, <1>2, <1>b DEF JobKnows, AtRest, AtWork
<1>c. ASSUME Goto(f, "vanished") \/ Goto(f, "failed"), job[f].st \in AtRest,
             LiveOf(f)' \subseteq LiveOf(f)
      PROVE  JobKnows(f)'
  <2>1. job'[f].st \in {"vanished", "failed"}
    BY <1>a, <1>c
  <2> QED BY <1>1, <1>c, <2>1 DEF JobKnows, AtRest, AtWork
\* Drive has answered that the file is there
<1>d. ASSUME NEW id \in Ids, Readable(f), job'[f] = PutDone(f, id, Payload(f)),
             LiveOf(f)' \subseteq {id, job[f].replaced}, 0 \notin LiveOf(f)'
      PROVE  JobKnows(f)'
  <2>1. PICK st \in {"digest", "trash", "done"} :
           /\ job'[f] = [job[f] EXCEPT !.st = st, !.id = id, !.data = Payload(f)]
           /\ st = "done" => ~Replaces(job[f], id)
    BY <1>d, Zenon DEF PutDone
  <2>2. job'[f].st = st /\ job'[f].id = id /\ job'[f].replaced = job[f].replaced
    BY <1>0, <2>1 DEF Job
  <2>3. st = "done" => job[f].replaced \in {0, id}
    BY <2>1 DEF Replaces
  <2> QED BY <1>d, <2>2, <2>3 DEF JobKnows, AtRest, AtWork
<1>5. CASE StartJob(f)
  BY <1>3, <1>a, <1>5, <1>b, <1>1 DEF StartJob, CreateFile, JobKnows, AtRest, AtWork
<1>6. CASE EncryptFile(f)
  <2>1. CASE Present(f)
    <3>1. PICK st \in {"update", "find"} :
                /\ job' = [job EXCEPT ![f].data = local[f].content, ![f].st = st]
                /\ st = "find" => job[f].id = 0
      BY <1>6, <2>1 DEF EncryptFile
    <3>2. job'[f] = [job[f] EXCEPT !.data = local[f].content, !.st = st]
      BY <1>0, <3>1
    <3>3. job'[f].st = st /\ job'[f].id = job[f].id /\ job'[f].replaced = job[f].replaced
      BY <1>0, <3>2 DEF Job
    <3> QED BY <1>3, <1>6, <1>b, <3>1, <3>3 DEF EncryptFile, CreateFile
  <2> QED BY <1>3, <1>6, <1>c, <2>1 DEF EncryptFile, CreateFile, AtRest
<1>7. CASE UpdateKnown(f)
  <2>0. job[f].st = "update" /\ LiveOf(f)' \subseteq LiveOf(f)
    BY <1>3, <1>7 DEF UpdateKnown, CreateFile
  <2>1. CASE drive[job[f].id].state = "purged" /\ job' = [job EXCEPT ![f].st = "find", ![f].id = 0]
    <3>1. job'[f] = [job[f] EXCEPT !.st = "find", !.id = 0]
      BY <1>0, <2>1
    <3>2. job'[f].st = "find" /\ job'[f].id = 0 /\ job'[f].replaced = job[f].replaced
      BY <1>0, <3>1 DEF Job
    <3>3. job[f].id \notin LiveOf(f)
      BY <2>1 DEF LiveOf, Named
    <3> QED BY <1>1, <2>0, <3>2, <3>3 DEF JobKnows, AtRest, AtWork
  <2>2. CASE Readable(f) /\ job' = [job EXCEPT ![f] = PutDone(f, job[f].id, Payload(f))]
    <3>1. job'[f] = PutDone(f, job[f].id, Payload(f)) /\ job[f].id \in Ids
      BY <1>0, <1>4, <2>0, <2>2 DEF NeedId, Ids
    <3>2. LiveOf(f)' \subseteq {job[f].id, job[f].replaced}
      BY <2>0 DEF JobKnows, AtWork
    <3> QED BY <1>2, <1>d, <2>0, <2>2, <3>1, <3>2
  <2> QED BY <1>7, <1>c, <2>0, <2>1, <2>2 DEF UpdateKnown, AtRest
<1>8. CASE FindByName(f)
  <2>0. job[f].st = "find" /\ LiveOf(f)' \subseteq LiveOf(f)
    BY <1>3, <1>8 DEF FindByName, CreateFile
  <2>1. CASE Goto(f, "create")
    BY <1>1, <1>a, <2>0, <2>1 DEF JobKnows, AtRest, AtWork
  <2>2. ASSUME NEW i, job' = [job EXCEPT ![f].st = "overwrite", ![f].id = i] PROVE JobKnows(f)'
    <3>1. job'[f] = [job[f] EXCEPT !.st = "overwrite", !.id = i]
      BY <1>0, <2>2
    <3>2. job'[f].st = "overwrite" /\ job'[f].replaced = job[f].replaced
      BY <1>0, <3>1 DEF Job
    <3> QED BY <1>1, <2>0, <3>2 DEF JobKnows, AtRest, AtWork
  <2> QED BY <1>8, <2>1, <2>2 DEF FindByName
<1>9. CASE OverwriteFound(f)
  <2>0. job[f].st = "overwrite" /\ LiveOf(f)' \subseteq LiveOf(f)
    BY <1>3, <1>9 DEF OverwriteFound, CreateFile
  <2>2. CASE Readable(f) /\ job' = [job EXCEPT ![f] = PutDone(f, job[f].id, Payload(f))]
    <3>1. job'[f] = PutDone(f, job[f].id, Payload(f)) /\ job[f].id \in Ids
      BY <1>0, <1>4, <2>0, <2>2 DEF NeedId, Ids
    <3>2. LiveOf(f)' \subseteq {job[f].id, job[f].replaced}
      BY <2>0 DEF JobKnows, AtWork
    <3> QED BY <1>2, <1>d, <2>0, <2>2, <3>1, <3>2
  <2> QED BY <1>9, <1>c, <2>0, <2>2 DEF OverwriteFound, AtRest
<1>10. CASE CreateFile(f)
  <2>0. job[f].st = "create" /\ LiveOf(f) \subseteq {job[f].replaced}
    BY <1>10 DEF CreateFile, JobKnows
  <2>1. CASE ~Readable(f)
    <3>1. Goto(f, "vanished") /\ NothingCreated
      BY <1>10, <2>1 DEF CreateFile, NothingCreated
    <3> QED BY <1>c, <2>0, <3>1, NoneLiver DEF AtRest
  <2>2. CASE Readable(f)
    <3>1. /\ job' = [job EXCEPT ![f] = PutDone(f, Len(drive) + 1, Payload(f))]
          /\ drive' = Created(f, Payload(f))
      BY <1>10, <2>2 DEF CreateFile
    <3>2. job'[f] = PutDone(f, Len(drive) + 1, Payload(f)) /\ Len(drive) + 1 \in Ids
      BY <1>0, <3>1, LenProperties DEF Ids
    <3>3. LiveOf(f)' \subseteq LiveOf(f) \cup {Len(drive) + 1}
      BY <1>0, <2>2, <3>1, OneLiver
    <3> QED BY <1>2, <1>d, <2>0, <2>2, <3>2, <3>3 DEF Ids
  <2> QED BY <2>1, <2>2
<1>11. CASE DigestPlaintext(f)
  <2>0. job[f].st = "digest" /\ LiveOf(f)' \subseteq LiveOf(f)
    BY <1>3, <1>11 DEF DigestPlaintext, CreateFile
  <2>1. PICK st \in {"trash", "done"} :
            /\ job' = [job EXCEPT ![f].data = local[f].content, ![f].st = st]
            /\ st = "done" => ~Replaces(job[f], job[f].id)
    BY <1>11 DEF DigestPlaintext
  <2>2. job'[f] = [job[f] EXCEPT !.data = local[f].content, !.st = st]
    BY <1>0, <2>1
  <2>3. job'[f].st = st /\ job'[f].id = job[f].id /\ job'[f].replaced = job[f].replaced
    BY <1>0, <2>2 DEF Job
  <2>4. st = "done" => job[f].replaced \in {0, job[f].id}
    BY <2>1 DEF Replaces
  <2> QED BY <1>2, <2>0, <2>3, <2>4 DEF JobKnows, AtRest, AtWork
<1>12. CASE TrashReplaced(f)
  <2>0. job[f].st = "trash" /\ LiveOf(f)' \subseteq LiveOf(f) /\ drive' = Trashed(job[f].replaced)
    BY <1>3, <1>12 DEF TrashReplaced, CreateFile
  <2>1. drive'[job[f].replaced].state # "live"
    BY <1>0, <2>0, IdFact, TrashedGone
  <2>2. job[f].replaced \notin LiveOf(f)'
    BY <2>1 DEF LiveOf, Named
  <2> QED BY <1>a, <1>12, <2>0, <2>2 DEF TrashReplaced, JobKnows, AtRest, AtWork
<1>13. CASE TrashCall(f)
  <2>0. /\ job[f].st = "prune" /\ LiveOf(f)' \subseteq LiveOf(f)
        /\ drive' = Trashed(job[f].id) /\ Goto(f, "pruned")
    BY <1>3, <1>13, NoHarm DEF TrashCall, CreateFile, Harms
  <2>1. drive'[job[f].id].state # "live"
    BY <1>0, <2>0, IdFact, TrashedGone DEF NeedId, Pruning
  <2>2. job[f].id \notin LiveOf(f)'
    BY <2>1 DEF LiveOf, Named
  <2> QED BY <1>a, <2>0, <2>2 DEF JobKnows, AtRest, AtWork
<1>14. CASE Reconcile(f)
  BY <1>14 DEF Reconcile, JobKnows, AtRest, AtWork
<1> QED BY <1>5, <1>6, <1>7, <1>8, <1>9, <1>10, <1>11, <1>12, <1>13, <1>14, NoHarm DEF WorkerStep

\* A worker's step leaves the other files, and the main thread, alone.
LEMMA WorkerAlone ==
    ASSUME Before, Unharmed, InjectiveNames, NEW f \in Files, WorkerStep(f)
    PROVE  /\ UNCHANGED <<disk, snapshot, main, futures, taken>>
           /\ job[f].st # "none"
           /\ \A g \in Files : g # f => job'[g] = job[g] /\ LiveOf(g)' \subseteq LiveOf(g)
<1>1. UNCHANGED <<disk, snapshot, main, futures, taken>>
  BY NoHarm
  DEF WorkerStep, StartJob, EncryptFile, UpdateKnown, FindByName, OverwriteFound, CreateFile,
      DigestPlaintext, TrashReplaced, Reconcile, TrashCall, env
<1>2. job[f].st # "none" /\ \A g \in Files : g # f => job'[g] = job[g]
  BY WorkerJob DEF JobWorked, Ended
<1>3. ASSUME NEW g \in Files, g # f PROVE LiveOf(g)' \subseteq LiveOf(g)
  BY <1>3, WorkerLiver, NoneLiver, OneLiver DEF Before
<1> QED BY <1>1, <1>2, <1>3

\* A purge makes nothing live.
LEMMA PurgeLiver ==
    ASSUME TypeOK, NEW i \in DOMAIN drive, Purge(i) PROVE NothingCreated
<1>1. drive[i] \in DriveFile /\ DOMAIN drive' = DOMAIN drive
  BY ElementOfSeq, LenProperties DEF Purge, TypeOK
<1>2. /\ \A k \in DOMAIN drive : k # i => drive'[k] = drive[k]
      /\ drive'[i].state = "purged"
  BY <1>1 DEF Purge, DriveFile
<1> QED BY <1>1, <1>2 DEF NothingCreated

\* A job keeps knowing as long as neither it nor the manifest's entry changes.
LEMMA KnowsOn ==
    ASSUME NEW f \in Files, JobKnows(f), job'[f] = job[f], Known(mem, f)' = Known(mem, f),
           LiveOf(f)' \subseteq LiveOf(f)
    PROVE  JobKnows(f)'
BY DEF JobKnows

\* A file without a job is known to memory.
LEMMA KnowsNone ==
    ASSUME NEW f \in Files, job[f].st = "none"
    PROVE  JobKnows(f) <=> LiveOf(f) \subseteq Known(mem, f)
BY DEF JobKnows, AtRest, AtWork

\* What a result leaves in the manifest is all there is.
LEMMA ResultKnown ==
    ASSUME Before, NEW f \in Files, ApplyResult(f), JobKnows(f), job[f].st \in Finished,
           UNCHANGED drive
    PROVE  \A g \in Files : JobKnows(g) => JobKnows(g)'
<1>0. mem' \in Manifest /\ mem' # Missing /\ mem # Missing
  BY ApplyType DEF Before, TypeOK
<1>1. \A g \in Files : LiveOf(g)' = LiveOf(g)
  BY DEF LiveOf, Named
<1>2. ASSUME NEW g \in Files, g # f, JobKnows(g) PROVE JobKnows(g)'
  <2>1. job'[g] = job[g] /\ Known(mem, g)' = Known(mem, g)
    BY <1>0, <1>2, Applied DEF Known
  <2> QED BY <1>1, <1>2, <2>1, KnowsOn
<1>3. JobKnows(f)'
  <2>1. job'[f].st = "none"
    BY Applied DEF NoJob
  <2>2. LiveOf(f) \subseteq Known(mem', f)
    <3>1. job[f].st \in {"done", "failed", "vanished"}
      BY DEF JobKnows, AtRest, AtWork, Finished
    <3>2. CASE job[f].st = "done"
      <4>1. mem'[f] \in Entry /\ mem'[f].id = job[f].id
        BY <3>2, Applied DEF Recorded
      <4> QED BY <1>0, <3>2, <4>1 DEF JobKnows, Known
    <3>3. CASE job[f].st \in {"failed", "vanished"}
      BY <3>3, Applied DEF JobKnows, AtRest
    <3> QED BY <3>1, <3>2, <3>3
  <2> QED BY <1>1, <2>1, <2>2 DEF JobKnows, AtRest, AtWork, Known
<1> QED BY <1>2, <1>3

\* The main thread hands on what it knows: manifest to job, job to manifest.
LEMMA MainKnows ==
    ASSUME Before, NothingLeft, NoFullRuns, TrackInv, MainStep, pc' # "idle"
    PROVE  JobsKnow'
<1> SUFFICES ASSUME NEW f \in Files PROVE JobKnows(f)'
  BY DEF JobsKnow
<1>0. /\ TypeOK /\ mem # Missing /\ job \in [Files -> Job] /\ mem \in Manifest /\ job[f] \in Job
      /\ CurIsFile /\ ~options.full
  BY DEF Before, TypeOK, NoFullRuns
<1>1. UNCHANGED drive /\ LiveOf(f)' = LiveOf(f)
  BY OthersKeepDrive DEF LiveOf, Named
<1>2. pc \notin {"idle", "load"} => JobKnows(f)
  BY DEF TrackInv, JobsKnow
<1>a. ASSUME UNCHANGED <<mem, job>>, pc \notin {"idle", "load"} PROVE JobKnows(f)'
  BY <1>1, <1>2, <1>a, KnowsOn DEF Known
<1>3. CASE FetchSnapshot \/ SkipFetch
  <2>1. pc = "load" /\ job'[f].st = "none"
    BY <1>3 DEF FetchSnapshot, SkipFetch, NothingLeft, Submitted, pool
  <2>2. LiveOf(f) \subseteq Known(mem', f)
    BY <1>0, <1>3, <2>1, NoHarm
    DEF FetchSnapshot, SkipFetch, TrackInv, FilesKnow, Known, Harms, EmptyManifest
  <2> QED BY <1>1, <2>1, <2>2 DEF JobKnows, AtRest, AtWork, Known
<1>4. CASE PrepareUpload
  <2>1. cur.file \in Files /\ job[cur.file].st = "none" /\ pc = "prepare" /\ mem' = mem
        /\ job' = [job EXCEPT ![cur.file] = Work(cur.file)]
    BY <1>0, <1>4 DEF PrepareUpload, CurIsFile, TrackInv, OneJobEach
  <2>2. CASE f = cur.file
    <3>1. job'[f] = Work(f) /\ LiveOf(f) \subseteq Known(mem, f)
      BY <1>0, <1>2, <2>1, <2>2, KnowsNone
    <3>2. Work(f).st = "queued" /\ Known(mem, f) \subseteq {Work(f).id, Work(f).replaced}
      BY <1>0 DEF Work, Known
    <3> QED BY <1>1, <2>1, <3>1, <3>2 DEF JobKnows, AtRest, AtWork, Known
  <2>3. CASE f # cur.file
    <3>1. job'[f] = job[f] /\ Known(mem, f)' = Known(mem, f)
      BY <1>0, <2>1, <2>3 DEF Known
    <3> QED BY <1>1, <1>2, <2>1, <3>1, KnowsOn
  <2> QED BY <2>2, <2>3
<1>5. CASE CompleteUpload
  <2>1. /\ taken \in Files /\ ApplyResult(taken) /\ job[taken].st \in Finished
        /\ pc \notin {"idle", "load"}
    BY <1>0, <1>5 DEF CompleteUpload, TypeOK, TrackInv, TakenIsDone
  <2>2. JobKnows(taken)
    BY <2>1 DEF TrackInv, JobsKnow
  <2> QED BY <1>1, <1>2, <2>1, <2>2, ResultKnown
<1>6. CASE FlagStale
  <2>1. mem' \in Manifest
    BY <1>6, MainType DEF TypeOK
  <2>2. mem'[f] = mem[f] \/ (mem[f] # NoEntry /\ mem'[f] = [mem[f] EXCEPT !.pruned = TRUE])
    BY <1>6 DEF FlagStale, StaleEntries
  <2>3. Known(mem', f) = Known(mem, f)
    <3>1. CASE mem'[f] = mem[f]
      BY <1>0, <2>1, <3>1 DEF Known
    <3>2. CASE mem[f] # NoEntry /\ mem'[f] = [mem[f] EXCEPT !.pruned = TRUE]
      <4>1. mem[f] \in Entry
        BY <1>0, <3>2 DEF Manifest
      <4>2. mem'[f] \in Entry /\ mem'[f].id = mem[f].id
        BY <3>2, <4>1 DEF Entry
      <4> QED BY <1>0, <2>1, <3>2, <4>2 DEF Known
    <3> QED BY <2>2, <3>1, <3>2
  <2>4. job' = job /\ pc \notin {"idle", "load"}
    BY <1>6 DEF FlagStale, pool
  <2> QED BY <1>1, <1>2, <2>3, <2>4, KnowsOn DEF Known
<1>7. CASE TrashStale
  <2>1. job[f].st = "none" /\ pc = "prune" /\ mem' = mem
    BY <1>7 DEF TrashStale, TrackInv, OneJobEach, Submitted
  <2>2. LiveOf(f) \subseteq Known(mem, f)
    BY <1>2, <2>1, KnowsNone
  <2>3. CASE f \notin StaleEntries
    <3>1. job'[f] = job[f]
      BY <1>7, <2>3 DEF TrashStale
    <3> QED BY <1>1, <1>2, <2>1, <3>1, KnowsOn DEF Known
  <2>4. CASE f \in StaleEntries
    <3>1. /\ job'[f] = [NoJob EXCEPT !.st = "prune", !.id = mem[f].id,
                                     !.encrypted = mem[f].encrypted]
          /\ mem[f] # NoEntry
      BY <1>7, <2>4 DEF TrashStale, StaleEntries
    <3>2. job'[f].st = "prune" /\ job'[f].id = mem[f].id
      BY <3>1 DEF NoJob
    <3> QED BY <1>0, <1>1, <2>1, <2>2, <3>1, <3>2 DEF JobKnows, AtRest, AtWork, Known
  <2> QED BY <2>3, <2>4
<1>8. ASSUME NEW g \in Files, ApplyTrash(g) PROVE JobKnows(f)'
  <2>0. pc \notin {"idle", "load"}
    BY <1>8 DEF ApplyTrash
  <2>1. /\ job[g].st = "pruned" /\ mem' = [mem EXCEPT ![g] = NoEntry]
        /\ job' = [job EXCEPT ![g] = NoJob]
    BY <1>8, <2>0 DEF ApplyTrash, TrackInv, JobsKnow, JobKnows, AtRest, AtWork
  <2>2. mem' \in Manifest
    BY <1>0, <2>1 DEF Manifest
  <2>3. CASE f = g
    <3>1. job'[f].st = "none" /\ LiveOf(f) = {}
      BY <1>0, <1>2, <2>0, <2>1, <2>3 DEF JobKnows, NoJob
    <3> QED BY <1>1, <3>1 DEF JobKnows, AtRest, AtWork
  <2>4. CASE f # g
    <3>1. job'[f] = job[f] /\ mem'[f] = mem[f]
      BY <1>0, <2>1, <2>4 DEF Manifest
    <3>2. Known(mem', f) = Known(mem, f)
      BY <1>0, <2>2, <3>1 DEF Known
    <3> QED BY <1>1, <1>2, <2>0, <3>1, <3>2, KnowsOn DEF Known
  <2> QED BY <2>3, <2>4
<1>9. CASE \/ \E g \in Files : ScanFile(g) \/ ScanError(g)
           \/ PrepareSkip \/ RecordFuture \/ EndSkip \/ EndDrain \/ EndScan \/ EndSettle
           \/ \E g \in Files : TakeResult(g)
           \/ Checkpoint \/ SkipPrune \/ EndTrash \/ FinalCheckpoint \/ UploadSnapshot
  BY <1>a, <1>9
  DEF ScanFile, ScanError, PrepareSkip, RecordFuture, EndSkip, EndDrain, EndScan, EndSettle,
      TakeResult, Checkpoint, SkipPrune, EndTrash, FinalCheckpoint, UploadSnapshot, main, pool
<1>10. ~SaveFails /\ pc \notin HandlerPhase
  BY NoHarm DEF TrackInv, OneJobEach
<1> QED BY <1>3, <1>4, <1>5, <1>6, <1>7, <1>8, <1>9, <1>10
    DEF MainStep, CancelQueued, HandlerCheckpoint, HandlerApply, HandlerPhase, Shutdown

\* No step but these two brings a run to its end or its start.
LEMMA IdleSteps ==
    ASSUME TypeOK, Unharmed, [Next]_vars, pc' \in {"idle", "load"}
    PROVE  \/ pc = "shutdown" /\ Shutdown
           \/ pc = "idle" /\ \E o \in Options : Start(o)
           \/ pc = "idle" /\ LoseManifest
           \/ pc' = pc /\ UNCHANGED <<disk, snapshot, mem>>
<1>1. CASE MainStep
  <2>1. ~SaveFails
    BY NoHarm
  <2> QED
    BY <1>1, <2>1
    DEF MainStep, FetchSnapshot, SkipFetch, ScanFile, ScanError, PrepareSkip, PrepareUpload,
        RecordFuture, EndSkip, EndDrain, EndScan, EndSettle, TakeResult, CompleteUpload, Checkpoint,
        SkipPrune, FlagStale, TrashStale, EndTrash, ApplyTrash, FinalCheckpoint, UploadSnapshot,
        CancelQueued, HandlerCheckpoint, HandlerApply, Shutdown, main
<1>2. ASSUME NEW f \in Files, WorkerStep(f) PROVE pc' = pc /\ UNCHANGED <<disk, snapshot, mem>>
  BY <1>2
  DEF WorkerStep, StartJob, EncryptFile, UpdateKnown, FindByName, OverwriteFound, CreateFile,
      DigestPlaintext, TrashReplaced, Reconcile, CallFails, AnswerLost, CreateAgain, TrashCall,
      main, env
<1>3. CASE Environment
  <2>1. ~Interrupt /\ ~Crash
    BY NoHarm
  <2> QED BY <1>3, <2>1 DEF Environment, Start, LoseManifest, Write, Purge, main
<1>4. CASE UNCHANGED vars
  BY <1>4 DEF vars, main, env
<1> QED BY <1>1, <1>2, <1>3, <1>4 DEF Next

\* Between runs nothing comes to life.
LEMMA IdleLiver ==
    ASSUME Before, NothingLeft, Unharmed, InjectiveNames, [Next]_vars,
           pc \in {"idle", "load", "shutdown"}, Submitted = {}, NEW f \in Files
    PROVE  LiveOf(f)' \subseteq LiveOf(f)
<1>1. UNCHANGED drive => LiveOf(f)' \subseteq LiveOf(f)
  BY DEF LiveOf, Named
<1>2. ASSUME NEW i \in DOMAIN drive, Purge(i) PROVE LiveOf(f)' \subseteq LiveOf(f)
  BY <1>2, PurgeLiver, NoneLiver DEF Before
<1>3. ASSUME NEW g \in Files, WorkerStep(g) PROVE FALSE
  BY <1>3, WorkerAlone DEF Submitted
<1> QED BY <1>1, <1>2, <1>3, OthersKeepDrive DEF Next, Environment

\* A run that ends leaves it all in the files the next one starts from.
LEMMA FilesKnowNext ==
    ASSUME Before, NothingLeft, NoFullRuns, InjectiveNames, TrackInv, [Next]_vars
    PROVE  FilesKnow'
<1> SUFFICES ASSUME pc' \in {"idle", "load"}
             PROVE  /\ \A f \in Files : /\ LiveOf(f)' \subseteq Known(snapshot', f)
                                        /\ disk' # Missing => LiveOf(f)' \subseteq Known(disk', f)
                    /\ pc' = "load" => mem' = IF disk' = Missing THEN EmptyManifest ELSE disk'
  BY DEF FilesKnow, Known
<1>0. TypeOK /\ Unharmed /\ mem # Missing
  BY DEF Before, TypeOK, TrackInv
<1>1. pc \in {"idle", "load"} => \A f \in Files : LiveOf(f)' \subseteq LiveOf(f)
  BY <1>0, IdleLiver DEF NothingLeft
<1>2. CASE pc = "shutdown" /\ Shutdown
  <2>1. UNCHANGED <<disk, snapshot>> /\ pc' = "idle"
    BY <1>2 DEF Shutdown, env
  <2>2. Submitted = {} /\ disk = mem /\ snapshot = mem
    BY <1>2 DEF TrackInv, OneJobEach, SavedLast
  <2>3. ASSUME NEW f \in Files PROVE LiveOf(f)' \subseteq Known(mem, f)
    <3>1. JobKnows(f) /\ job[f].st = "none"
      BY <1>2, <2>2 DEF TrackInv, JobsKnow, Submitted
    <3>2. LiveOf(f)' \subseteq LiveOf(f)
      BY <1>0, <1>2, <2>2, IdleLiver
    <3> QED BY <3>1, <3>2, KnowsNone
  <2> QED BY <2>1, <2>2, <2>3
<1>3. ASSUME NEW o \in Options, Start(o), pc = "idle" PROVE disk' = disk /\ snapshot' = snapshot
        /\ mem' = IF disk' = Missing THEN EmptyManifest ELSE disk'
  BY <1>3 DEF Start, NoFullRuns, env
<1>4. CASE pc = "idle" /\ LoseManifest
  BY <1>1, <1>4 DEF LoseManifest, TrackInv, FilesKnow, main
<1>5. CASE pc' = pc /\ UNCHANGED <<disk, snapshot, mem>>
  BY <1>1, <1>5 DEF TrackInv, FilesKnow
<1>6. CASE pc = "idle" /\ \E o \in Options : Start(o)
  BY <1>1, <1>3, <1>6 DEF TrackInv, FilesKnow
<1> QED BY <1>0, <1>2, <1>4, <1>5, <1>6, IdleSteps

\* Each save, and the last one in particular, is of the manifest in memory.
LEMMA SavedLastNext ==
    ASSUME Before, NoFullRuns, TrackInv, [Next]_vars
    PROVE  SavedLast'
<1>0. TypeOK /\ mem # Missing /\ ~options.full /\ pc \notin HandlerPhase
  BY DEF Before, TypeOK, NoFullRuns, TrackInv, OneJobEach
<1>1. ASSUME UNCHANGED <<mem, disk, dirty, pc, snapshot>> PROVE SavedLast'
  BY <1>1 DEF TrackInv, SavedLast
<1>2. ASSUME UNCHANGED <<mem, disk, dirty>>, pc \notin {"idle", "load"},
             pc' \notin {"upload", "shutdown"}
      PROVE  SavedLast'
  BY <1>2 DEF TrackInv, SavedLast
<1>3. CASE pc' \in {"idle", "load"}
  BY <1>3 DEF SavedLast
<1>4. ASSUME dirty' = TRUE, pc' \notin {"upload", "shutdown"} PROVE SavedLast'
  BY <1>4 DEF SavedLast
<1>6. CASE MainStep
  <2> USE DEF env, main, pool
  <2>1. CASE FetchSnapshot \/ SkipFetch
    BY <1>0, <2>1, NoHarm DEF FetchSnapshot, SkipFetch, TrackInv, SavedLast, FilesKnow, Harms
  <2>2. ASSUME NEW f \in Files, ScanFile(f) \/ ScanError(f) PROVE SavedLast'
    BY <1>2, <2>2 DEF ScanFile, ScanError
  <2>3. CASE \/ PrepareSkip \/ PrepareUpload \/ RecordFuture \/ EndSkip \/ EndDrain
             \/ EndScan \/ EndSettle \/ SkipPrune \/ TrashStale \/ EndTrash
    BY <1>2, <2>3
    DEF PrepareSkip, PrepareUpload, RecordFuture, EndSkip, EndDrain, EndScan, EndSettle,
        SkipPrune, TrashStale, EndTrash
  <2>4. ASSUME NEW f \in Files, TakeResult(f) PROVE SavedLast'
    BY <1>1, <2>4 DEF TakeResult
  <2>5. CASE CompleteUpload
    <3>1. /\ taken \in Files /\ ApplyResult(taken) /\ UNCHANGED <<disk, pc, snapshot>>
          /\ pc \in {"drain", "settle"}
      BY <1>0, <2>5 DEF CompleteUpload, TypeOK
    <3>2. CASE job[taken].st \in {"done", "leftover"}
      <4>1. dirty' = TRUE
        BY <3>1, <3>2 DEF ApplyResult
      <4> QED BY <1>4, <3>1, <4>1
    <3>3. CASE job[taken].st \notin {"done", "leftover"}
      <4>1. UNCHANGED <<mem, dirty>>
        BY <3>1, <3>3, Zenon DEF ApplyResult
      <4> QED BY <1>1, <3>1, <4>1
    <3> QED BY <3>2, <3>3
  <2>6. CASE Checkpoint
    BY <1>0, <2>6 DEF Checkpoint, SavedLast
  <2>7. CASE FlagStale
    <3>1. CASE \A f \in Files : mem[f] = NoEntry \/ Present(f) \/ mem[f].pruned
      <4>1. mem' = mem
        <5>1. mem' = [f \in Files |-> mem[f]]
          BY <2>7, <3>1 DEF FlagStale, StaleEntries
        <5> QED BY <1>0, <5>1 DEF TypeOK, Manifest
      <4>2. dirty' = dirty
        BY <1>0, <2>7, <3>1 DEF FlagStale, StaleEntries, TypeOK
      <4> QED BY <1>2, <2>7, <4>1, <4>2 DEF FlagStale
    <3>2. CASE ~\A f \in Files : mem[f] = NoEntry \/ Present(f) \/ mem[f].pruned
      <4>1. dirty' = TRUE
        BY <1>0, <2>7, <3>2 DEF FlagStale, StaleEntries, TypeOK
      <4> QED BY <1>4, <2>7, <4>1 DEF FlagStale
    <3> QED BY <3>1, <3>2
  <2>8. ASSUME NEW f \in Files, ApplyTrash(f) PROVE SavedLast'
    BY <1>2, <1>4, <2>8 DEF ApplyTrash
  <2>9. CASE FinalCheckpoint
    BY <1>0, <2>9 DEF FinalCheckpoint, TrackInv, SavedLast, TypeOK
  <2>10. CASE UploadSnapshot
    BY <2>10, NoHarm DEF UploadSnapshot, TrackInv, SavedLast, Harms
  <2> QED
    BY <1>0, <1>3, <1>6, <2>1, <2>2, <2>3, <2>4, <2>5, <2>6, <2>7, <2>8, <2>9, <2>10, NoHarm
    DEF MainStep, TrackInv, HandlerPhase, CancelQueued, HandlerCheckpoint, HandlerApply, Shutdown
<1>7. ASSUME NEW f \in Files, WorkerStep(f) PROVE SavedLast'
  BY <1>1, <1>7, NoHarm
  DEF WorkerStep, StartJob, EncryptFile, UpdateKnown, FindByName, OverwriteFound, CreateFile,
      DigestPlaintext, TrashReplaced, Reconcile, TrashCall, TrackInv, main, env
<1>8. CASE Environment
  BY <1>1, <1>3, <1>8, NoHarm
  DEF Environment, Start, LoseManifest, Write, Purge, TrackInv, main, env
<1>9. CASE UNCHANGED vars
  BY <1>1, <1>9 DEF vars, env, main
<1> QED BY <1>6, <1>7, <1>8, <1>9 DEF Next

\* Every file is submitted once, and all are settled before the prune.
LEMMA OneJobNext ==
    ASSUME Before, HeldInv, InjectiveNames, TrackInv, [Next]_vars
    PROVE  OneJobEach'
<1>0. /\ TypeOK /\ Unharmed /\ CurIsFile /\ pc \notin HandlerPhase /\ job \in [Files -> Job]
      /\ toScan \subseteq Files /\ OneJobEach /\ NoJob.st = "none"
  BY DEF Before, TypeOK, TrackInv, OneJobEach, NoJob
<1>a. ASSUME Submitted' \subseteq Submitted, UNCHANGED <<pc, toScan, cur, futures>>, NothingLeft
      PROVE  OneJobEach'
  BY <1>0, <1>a DEF OneJobEach, Submitted, CurIsFile
<1>1. ASSUME NEW f \in Files, WorkerStep(f) PROVE OneJobEach'
  <2>1. /\ UNCHANGED <<pc, toScan, cur, futures>>
        /\ job[f].st # "none" /\ \A g \in Files : g # f => job'[g] = job[g]
    BY <1>0, <1>1, WorkerAlone DEF main
  <2>2. Submitted' \subseteq Submitted
    BY <2>1 DEF Submitted
  <2> QED BY <1>a, <2>1, <2>2 DEF HeldInv
<1>2. CASE MainStep
  <2> USE DEF env, main, pool
  <2>1. CASE FetchSnapshot \/ SkipFetch
    BY <1>0, <2>1
    DEF FetchSnapshot, SkipFetch, HeldInv, NothingLeft, Submitted, OneJobEach, UploadPhase,
        HandlerPhase
  <2>2. ASSUME NEW f \in Files, ScanFile(f) \/ ScanError(f) PROVE OneJobEach'
    BY <1>0, <2>2 DEF ScanFile, ScanError, OneJobEach, UploadPhase, HandlerPhase
  <2>3. CASE \/ PrepareSkip \/ RecordFuture \/ EndSkip \/ EndDrain \/ EndScan \/ Checkpoint
             \/ SkipPrune \/ FinalCheckpoint \/ UploadSnapshot \/ FlagStale \/ EndTrash
    BY <1>0, <2>3
    DEF PrepareSkip, RecordFuture, EndSkip, EndDrain, EndScan, Checkpoint, SkipPrune,
        FinalCheckpoint, UploadSnapshot, FlagStale, EndTrash, OneJobEach, UploadPhase, HandlerPhase,
        Submitted
  <2>4. ASSUME NEW f \in Files, TakeResult(f) PROVE OneJobEach'
    BY <1>0, <2>4 DEF TakeResult, OneJobEach, UploadPhase, HandlerPhase
  <2>5. CASE PrepareUpload
    BY <1>0, <2>5 DEF PrepareUpload, OneJobEach, UploadPhase, HandlerPhase, CurIsFile
  <2>6. CASE EndSettle
    <3>1. Submitted \subseteq futures \cup {taken} /\ futures = {} /\ taken = NoFile
      BY <2>6 DEF EndSettle, HeldInv, DrainHolds
    <3>2. Submitted = {}
      BY <3>1 DEF Submitted
    <3> QED BY <2>6, <3>2 DEF EndSettle, OneJobEach, Submitted, UploadPhase, HandlerPhase
  <2>7. CASE CompleteUpload
    <3>1. taken \in Files /\ job' = [job EXCEPT ![taken] = NoJob] /\ UNCHANGED <<pc, toScan, cur>>
          /\ pc \in {"drain", "settle"}
      BY <1>0, <2>7 DEF CompleteUpload, ApplyResult, TypeOK
    <3> QED BY <1>0, <3>1 DEF OneJobEach, UploadPhase, HandlerPhase
  <2>8. CASE TrashStale
    <3>1. /\ \A f \in Files : f \notin StaleEntries => job'[f].st = "none"
          /\ futures' = StaleEntries /\ pc' = IF StaleEntries = {} THEN "final" ELSE "trash"
      BY <1>0, <2>8 DEF TrashStale, OneJobEach, Submitted
    <3>2. /\ Submitted' \subseteq futures' /\ pc' \in {"final", "trash"}
          /\ pc' = "final" => futures' = {}
      BY <3>1 DEF Submitted
    <3> QED BY <3>2 DEF OneJobEach, UploadPhase, HandlerPhase
  <2>9. ASSUME NEW f \in Files, ApplyTrash(f) PROVE OneJobEach'
    <3>1. /\ job' = [job EXCEPT ![f] = NoJob] /\ futures' = futures \ {f}
          /\ pc = "trash" /\ pc' = "trash"
      BY <2>9 DEF ApplyTrash
    <3>2. Submitted' \subseteq futures'
      BY <1>0, <3>1 DEF OneJobEach, Submitted
    <3> QED BY <3>1, <3>2 DEF OneJobEach, UploadPhase, HandlerPhase
  <2>10. CASE Shutdown
    BY <2>10 DEF Shutdown, OneJobEach, UploadPhase, HandlerPhase
  <2> QED
    BY <1>0, <1>2, <2>1, <2>2, <2>3, <2>4, <2>5, <2>6, <2>7, <2>8, <2>9, <2>10, NoHarm
    DEF MainStep, HandlerPhase, CancelQueued, HandlerCheckpoint, HandlerApply
<1>3. CASE Environment
  <2>1. CASE \/ LoseManifest \/ (\E f \in Files : Write(f)) \/ (\E i \in DOMAIN drive : Purge(i))
    <3>1. UNCHANGED <<pc, toScan, cur, futures, job>>
      BY <2>1 DEF LoseManifest, Write, Purge, main, pool
    <3>2. Submitted' = Submitted
      BY <3>1 DEF Submitted
    <3> QED BY <1>a, <3>1, <3>2 DEF HeldInv
  <2>2. CASE \E o \in Options : Start(o)
    BY <2>2 DEF Start, OneJobEach, UploadPhase, HandlerPhase
  <2> QED BY <1>0, <1>3, <2>1, <2>2, NoHarm DEF Environment
<1>4. CASE UNCHANGED vars
  <2>1. UNCHANGED <<pc, toScan, cur, futures, job>>
    BY <1>4 DEF vars, main, pool
  <2>2. Submitted' = Submitted
    BY <2>1 DEF Submitted
  <2> QED BY <1>a, <2>1, <2>2 DEF HeldInv
<1> QED BY <1>1, <1>2, <1>3, <1>4 DEF Next

\* While a run lasts its jobs and its manifest know all live copies.
LEMMA JobsKnowNext ==
    ASSUME Before, NothingLeft, NoFullRuns, InjectiveNames, TrackInv, [Next]_vars
    PROVE  JobsKnow'
<1> SUFFICES ASSUME pc' \notin {"idle", "load"}, NEW f \in Files PROVE JobKnows(f)'
  BY DEF JobsKnow
<1>0. TypeOK /\ Unharmed
  BY DEF Before, TrackInv
<1>1. pc \notin {"idle", "load"} => JobKnows(f)
  BY DEF TrackInv, JobsKnow
<1>2. CASE MainStep
  BY <1>2, MainKnows DEF JobsKnow
<1>3. ASSUME NEW g \in Files, WorkerStep(g) PROVE JobKnows(f)'
  <2>1. pc \notin {"idle", "load"} /\ mem' = mem
    BY <1>0, <1>3, WorkerAlone DEF main
  <2>2. CASE g = f
    BY <1>0, <1>1, <1>3, <2>1, <2>2, WorkerKnows
  <2>3. CASE g # f
    <3>1. job'[f] = job[f] /\ LiveOf(f)' \subseteq LiveOf(f)
      BY <1>0, <1>3, <2>3, WorkerAlone
    <3> QED BY <1>1, <2>1, <3>1, KnowsOn DEF Known
  <2> QED BY <2>2, <2>3
<1>a. ASSUME UNCHANGED <<pc, mem, job>>, LiveOf(f)' \subseteq LiveOf(f) PROVE JobKnows(f)'
  BY <1>1, <1>a, KnowsOn DEF Known
<1>4. ASSUME NEW i \in DOMAIN drive, Purge(i) PROVE JobKnows(f)'
  BY <1>0, <1>4, <1>a, PurgeLiver, NoneLiver DEF Purge, main, pool
<1>5. CASE (\E g \in Files : Write(g)) \/ UNCHANGED vars
  <2>1. UNCHANGED <<pc, mem, job, drive>>
    BY <1>5 DEF Write, vars, env, main, pool
  <2>2. LiveOf(f)' = LiveOf(f)
    BY <2>1 DEF LiveOf, Named
  <2> QED BY <1>a, <2>1, <2>2
<1>6. CASE LoseManifest \/ \E o \in Options : Start(o)
  BY <1>6 DEF LoseManifest, Start, main
<1> QED BY <1>0, <1>2, <1>3, <1>4, <1>5, <1>6, NoHarm DEF Next, Environment

\* At first there is nothing to know.
LEMMA TrackInit ==
    ASSUME Init, \A e \in Harms : Budget[e] = 0 PROVE TrackInv
<1>1. drive = <<>> /\ pc = "idle" /\ taken = NoFile /\ budget = Budget /\ disk = Missing
  BY DEF Init
<1>2. \A f \in Files : LiveOf(f) = {}
  BY <1>1 DEF LiveOf, Named
<1> QED BY <1>1, <1>2
    DEF TrackInv, Unharmed, TakenIsDone, JobsKnow, FilesKnow, SavedLast, OneJobEach, UploadPhase,
        HandlerPhase

\* After a run that exits 0 no live copy of a file is left on Drive under either of
\* its names but the one that the manifest file records: _prepare_upload hands the old
\* copy of a file that switches between plaintext and encrypted to the upload, which
\* trashes it (BackupEngine._execute_upload), whatever the user edits or deletes for good
\* meanwhile, whether the manifest is lost between runs, and with and without a prune.
\* It is assumed that different files have different names on Drive, that no run is
\* --full, and that none of the events that may leave a copy behind happens: a run that
\* is cut short, or a Drive call or a save that fails.
THEOREM LiveCopiesTracked ==
    ASSUME NoFullRuns, InjectiveNames, \A e \in Harms : Budget[e] = 0
    PROVE  Spec => []LiveCopiesAreTracked
<1>1. Init => TrackInv
  BY TrackInit
<1>2. IInv /\ HeldInv /\ TrackInv /\ [Next]_vars => TrackInv'
  <2> SUFFICES ASSUME IInv, HeldInv, TrackInv, [Next]_vars PROVE TrackInv'
    OBVIOUS
  <2>1. Before /\ NothingLeft /\ TypeOK /\ Unharmed /\ TakenIsDone
    BY DEF IInv, Before, HeldInv, TrackInv
  <2> QED
    BY <2>1, UnharmedNext, TakenNext, JobsKnowNext, FilesKnowNext, SavedLastNext, OneJobNext
    DEF TrackInv
<1>3. TrackInv => LiveCopiesAreTracked
  <2> SUFFICES ASSUME TrackInv, pc = "shutdown", NEW f \in Files
               PROVE  LiveOf(f) \subseteq {disk[f].id}
    BY DEF LiveCopiesAreTracked, LiveOf
  <2>1. JobKnows(f) /\ job[f].st = "none" /\ disk = mem
    BY DEF TrackInv, JobsKnow, OneJobEach, Submitted, SavedLast
  <2> QED BY <2>1, KnowsNone DEF Known
<1> QED BY <1>1, <1>2, <1>3, HeldAlways, Invariance, PTL DEF Spec

=============================================================================
