--------------------------- MODULE BackupRunProofs --------------------------
(***************************************************************************)
(* Theorems about BackupRun, for every number of files, workers, contents, *)
(* options and external events.                                            *)
(***************************************************************************)
EXTENDS BackupRun, FiniteSetTheorems, SequenceTheorems, TLAPS

\* The main thread has a file at hand when it prepares or submits one.
CurIsFile == pc \in {"prepare", "record"} => cur.file \in Files

\* A job that is about to change a Drive file, or has, knows which.
NeedId == {"update", "overwrite", "digest", "trash", "done", "leftover"} \cup Pruning
JobsHaveIds ==
    \A f \in Files : /\ job[f].st \in NeedId => job[f].id # 0
                     /\ job[f].st = "trash" => job[f].replaced # 0

\* Work never names another file's copy.
JobsTrack ==
    \A f \in Files :
        /\ job[f].id # 0 => Tracks(f, job[f].id, job[f].encrypted)
        /\ job[f].replaced # 0 => Tracks(f, job[f].replaced, ~job[f].encrypted)

\* The inductive invariant.
IInv == TypeOK /\ CurIsFile /\ JobsHaveIds /\ JobsTrack /\ ManifestTracksOwnFile

USE FilesAssumption, ContentsAssumption, RunAssumption, MarkerAssumption

\* The initial values are of their types.
LEMMA NoJobType == NoJob \in Job
BY DEF NoJob, Job, JobStates, Digests

LEMMA SpendType ==
    ASSUME NEW e \in Events, budget \in [Events -> Nat], Spend(e)
    PROVE  budget' \in [Events -> Nat]
BY DEF Spend

LEMMA EmptyType == EmptyManifest \in Manifest
BY DEF EmptyManifest, Manifest

\* A job that moves on keeps the types.
LEMMA GotoType ==
    ASSUME NEW f \in Files, NEW st \in JobStates, job \in [Files -> Job], Goto(f, st)
    PROVE  job' \in [Files -> Job]
BY DEF Goto, Job

LEMMA InitInv == Init => IInv
<1> SUFFICES ASSUME Init PROVE IInv
  OBVIOUS
<1>1. TypeOK
  <2>1. local \in [Files -> [content: Digests, mtime: Nat]]
    BY DEF Init, Digests
  <2>2. drive \in Seq(DriveFile)
    BY DEF Init
  <2>3. mem \in Manifest /\ cur \in FileEntry /\ job \in [Files -> Job]
    BY NoJobType, EmptyType DEF Init, NoCur, FileEntry
  <2>4. /\ disk \in Manifest \cup {Missing} /\ snapshot \in Manifest \cup {Missing}
        /\ pc \in Phases /\ options \in Options /\ dirty \in BOOLEAN
        /\ errors \subseteq {"file", "prune"} /\ toScan \subseteq Files
        /\ futures \subseteq Files /\ taken \in Files \cup {NoFile}
        /\ exit \in Exits /\ budget \in [Events -> Nat]
    BY DEF Init, Phases, Exits
  <2> QED BY <2>1, <2>2, <2>3, <2>4 DEF TypeOK
<1>2. CurIsFile
  BY DEF Init, CurIsFile
<1>3. JobsHaveIds /\ JobsTrack
  BY DEF Init, JobsHaveIds, JobsTrack, NoJob, NeedId, Pruning
<1>4. ManifestTracksOwnFile
  BY DEF Init, ManifestTracksOwnFile, OwnCopies, EmptyManifest
<1> QED BY <1>1, <1>2, <1>3, <1>4 DEF IInv

-----------------------------------------------------------------------------
(* Drive's files: an operation keeps every id and every name.              *)

DriveGrows == \A i \in DOMAIN drive : i \in DOMAIN drive' /\ drive'[i].name = drive[i].name

\* What an update, a trash and a create do to Drive.
LEMMA OverwrittenFact ==
    ASSUME drive \in Seq(DriveFile), NEW id \in DOMAIN drive, NEW c \in Contents
    PROVE  /\ Overwritten(id, c) \in Seq(DriveFile)
           /\ DOMAIN Overwritten(id, c) = DOMAIN drive
           /\ \A i \in DOMAIN drive : /\ Overwritten(id, c)[i].name = drive[i].name
                                      /\ Overwritten(id, c)[i].state = drive[i].state
<1> DEFINE new == [drive[id] EXCEPT !.content = c]
<1>1. drive[id] \in DriveFile /\ DOMAIN drive = 1 .. Len(drive)
  BY ElementOfSeq, LenProperties
<1>2. new \in DriveFile /\ new.name = drive[id].name /\ new.state = drive[id].state
  BY <1>1 DEF DriveFile
<1>3. Overwritten(id, c) = [drive EXCEPT ![id] = new]
  BY DEF Overwritten
<1> HIDE DEF new
<1> QED BY <1>1, <1>2, <1>3, ExceptSeq, LenProperties

LEMMA TrashedFact ==
    ASSUME drive \in Seq(DriveFile), NEW id \in DOMAIN drive
    PROVE  /\ Trashed(id) \in Seq(DriveFile)
           /\ DOMAIN Trashed(id) = DOMAIN drive
           /\ \A i \in DOMAIN drive : /\ Trashed(id)[i].name = drive[i].name
                                      /\ Trashed(id)[i].state = "live" => drive[i].state = "live"
<1> DEFINE new == [drive[id] EXCEPT !.state = "trashed"]
<1>1. drive[id] \in DriveFile /\ DOMAIN drive = 1 .. Len(drive)
  BY ElementOfSeq, LenProperties
<1>2. new \in DriveFile /\ new.name = drive[id].name /\ new.state = "trashed"
  BY <1>1 DEF DriveFile
<1>3. CASE Trashed(id) = drive
  BY <1>3
<1>4. CASE Trashed(id) = [drive EXCEPT ![id] = new]
  <2> HIDE DEF new
  <2> QED BY <1>1, <1>2, <1>4, ExceptSeq, LenProperties
<1> QED BY <1>3, <1>4 DEF Trashed

LEMMA CreatedFact ==
    ASSUME drive \in Seq(DriveFile), job \in [Files -> Job], NEW f \in Files, NEW c \in Contents
    PROVE  /\ Created(f, c) \in Seq(DriveFile)
           /\ DOMAIN Created(f, c) = DOMAIN drive \cup {Len(drive) + 1}
           /\ \A i \in DOMAIN drive : Created(f, c)[i] = drive[i]
           /\ Created(f, c)[Len(drive) + 1].name = NameOf[<<f, job[f].encrypted>>]
<1>0. job[f].encrypted \in BOOLEAN /\ NameOf[<<f, job[f].encrypted>>] \in Names
  <2>1. job[f] \in Job
    OBVIOUS
  <2>2. job[f].encrypted \in BOOLEAN
    BY <2>1 DEF Job
  <2> QED BY <2>2
<1> DEFINE new == [name |-> NameOf[<<f, job[f].encrypted>>], content |-> c, state |-> "live"]
<1>1. new \in DriveFile
  BY <1>0 DEF DriveFile
<1>2. Created(f, c) = Append(drive, new)
  BY DEF Created
<1>3. new.name = NameOf[<<f, job[f].encrypted>>]
  OBVIOUS
<1> HIDE DEF new
<1> QED BY <1>1, <1>2, <1>3, AppendProperties, LenProperties

\* What the ends of a job leave it with.
LEMMA GiveUpFact ==
    ASSUME NEW old \in JobStates, NEW st \in GiveUp(old)
    PROVE  st \in {"failed", "leftover", "reconcile"} /\ (st = "leftover" => old = "trash")
BY DEF GiveUp

LEMMA PayloadFact ==
    ASSUME TypeOK, NEW f \in Files, Readable(f)
    PROVE  Payload(f) \in Contents
BY DEF TypeOK, Readable, Payload, Digests, Job

LEMMA PutDoneFact ==
    ASSUME TypeOK, NEW f \in Files, NEW id \in Ids, NEW c \in Contents
    PROVE  /\ PutDone(f, id, c) \in Job
           /\ PutDone(f, id, c).id = id
           /\ PutDone(f, id, c).encrypted = job[f].encrypted
           /\ PutDone(f, id, c).st \in {"digest", "trash", "done"}
<1>1. job[f] \in Job /\ c \in Digests /\ id \in Nat
  BY DEF TypeOK, Digests, Ids
<1>2. PICK st \in {"digest", "trash", "done"} :
         PutDone(f, id, c) = [job[f] EXCEPT !.st = st, !.id = id, !.data = c]
  BY Zenon DEF PutDone
<1>3. st \in JobStates
  BY DEF JobStates, Running, Finished
<1> QED BY <1>1, <1>2, <1>3 DEF Job

-----------------------------------------------------------------------------
(* Type correctness.                                                       *)

\* What the steps may assume of the state they start from.
Before == TypeOK /\ CurIsFile /\ JobsHaveIds /\ JobsTrack

LEMMA IdFact ==
    ASSUME Before, NEW f \in Files
    PROVE  /\ job[f].st \in NeedId => job[f].id \in Ids /\ job[f].id \in DOMAIN drive
           /\ job[f].st = "trash" => job[f].replaced \in DOMAIN drive
BY DEF Before, TypeOK, JobsHaveIds, JobsTrack, Tracks, Ids, Job

\* Applying a result keeps the manifest typed.
LEMMA ApplyType ==
    ASSUME Before, NEW f \in Files, ApplyResult(f)
    PROVE  /\ mem' \in Manifest
           /\ dirty' \in BOOLEAN
           /\ errors' \subseteq {"file", "prune"}
           /\ job' \in [Files -> Job]
<1> DEFINE j == job[f]
           md5 == IF j.data = Absent THEN local[f].content ELSE j.data
           entry == [md5 |-> md5, size |-> j.size, mtime |-> j.mtime, id |-> j.id,
                     encrypted |-> j.encrypted, pruned |-> FALSE]
<1>1. j \in Job /\ local[f].content \in Digests
  BY DEF Before, TypeOK
<1>2. md5 \in Digests /\ j.size \in Nat /\ j.mtime \in Nat /\ j.encrypted \in BOOLEAN
  BY <1>1 DEF Job
<1>3. j.st \in {"done", "leftover"} => entry \in Entry
  BY <1>2, IdFact DEF Entry, NeedId
<1>4. job' \in [Files -> Job]
  BY NoJobType DEF ApplyResult, Before, TypeOK
<1>5. errors' \subseteq {"file", "prune"}
  BY DEF ApplyResult, Before, TypeOK
<1>6. CASE j.st \in {"done", "leftover"}
  <2>1. mem' = [mem EXCEPT ![f] = entry] /\ dirty' = TRUE
    BY <1>6 DEF ApplyResult
  <2> HIDE DEF entry
  <2>2. mem' \in Manifest
    BY <1>3, <1>6, <2>1 DEF Before, TypeOK, Manifest
  <2> QED BY <1>4, <1>5, <2>1, <2>2
<1>7. CASE j.st \notin {"done", "leftover"}
  BY <1>4, <1>5, <1>7 DEF ApplyResult, Before, TypeOK
<1> QED BY <1>6, <1>7


\* Type correctness, by the three groups of steps.
LEMMA MainType == Before /\ MainStep => TypeOK'
<1> SUFFICES ASSUME Before, MainStep PROVE TypeOK'
  OBVIOUS
<1> USE DEF env, main, pool
<1>0. TypeOK
  BY DEF Before
<1>1. CASE FetchSnapshot
  BY <1>0, <1>1 DEF FetchSnapshot, TypeOK, Phases, UploadPhase
<1>2. CASE SkipFetch
  BY <1>0, <1>2, SpendType DEF SkipFetch, TypeOK, Phases, UploadPhase, Events
<1>3. ASSUME NEW f \in Files, ScanFile(f) PROVE TypeOK'
  <2>1. Present(f) => Size[local[f].content] \in Nat
    BY <1>0 DEF TypeOK, Present, Digests
  <2> QED BY <1>0, <1>3, <2>1 DEF ScanFile, TypeOK, Phases, UploadPhase, FileEntry
<1>4. ASSUME NEW f \in Files, ScanError(f) PROVE TypeOK'
  BY <1>0, <1>4, SpendType DEF ScanError, TypeOK, Phases, UploadPhase, Events
<1>5. CASE PrepareSkip
  BY <1>0, <1>5 DEF PrepareSkip, TypeOK, Phases, UploadPhase, FileEntry, NoCur
<1>6. CASE PrepareUpload
  <2>1. cur.file \in Files
    BY <1>6 DEF Before, CurIsFile, PrepareUpload
  <2>2. Work(cur.file) \in Job
    <3>1. mem[cur.file] # NoEntry => mem[cur.file].id \in Nat
      BY <1>0, <2>1 DEF TypeOK, Manifest, Entry, Ids
    <3>2. cur.size \in Nat /\ cur.mtime \in Nat /\ Encrypted(cur.file) \in BOOLEAN
      BY <1>0 DEF TypeOK, FileEntry, Encrypted
    <3> QED BY <3>1, <3>2 DEF Work, Job, JobStates, Digests
  <2>3. job' \in [Files -> Job]
    BY <1>0, <1>6, <2>1, <2>2 DEF PrepareUpload, TypeOK
  <2> QED BY <1>0, <1>6, <2>3 DEF PrepareUpload, TypeOK, Phases, UploadPhase
<1>7. CASE RecordFuture
  BY <1>0, <1>7 DEF RecordFuture, Before, CurIsFile, TypeOK, Phases, UploadPhase, FileEntry, NoCur
<1>8. CASE EndSkip \/ EndDrain \/ EndScan \/ EndSettle \/ SkipPrune \/ EndTrash
  BY <1>0, <1>8
  DEF EndSkip, EndDrain, EndScan, EndSettle, SkipPrune, EndTrash, TypeOK, Phases, UploadPhase,
      ClosingPhase
<1>9. ASSUME NEW f \in Files, TakeResult(f) PROVE TypeOK'
  BY <1>0, <1>9 DEF TakeResult, TypeOK
<1>10. CASE CompleteUpload
  BY <1>0, <1>10, ApplyType DEF CompleteUpload, TypeOK
<1>11. CASE Checkpoint
  BY <1>0, <1>11 DEF Checkpoint, TypeOK
<1>12. CASE SaveFails
  BY <1>0, <1>12, SpendType DEF SaveFails, TypeOK, Phases, Exits, Events
<1>13. CASE FlagStale
  <2>1. \A f \in Files : mem[f] \in Entry \cup {NoEntry}
    BY <1>0 DEF TypeOK, Manifest
  <2>2. \A f \in StaleEntries : [mem[f] EXCEPT !.pruned = TRUE] \in Entry
    BY <2>1 DEF StaleEntries, Entry
  <2>3. mem' \in Manifest
    BY <1>13, <2>1, <2>2 DEF FlagStale, Manifest
  <2> QED BY <1>0, <1>13, <2>3 DEF FlagStale, TypeOK, Phases, ClosingPhase
<1>14. CASE TrashStale
  <2>1. \A f \in StaleEntries : mem[f] \in Entry
    BY <1>0 DEF TypeOK, StaleEntries, Manifest
  <2>2. job' \in [Files -> Job]
    BY <1>0, <1>14, <2>1, NoJobType
    DEF TrashStale, TypeOK, Job, Entry, Ids, JobStates, Pruning
  <2> QED BY <1>0, <1>14, <2>2 DEF TrashStale, TypeOK, Phases, ClosingPhase, StaleEntries
<1>15. ASSUME NEW f \in Files, ApplyTrash(f) PROVE TypeOK'
  <2>1. job' \in [Files -> Job] /\ mem' \in Manifest
    BY <1>0, <1>15, NoJobType DEF ApplyTrash, TypeOK, Manifest
  <2> QED BY <1>0, <1>15, <2>1 DEF ApplyTrash, TypeOK
<1>16. CASE FinalCheckpoint
  BY <1>0, <1>16 DEF FinalCheckpoint, TypeOK, Phases, ClosingPhase
<1>17. CASE UploadSnapshot
  BY <1>0, <1>17, SpendType DEF UploadSnapshot, TypeOK, Phases, Exits, Events
<1>18. CASE CancelQueued
  BY <1>0, <1>18, NoJobType DEF CancelQueued, TypeOK, Phases, HandlerPhase
<1>19. CASE HandlerCheckpoint
  BY <1>0, <1>19, SpendType DEF HandlerCheckpoint, TypeOK, Phases, Events
<1>20. ASSUME NEW f \in Files, HandlerApply(f) PROVE TypeOK'
  BY <1>0, <1>20, ApplyType DEF HandlerApply, TypeOK
<1>21. CASE Shutdown
  BY <1>0, <1>21, NoJobType DEF Shutdown, TypeOK, Phases, FileEntry, NoCur
<1> QED
  BY <1>1, <1>2, <1>3, <1>4, <1>5, <1>6, <1>7, <1>8, <1>9, <1>10, <1>11, <1>12, <1>13, <1>14,
     <1>15, <1>16, <1>17, <1>18, <1>19, <1>20, <1>21
  DEF MainStep

\* A worker changes jobs, Drive files and the events left.
LEMMA WorkerType == ASSUME Before, NEW f \in Files, WorkerStep(f) PROVE TypeOK'
<1> USE DEF env, main
<1>0. TypeOK /\ job[f] \in Job /\ local[f].content \in Digests
  BY DEF Before, TypeOK
<1>a. ASSUME job' \in [Files -> Job], drive' \in Seq(DriveFile), budget' \in [Events -> Nat],
             UNCHANGED <<local, disk, snapshot, main, futures, taken>>
      PROVE  TypeOK'
  BY <1>0, <1>a DEF TypeOK
<1>b. /\ {"queued"} \cup Running \cup Finished \cup Pruning \subseteq JobStates
      /\ drive \in Seq(DriveFile) /\ budget \in [Events -> Nat] /\ job \in [Files -> Job]
  BY <1>0 DEF JobStates, TypeOK
<1>1. CASE StartJob(f)
  BY <1>1, <1>a, <1>b, GotoType DEF StartJob, Running
<1>2. CASE EncryptFile(f)
  <2>1. job' \in [Files -> Job]
    <3>1. CASE Present(f)
      <4>1. PICK st \in Running : job' = [job EXCEPT ![f].data = local[f].content, ![f].st = st]
        BY <1>2, <3>1 DEF EncryptFile, Running
      <4> QED BY <1>0, <1>b, <4>1 DEF Job
    <3>2. CASE ~Present(f)
      BY <1>2, <1>b, <3>2, GotoType DEF EncryptFile, Finished
    <3> QED BY <3>1, <3>2
  <2> QED BY <1>2, <2>1, <1>a, <1>b DEF EncryptFile
<1>3. ASSUME NEW id \in Ids, id \in DOMAIN drive, Readable(f),
             drive' = Overwritten(id, Payload(f)), job' = [job EXCEPT ![f] = PutDone(f, id, Payload(f))]
      PROVE  job' \in [Files -> Job] /\ drive' \in Seq(DriveFile)
  BY <1>3, <1>0, <1>b, PayloadFact, PutDoneFact, OverwrittenFact
<1>4. CASE UpdateKnown(f)
  <2>1. job[f].id \in Ids /\ job[f].id \in DOMAIN drive
    BY <1>4, IdFact DEF UpdateKnown, NeedId
  <2>2. job' \in [Files -> Job] /\ drive' \in Seq(DriveFile)
    <3>1. CASE Goto(f, "vanished") /\ UNCHANGED drive
      BY <1>b, <3>1, GotoType DEF Finished
    <3>2. CASE job' = [job EXCEPT ![f].st = "find", ![f].id = 0] /\ UNCHANGED drive
      BY <1>0, <1>b, <3>2 DEF Job, Running
    <3> QED BY <1>4, <1>3, <2>1, <3>1, <3>2 DEF UpdateKnown
  <2> QED BY <1>4, <2>2, <1>a, <1>b DEF UpdateKnown
<1>5. CASE FindByName(f)
  <2>1. CASE Goto(f, "create")
    BY <1>5, <2>1, <1>a, <1>b, GotoType DEF FindByName, Running
  <2>2. ASSUME NEW i \in Named(f, job[f].encrypted),
               job' = [job EXCEPT ![f].st = "overwrite", ![f].id = i]
        PROVE  TypeOK'
    <3>1. i \in Nat
      BY <1>b, LenProperties DEF Named
    <3>2. job' \in [Files -> Job]
      BY <1>0, <1>b, <2>2, <3>1 DEF Job, Running
    <3> QED BY <1>5, <3>2, <1>a, <1>b DEF FindByName
  <2> QED BY <1>5, <2>1, <2>2 DEF FindByName
<1>6. CASE OverwriteFound(f)
  <2>1. job[f].id \in Ids /\ job[f].id \in DOMAIN drive
    BY <1>6, IdFact DEF OverwriteFound, NeedId
  <2>2. job' \in [Files -> Job] /\ drive' \in Seq(DriveFile)
    <3>1. CASE (Goto(f, "vanished") \/ Goto(f, "failed")) /\ UNCHANGED drive
      BY <1>b, <3>1, GotoType DEF Finished
    <3> QED BY <1>6, <1>3, <2>1, <3>1 DEF OverwriteFound
  <2> QED BY <1>6, <2>2, <1>a, <1>b DEF OverwriteFound
<1>7. CASE CreateFile(f)
  <2>1. job' \in [Files -> Job] /\ drive' \in Seq(DriveFile)
    <3>1. CASE Goto(f, "vanished") /\ UNCHANGED drive
      BY <1>b, <3>1, GotoType DEF Finished
    <3>2. CASE /\ Readable(f)
               /\ drive' = Created(f, Payload(f))
               /\ job' = [job EXCEPT ![f] = PutDone(f, Len(drive) + 1, Payload(f))]
      <4>1. Len(drive) + 1 \in Ids
        BY <1>b, LenProperties DEF Ids
      <4> QED BY <3>2, <4>1, <1>0, <1>b, PayloadFact, PutDoneFact, CreatedFact
    <3> QED BY <1>7, <3>1, <3>2 DEF CreateFile
  <2> QED BY <1>7, <2>1, <1>a, <1>b DEF CreateFile
<1>8. CASE DigestPlaintext(f)
  <2>1. PICK st \in {"trash", "done"} :
            job' = [job EXCEPT ![f].data = local[f].content, ![f].st = st]
    BY <1>8 DEF DigestPlaintext
  <2>2. job' \in [Files -> Job]
    BY <1>0, <1>b, <2>1 DEF Job, Running, Finished
  <2> QED BY <1>8, <2>2, <1>a, <1>b DEF DigestPlaintext
<1>9. CASE TrashReplaced(f)
  BY <1>9, <1>a, <1>b, GotoType, IdFact, TrashedFact DEF TrashReplaced, Finished
<1>c. job[f].st \in JobStates
  BY <1>0 DEF Job
<1>10. CASE CallFails(f)
  BY <1>10, <1>a, <1>b, <1>c, GotoType, GiveUpFact, SpendType DEF CallFails, Finished, Running, Events
<1>11. CASE AnswerLost(f)
  <2>1. budget' \in [Events -> Nat]
    BY <1>11, <1>b, SpendType DEF AnswerLost, Events
  <2>2. job' \in [Files -> Job]
    BY <1>11, <1>b, <1>c, GotoType, GiveUpFact DEF AnswerLost, Finished, Running
  <2>3. drive' \in Seq(DriveFile)
    <3>1. job[f].st \in {"update", "overwrite"} => job[f].id \in DOMAIN drive
      BY IdFact DEF NeedId
    <3>2. job[f].st = "trash" => job[f].replaced \in DOMAIN drive
      BY IdFact
    <3>3. CASE /\ job[f].st \in {"update", "overwrite"} /\ Readable(f)
               /\ drive' = Overwritten(job[f].id, Payload(f))
      BY <1>0, <1>b, <3>1, <3>3, PayloadFact, OverwrittenFact
    <3>4. CASE Readable(f) /\ drive' = Created(f, Payload(f))
      BY <1>0, <1>b, <3>4, PayloadFact, CreatedFact
    <3>5. CASE job[f].st = "trash" /\ drive' = Trashed(job[f].replaced)
      BY <1>b, <3>2, <3>5, TrashedFact
    <3> QED BY <1>11, <3>3, <3>4, <3>5 DEF AnswerLost
  <2> QED BY <1>11, <2>1, <2>2, <2>3, <1>a DEF AnswerLost
<1>12. CASE TrashCall(f)
  <2>1. job[f].id \in DOMAIN drive
    BY <1>12, IdFact DEF TrashCall, NeedId, Pruning
  <2>2. drive' \in Seq(DriveFile)
    BY <1>12, <1>b, <2>1, TrashedFact DEF TrashCall
  <2>3. job' \in [Files -> Job] /\ budget' \in [Events -> Nat]
    BY <1>12, <1>b, GotoType, SpendType DEF TrashCall, Pruning, Events
  <2> QED BY <1>12, <2>2, <2>3, <1>a DEF TrashCall
<1>13. CASE Reconcile(f)
  <2>1. CASE Goto(f, "failed")
    BY <1>13, <2>1, <1>a, <1>b, GotoType DEF Reconcile, Finished
  <2>2. ASSUME NEW i \in Named(f, job[f].encrypted),
               job' = [job EXCEPT ![f].st = "overwrite", ![f].id = i]
        PROVE  TypeOK'
    <3>1. i \in Nat
      BY <1>b, LenProperties DEF Named
    <3>2. job' \in [Files -> Job]
      BY <1>0, <1>b, <2>2, <3>1 DEF Job, Running
    <3> QED BY <1>13, <3>2, <1>a, <1>b DEF Reconcile
  <2> QED BY <1>13, <2>1, <2>2 DEF Reconcile
<1>14. CASE CreateAgain(f)
  <2>1. drive' \in Seq(DriveFile)
    BY <1>0, <1>14, <1>b, PayloadFact, CreatedFact DEF CreateAgain
  <2> QED BY <1>14, <2>1, <1>a, <1>b, SpendType DEF CreateAgain, pool, Events
<1> QED
  BY <1>1, <1>2, <1>4, <1>5, <1>6, <1>7, <1>8, <1>9, <1>10, <1>11, <1>12, <1>13, <1>14
  DEF WorkerStep

LEMMA EnvironmentType == Before /\ Environment => TypeOK'
<1> SUFFICES ASSUME Before, Environment PROVE TypeOK'
  OBVIOUS
<1> USE DEF env, main, pool
<1>0. TypeOK
  BY DEF Before
<1>1. ASSUME NEW o \in Options, Start(o) PROVE TypeOK'
  BY <1>0, <1>1, SpendType, EmptyType DEF Start, TypeOK, Phases, Exits, Events
<1>2. CASE Interrupt
  BY <1>0, <1>2, SpendType
  DEF Interrupt, TypeOK, Phases, HandlerPhase, Exits, Events, FileEntry, NoCur
<1>3. CASE Crash
  BY <1>0, <1>3, SpendType, EmptyType, NoJobType
  DEF Crash, TypeOK, Phases, Exits, Events, FileEntry, NoCur
<1>4. CASE LoseManifest
  BY <1>0, <1>4, SpendType DEF LoseManifest, TypeOK, Events
<1>5. ASSUME NEW f \in Files, Write(f) PROVE TypeOK'
  <2>1. local' \in [Files -> [content: Digests, mtime: Nat]]
    BY <1>0, <1>5 DEF Write, TypeOK
  <2> QED BY <1>0, <1>5, <2>1, SpendType DEF Write, TypeOK, Events
<1>6. ASSUME NEW i \in DOMAIN drive, Purge(i) PROVE TypeOK'
  <2> DEFINE new == [drive[i] EXCEPT !.state = "purged"]
  <2>1. drive[i] \in DriveFile /\ i \in 1 .. Len(drive)
    BY <1>0, ElementOfSeq, LenProperties DEF TypeOK
  <2>2. new \in DriveFile
    BY <2>1 DEF DriveFile
  <2>3. drive' = [drive EXCEPT ![i] = new]
    BY <1>6 DEF Purge
  <2> HIDE DEF new
  <2>4. drive' \in Seq(DriveFile)
    BY <1>0, <2>1, <2>2, <2>3, ExceptSeq DEF TypeOK
  <2> QED BY <1>0, <1>6, <2>4, SpendType DEF Purge, TypeOK, Events
<1> QED BY <1>1, <1>2, <1>3, <1>4, <1>5, <1>6 DEF Environment

LEMMA TypeNext == Before /\ [Next]_vars => TypeOK'
<1>1. Before /\ UNCHANGED vars => TypeOK'
  BY DEF Before, TypeOK, vars, env, main, pool
<1> QED BY <1>1, MainType, WorkerType, EnvironmentType DEF Next

-----------------------------------------------------------------------------
(* Ids keep their names, so what is recorded stays right.                  *)

\* No step removes a Drive file or renames one.
LEMMA WorkerGrows == ASSUME Before, NEW f \in Files, WorkerStep(f) PROVE DriveGrows
<1> USE DEF DriveGrows
<1>0. TypeOK /\ drive \in Seq(DriveFile) /\ job \in [Files -> Job]
  BY DEF Before, TypeOK
<1>1. CASE UNCHANGED drive
  BY <1>1
<1>2. ASSUME NEW id \in DOMAIN drive, Readable(f), drive' = Overwritten(id, Payload(f))
      PROVE  DriveGrows
  BY <1>0, <1>2, PayloadFact, OverwrittenFact
<1>3. CASE Readable(f) /\ drive' = Created(f, Payload(f))
  <2>1. Payload(f) \in Contents
    BY <1>0, <1>3, PayloadFact
  <2>2. /\ DOMAIN drive' = DOMAIN drive \cup {Len(drive) + 1}
        /\ \A i \in DOMAIN drive : drive'[i].name = drive[i].name
    <3> DEFINE new == Created(f, Payload(f))
    <3>1. DOMAIN new = DOMAIN drive \cup {Len(drive) + 1} /\ \A i \in DOMAIN drive : new[i] = drive[i]
      BY <1>0, <2>1, CreatedFact
    <3>2. drive' = new
      BY <1>3
    <3> HIDE DEF new
    <3> QED BY <3>1, <3>2
  <2> QED BY <2>2
<1>4. ASSUME NEW id \in DOMAIN drive, drive' = Trashed(id)
      PROVE  DriveGrows
  BY <1>0, <1>4, TrashedFact
<1>5. /\ job[f].st \in {"update", "overwrite", "prune"} => job[f].id \in DOMAIN drive
      /\ job[f].st = "trash" => job[f].replaced \in DOMAIN drive
  BY IdFact DEF NeedId, Pruning
<1>6. CASE StartJob(f) \/ EncryptFile(f) \/ FindByName(f) \/ DigestPlaintext(f) \/ CallFails(f)
           \/ Reconcile(f)
  BY <1>1, <1>6 DEF StartJob, EncryptFile, FindByName, DigestPlaintext, CallFails, Reconcile, env
<1>7. CASE UpdateKnown(f) \/ OverwriteFound(f)
  BY <1>1, <1>2, <1>5, <1>7 DEF UpdateKnown, OverwriteFound
<1>8. CASE CreateFile(f) \/ CreateAgain(f)
  BY <1>1, <1>3, <1>8 DEF CreateFile, CreateAgain
<1>9. CASE TrashReplaced(f) \/ TrashCall(f)
  BY <1>1, <1>4, <1>5, <1>9 DEF TrashReplaced, TrashCall
<1>10. CASE AnswerLost(f)
  BY <1>2, <1>3, <1>4, <1>5, <1>10 DEF AnswerLost
<1> QED BY <1>6, <1>7, <1>8, <1>9, <1>10 DEF WorkerStep

\* Only workers and the web interface change Drive's files.
LEMMA OthersKeepDrive ==
    MainStep \/ UNCHANGED vars \/ (\E o \in Options : Start(o)) \/ Interrupt \/ Crash
        \/ LoseManifest \/ (\E f \in Files : Write(f))
    => UNCHANGED drive
BY DEF MainStep, FetchSnapshot, SkipFetch, ScanFile, ScanError, PrepareSkip, PrepareUpload,
       RecordFuture, EndSkip, EndDrain, EndScan, EndSettle, TakeResult, CompleteUpload,
       Checkpoint, SaveFails, SkipPrune, FlagStale, TrashStale, EndTrash, ApplyTrash,
       FinalCheckpoint, UploadSnapshot, CancelQueued, HandlerCheckpoint, HandlerApply, Shutdown,
       Start, Interrupt, Crash, LoseManifest, Write, vars, env

LEMMA PurgeGrows == ASSUME NEW i \in DOMAIN drive, Purge(i), TypeOK PROVE DriveGrows
<1>1. DOMAIN drive' = DOMAIN drive /\ drive[i] \in DriveFile
  <2>1. drive \in Seq(DriveFile) /\ i \in 1 .. Len(drive)
    BY LenProperties DEF TypeOK
  <2>2. drive[i] \in DriveFile
    BY <2>1, ElementOfSeq
  <2> QED BY <2>2 DEF Purge
<1>2. \A j \in DOMAIN drive : drive'[j].name = drive[j].name
  BY <1>1 DEF Purge, DriveFile
<1> QED BY <1>1, <1>2 DEF DriveGrows

LEMMA GrowsNext == Before /\ [Next]_vars => DriveGrows
<1>1. UNCHANGED drive => DriveGrows
  BY DEF DriveGrows
<1> QED BY <1>1, WorkerGrows, PurgeGrows, OthersKeepDrive DEF Next, Environment, Before

-----------------------------------------------------------------------------
(* The other parts of the invariant.                                       *)

\* prepare and record have a file at hand.
LEMMA CurNext == Before /\ [Next]_vars => CurIsFile'
<1> SUFFICES ASSUME Before, [Next]_vars PROVE CurIsFile'
  OBVIOUS
<1> USE DEF env, main, pool
<1>0. CurIsFile
  BY DEF Before
<1>1. CASE UNCHANGED <<pc, cur>>
  BY <1>0, <1>1 DEF CurIsFile
<1>2. CASE pc' \notin {"prepare", "record"}
  BY <1>2 DEF CurIsFile
<1>3. ASSUME NEW f \in Files, ScanFile(f) PROVE CurIsFile'
  BY <1>0, <1>3 DEF ScanFile, CurIsFile
<1>4. CASE PrepareUpload
  BY <1>0, <1>4 DEF PrepareUpload, CurIsFile
<1>5. CASE MainStep
  BY <1>1, <1>2, <1>3, <1>4, <1>5
  DEF MainStep, FetchSnapshot, SkipFetch, ScanError, PrepareSkip, RecordFuture, EndSkip, EndDrain,
      EndScan, EndSettle, TakeResult, CompleteUpload, Checkpoint, SaveFails, SkipPrune, FlagStale,
      TrashStale, EndTrash, ApplyTrash, FinalCheckpoint, UploadSnapshot, CancelQueued,
      HandlerCheckpoint, HandlerApply, Shutdown
<1>6. ASSUME NEW f \in Files, WorkerStep(f) PROVE CurIsFile'
  BY <1>1, <1>6
  DEF WorkerStep, StartJob, EncryptFile, UpdateKnown, FindByName, OverwriteFound, CreateFile,
      DigestPlaintext, TrashReplaced, Reconcile, CallFails, AnswerLost, CreateAgain, TrashCall
<1>7. CASE Environment
  BY <1>1, <1>2, <1>7 DEF Environment, Start, Interrupt, Crash, LoseManifest, Write, Purge
<1> QED BY <1>1, <1>5, <1>6, <1>7 DEF Next, vars

\* Both facts about one file's job.
JobOK(f) == /\ job[f].st \in NeedId => job[f].id # 0
            /\ job[f].st = "trash" => job[f].replaced # 0
            /\ job[f].id # 0 => Tracks(f, job[f].id, job[f].encrypted)
            /\ job[f].replaced # 0 => Tracks(f, job[f].replaced, ~job[f].encrypted)

\* The invariants of the jobs, job by job.
LEMMA JobsOK == JobsHaveIds /\ JobsTrack <=> \A f \in Files : JobOK(f)
BY DEF JobsHaveIds, JobsTrack, JobOK

LEMMA JobKept ==
    ASSUME TypeOK, DriveGrows, NEW f \in Files, JobOK(f), job'[f] = job[f]
    PROVE  JobOK(f)'
<1>1. job[f].encrypted \in BOOLEAN
  BY DEF TypeOK, Job
<1> QED BY <1>1 DEF JobOK, Tracks, DriveGrows

\* A job that moves on keeps its aims.
LEMMA JobMoved ==
    ASSUME TypeOK, DriveGrows, NEW f \in Files, JobOK(f), NEW st \in JobStates,
           st \in NeedId => job[f].id # 0, st = "trash" => job[f].replaced # 0,
           job'[f].st = st, job'[f].id = job[f].id,
           job'[f].replaced = job[f].replaced, job'[f].encrypted = job[f].encrypted
    PROVE  JobOK(f)'
<1>1. job[f].encrypted \in BOOLEAN
  BY DEF TypeOK, Job
<1> QED BY <1>1 DEF JobOK, Tracks, DriveGrows

LEMMA JobGone ==
    ASSUME NEW f \in Files, job'[f] = NoJob
    PROVE  JobOK(f)'
BY DEF JobOK, NoJob, NeedId, Pruning

\* A job that Drive has answered with an id.
LEMMA JobPut ==
    ASSUME TypeOK, DriveGrows, NEW f \in Files, JobOK(f), NEW id \in Ids, NEW c,
           Tracks(f, id, job[f].encrypted)', job'[f] = PutDone(f, id, c)
    PROVE  JobOK(f)'
<1>1. job[f] \in Job /\ job[f].encrypted \in BOOLEAN
  BY DEF TypeOK, Job
<1>2. PICK st \in {"digest", "trash", "done"} :
         /\ job'[f] = [job[f] EXCEPT !.st = st, !.id = id, !.data = c]
         /\ st = "trash" => job[f].replaced # 0
  BY Zenon DEF PutDone, Replaces
<1>3. /\ job'[f].st = st /\ job'[f].id = id
      /\ job'[f].replaced = job[f].replaced /\ job'[f].encrypted = job[f].encrypted
  BY <1>1, <1>2 DEF Job
<1>4. st = "trash" => job[f].replaced # 0
  BY <1>2
<1>5. (job[f].replaced # 0 => Tracks(f, job[f].replaced, ~job[f].encrypted))'
  BY <1>1, <1>3 DEF JobOK, Tracks, DriveGrows
<1> QED BY <1>3, <1>4, <1>5 DEF JobOK, Ids, Tracks


\* Main thread and workers keep them.
LEMMA MainJobs ==
    ASSUME Before, ManifestTracksOwnFile, MainStep, DriveGrows, NEW f \in Files
    PROVE  JobOK(f)'
<1> USE DEF env, main, pool
<1>0. TypeOK /\ JobOK(f) /\ job \in [Files -> Job]
  BY JobsOK DEF Before, TypeOK
<1>1. CASE job'[f] = job[f]
  BY <1>0, <1>1, JobKept
<1>2. CASE job'[f] = NoJob
  BY <1>2, JobGone
<1>3. CASE PrepareUpload
  <2>1. cur.file \in Files /\ (cur.file # f => job'[f] = job[f])
    BY <1>0, <1>3 DEF PrepareUpload, Before, CurIsFile
  <2>2. CASE cur.file = f
    <3>1. job'[f] = Work(f)
      BY <1>0, <1>3, <2>2 DEF PrepareUpload
    <3>2. mem[f] # NoEntry => /\ mem[f].encrypted \in BOOLEAN
                              /\ Tracks(f, mem[f].id, mem[f].encrypted)
      BY <1>0 DEF ManifestTracksOwnFile, OwnCopies, TypeOK, Manifest, Entry
    <3>3. Encrypted(f) \in BOOLEAN
      BY <1>0 DEF Encrypted, TypeOK
    <3>4. /\ Work(f).st = "queued" /\ Work(f).encrypted = Encrypted(f)
          /\ Work(f).id # 0 => /\ mem[f] # NoEntry /\ Work(f).id = mem[f].id
                               /\ mem[f].encrypted = Encrypted(f)
          /\ Work(f).replaced # 0 => /\ mem[f] # NoEntry /\ Work(f).replaced = mem[f].id
                                     /\ mem[f].encrypted # Encrypted(f)
      BY DEF Work
    <3> QED BY <3>1, <3>2, <3>3, <3>4 DEF JobOK, NeedId, Pruning, Tracks, DriveGrows
  <2> QED BY <1>1, <2>1, <2>2
<1>4. CASE TrashStale
  <2>1. CASE f \in StaleEntries
    <3>1. job'[f] = [NoJob EXCEPT !.st = "prune", !.id = mem[f].id, !.encrypted = mem[f].encrypted]
      BY <1>4, <2>1 DEF TrashStale
    <3>2. Tracks(f, mem[f].id, mem[f].encrypted) /\ mem[f].id # 0
      BY <1>0, <2>1 DEF ManifestTracksOwnFile, OwnCopies, StaleEntries, TypeOK, Manifest, Entry, Ids
    <3> QED BY <3>1, <3>2 DEF JobOK, NoJob, Tracks, DriveGrows
  <2>2. CASE f \notin StaleEntries
    BY <1>1, <1>4, <2>2 DEF TrashStale
  <2> QED BY <2>1, <2>2
<1>5. CASE ~PrepareUpload /\ ~TrashStale
  <2>1. job'[f] = job[f] \/ job'[f] = NoJob
    BY <1>0, <1>5
    DEF MainStep, FetchSnapshot, SkipFetch, ScanFile, ScanError, PrepareSkip, RecordFuture, EndSkip,
        EndDrain, EndScan, EndSettle, TakeResult, CompleteUpload, ApplyResult, Checkpoint,
        SaveFails, SkipPrune, FlagStale, EndTrash, ApplyTrash, FinalCheckpoint, UploadSnapshot,
        CancelQueued, HandlerCheckpoint, HandlerApply, Shutdown
  <2> QED BY <1>1, <1>2, <2>1
<1> QED BY <1>3, <1>4, <1>5

LEMMA WorkerJobs ==
    ASSUME Before, NEW g \in Files, WorkerStep(g), DriveGrows, NEW f \in Files
    PROVE  JobOK(f)'
<1>0. TypeOK /\ JobOK(f) /\ JobOK(g) /\ job \in [Files -> Job]
  BY JobsOK DEF Before, TypeOK
<1>1. CASE f # g
  <2>1. job'[f] = job[f]
    BY <1>0, <1>1
    DEF WorkerStep, StartJob, EncryptFile, UpdateKnown, FindByName, OverwriteFound, CreateFile,
        DigestPlaintext, TrashReplaced, Reconcile, CallFails, AnswerLost, CreateAgain, TrashCall,
        Goto, pool
  <2> QED BY <1>0, <2>1, JobKept
<1>2. CASE f = g
  <2> USE <1>2
  <2>0. job[f] \in Job
    BY <1>0
  <2>1. ASSUME NEW st \in JobStates, Goto(f, st), st \in NeedId => job[f].id # 0,
               st = "trash" => job[f].replaced # 0
        PROVE  JobOK(f)'
    <3>1. job'[f] = [job[f] EXCEPT !.st = st]
      BY <1>0, <2>1 DEF Goto
    <3>2. /\ job'[f].st = st /\ job'[f].id = job[f].id
          /\ job'[f].replaced = job[f].replaced /\ job'[f].encrypted = job[f].encrypted
      BY <2>0, <3>1 DEF Job
    <3> QED BY <1>0, <2>1, <3>2, JobMoved
  <2>2. ASSUME NEW st \in JobStates, NEW d,
               job' = [job EXCEPT ![f].data = d, ![f].st = st],
               st \in NeedId => job[f].id # 0, st = "trash" => job[f].replaced # 0
        PROVE  JobOK(f)'
    <3>1. job'[f] = [job[f] EXCEPT !.data = d, !.st = st]
      BY <1>0, <2>2
    <3>2. /\ job'[f].st = st /\ job'[f].id = job[f].id
          /\ job'[f].replaced = job[f].replaced /\ job'[f].encrypted = job[f].encrypted
      BY <2>0, <3>1 DEF Job
    <3> QED BY <1>0, <2>2, <3>2, JobMoved
  <2>3. ASSUME NEW id \in Ids, NEW c, job' = [job EXCEPT ![f] = PutDone(f, id, c)],
               id \in DOMAIN drive', drive'[id].name = NameOf[<<f, job[f].encrypted>>]
        PROVE  JobOK(f)'
    <3>1. job'[f] = PutDone(f, id, c)
      BY <1>0, <2>3
    <3>2. PICK st : job'[f] = [job[f] EXCEPT !.st = st, !.id = id, !.data = c]
      BY <3>1, Zenon DEF PutDone
    <3>3. job'[f].encrypted = job[f].encrypted
      BY <2>0, <3>2 DEF Job
    <3>4. Tracks(f, id, job[f].encrypted)'
      BY <2>3, <3>3 DEF Tracks
    <3> QED BY <1>0, <3>1, <3>4, JobPut
  <2>4. CASE StartJob(f)
    BY <2>1, <2>4 DEF StartJob, NeedId, Pruning, JobStates, Running
  <2>5. CASE EncryptFile(f)
    <3>1. CASE job' = [job EXCEPT ![f].data = local[f].content,
                                  ![f].st = IF job[f].id # 0 THEN "update" ELSE "find"]
      <4>1. CASE job[f].id # 0
        <5>1. job' = [job EXCEPT ![f].data = local[f].content, ![f].st = "update"]
          BY <3>1, <4>1
        <5>2. "update" \in JobStates /\ "update" # "trash"
          BY DEF JobStates, Running
        <5> QED BY <2>2, <4>1, <5>1, <5>2, Zenon
      <4>2. CASE job[f].id = 0
        <5>1. job' = [job EXCEPT ![f].data = local[f].content, ![f].st = "find"]
          BY <3>1, <4>2
        <5>2. "find" \in JobStates /\ "find" # "trash" /\ "find" \notin NeedId
          BY DEF NeedId, Pruning, JobStates, Running
        <5> QED BY <2>2, <5>1, <5>2, Zenon
      <4> QED BY <4>1, <4>2
    <3>2. CASE Goto(f, "vanished")
      BY <2>1, <3>2 DEF NeedId, Pruning, JobStates, Finished
    <3> QED BY <2>5, <3>1, <3>2 DEF EncryptFile
  <2>6. job[f].st \in {"update", "overwrite"} =>
            /\ job[f].id \in Ids /\ job[f].id \in DOMAIN drive'
            /\ drive'[job[f].id].name = NameOf[<<f, job[f].encrypted>>]
    BY <1>0, IdFact DEF JobOK, NeedId, Tracks, DriveGrows
  <2>7. CASE UpdateKnown(f)
    <3>1. CASE job' = [job EXCEPT ![f].st = "find", ![f].id = 0]
      <4>1. job'[f] = [job[f] EXCEPT !.st = "find", !.id = 0]
        BY <1>0, <3>1
      <4>2. /\ job'[f].st = "find" /\ job'[f].id = 0
            /\ job'[f].replaced = job[f].replaced /\ job'[f].encrypted = job[f].encrypted
        BY <2>0, <4>1 DEF Job
      <4>3. job[f].encrypted \in BOOLEAN
        BY <2>0 DEF Job
      <4> QED BY <1>0, <4>2, <4>3 DEF JobOK, NeedId, Pruning, Tracks, DriveGrows
    <3> QED BY <2>1, <2>3, <2>6, <2>7, <3>1
            DEF UpdateKnown, NeedId, Pruning, JobStates, Finished
  <2>f. ASSUME NEW i \in Named(f, job[f].encrypted),
               job' = [job EXCEPT ![f].st = "overwrite", ![f].id = i]
        PROVE  JobOK(f)'
    <3>1. job'[f] = [job[f] EXCEPT !.st = "overwrite", !.id = i]
      BY <1>0, <2>f
    <3>2. /\ job'[f].st = "overwrite" /\ job'[f].id = i
          /\ job'[f].replaced = job[f].replaced /\ job'[f].encrypted = job[f].encrypted
      BY <2>0, <3>1 DEF Job
    <3>3. i \in DOMAIN drive /\ drive[i].name = NameOf[<<f, job[f].encrypted>>] /\ i # 0
      BY <1>0, LenProperties DEF Named, TypeOK
    <3>4. job[f].encrypted \in BOOLEAN
      BY <2>0 DEF Job
    <3> QED BY <1>0, <3>2, <3>3, <3>4 DEF JobOK, Tracks, DriveGrows
  <2>8. CASE FindByName(f) \/ Reconcile(f)
    BY <2>1, <2>8, <2>f
    DEF FindByName, Reconcile, NeedId, Pruning, JobStates, Running, Finished
  <2>9. CASE OverwriteFound(f)
    BY <2>1, <2>3, <2>6, <2>9 DEF OverwriteFound, NeedId, Pruning, JobStates, Finished
  <2>10. CASE CreateFile(f)
    <3>1. CASE Goto(f, "vanished")
      BY <2>1, <3>1 DEF NeedId, Pruning, JobStates, Finished
    <3>2. CASE /\ Readable(f) /\ drive' = Created(f, Payload(f))
               /\ job' = [job EXCEPT ![f] = PutDone(f, Len(drive) + 1, Payload(f))]
      <4>1. /\ Len(drive) + 1 \in Ids /\ Len(drive) + 1 \in DOMAIN drive'
            /\ drive'[Len(drive) + 1].name = NameOf[<<f, job[f].encrypted>>]
        <5>1. drive \in Seq(DriveFile) /\ Payload(f) \in Contents
          BY <1>0, <3>2, PayloadFact DEF TypeOK
        <5>2. Len(drive) + 1 \in Ids
          BY <5>1, LenProperties DEF Ids
        <5>3. /\ DOMAIN Created(f, Payload(f)) = DOMAIN drive \cup {Len(drive) + 1}
              /\ Created(f, Payload(f))[Len(drive) + 1].name = NameOf[<<f, job[f].encrypted>>]
          BY <1>0, <5>1, CreatedFact
        <5> QED BY <3>2, <5>2, <5>3
      <4> QED BY <2>3, <3>2, <4>1
    <3> QED BY <2>10, <3>1, <3>2 DEF CreateFile
  <2>11. CASE DigestPlaintext(f)
    <3>1. job[f].id # 0
      BY <1>0, <2>11 DEF DigestPlaintext, JobOK, NeedId
    <3>2. CASE Replaces(job[f], job[f].id)
      <4>1. job' = [job EXCEPT ![f].data = local[f].content, ![f].st = "trash"]
        BY <2>11, <3>2 DEF DigestPlaintext
      <4>2. job[f].replaced # 0 /\ "trash" \in JobStates
        BY <3>2 DEF Replaces, JobStates, Running
      <4> QED BY <2>2, <3>1, <4>1, <4>2
    <3>3. CASE ~Replaces(job[f], job[f].id)
      <4>1. job' = [job EXCEPT ![f].data = local[f].content, ![f].st = "done"]
        BY <2>11, <3>3 DEF DigestPlaintext
      <4>2. "done" \in JobStates
        BY DEF JobStates, Finished
      <4> QED BY <2>2, <3>1, <4>1, <4>2
    <3> QED BY <3>2, <3>3
  <2>12. CASE TrashReplaced(f) \/ CallFails(f) \/ AnswerLost(f)
    <3>1. job[f].st = "trash" => job[f].id # 0
      BY <1>0 DEF JobOK, NeedId
    <3>2. ASSUME NEW st \in GiveUp(job[f].st), Goto(f, st) PROVE JobOK(f)'
      <4>1. job[f].st \in JobStates
        BY <2>0 DEF Job
      <4>2. st \in JobStates /\ (st \in NeedId => job[f].id # 0) /\ st # "trash"
        BY <3>1, <4>1, GiveUpFact DEF NeedId, Pruning, JobStates, Finished, Running
      <4> QED BY <2>1, <3>2, <4>2
    <3> QED BY <2>1, <2>12, <3>1, <3>2
            DEF TrashReplaced, CallFails, AnswerLost, NeedId, Pruning, JobStates, Finished
  <2>13. CASE TrashCall(f)
    <3>1. job[f].id # 0
      BY <1>0, <2>13 DEF TrashCall, JobOK, NeedId, Pruning
    <3> QED BY <2>1, <2>13, <3>1 DEF TrashCall, JobStates, Pruning
  <2>14. CASE CreateAgain(f)
    BY <1>0, <2>14, JobKept DEF CreateAgain, pool
  <2> QED BY <2>4, <2>5, <2>7, <2>8, <2>9, <2>10, <2>11, <2>12, <2>13, <2>14 DEF WorkerStep
<1> QED BY <1>1, <1>2

LEMMA JobsNext ==
    Before /\ ManifestTracksOwnFile /\ [Next]_vars => JobsHaveIds' /\ JobsTrack'
<1> SUFFICES ASSUME Before, ManifestTracksOwnFile, [Next]_vars PROVE JobsHaveIds' /\ JobsTrack'
  OBVIOUS
<1>1. DriveGrows
  BY GrowsNext
<1>2. \A f \in Files : JobOK(f)'
  <2> TAKE f \in Files
  <2>0. TypeOK /\ JobOK(f)
    BY JobsOK DEF Before
  <2>1. CASE job'[f] = job[f]
    BY <1>1, <2>0, <2>1, JobKept
  <2>2. CASE Environment
    <3>1. job'[f] = job[f] \/ job'[f] = NoJob
      BY <2>2 DEF Environment, Start, Interrupt, Crash, LoseManifest, Write, Purge, pool
    <3> QED BY <2>1, <3>1, JobGone
  <2>3. CASE UNCHANGED vars
    BY <2>1, <2>3 DEF vars, pool
  <2> QED BY <1>1, <2>2, <2>3, MainJobs, WorkerJobs DEF Next
<1> QED BY <1>2 DEF JobsHaveIds, JobsTrack, JobOK

-----------------------------------------------------------------------------
(* The manifests keep naming the files' own copies.                        *)

\* OwnCopies, against Drive after the step
OwnAfter(m) ==
    \A f \in Files : m[f] # NoEntry =>
        m[f].id \in DOMAIN drive' /\ drive'[m[f].id].name = NameOf[<<f, m[f].encrypted>>]

\* A manifest that tracks its own files still does when Drive has grown.
LEMMA OwnKept == ASSUME DriveGrows, NEW m, OwnCopies(m) PROVE OwnAfter(m)
BY DEF OwnCopies, OwnAfter, Tracks, DriveGrows

LEMMA OwnApplied ==
    ASSUME Before, OwnCopies(mem), UNCHANGED drive, NEW f \in Files, ApplyResult(f)
    PROVE  OwnAfter(mem')
<1>0. mem \in Manifest /\ OwnAfter(mem)
  BY OwnKept DEF Before, TypeOK, DriveGrows
<1>1. CASE job[f].st \in {"done", "leftover"}
  <2>1. Tracks(f, job[f].id, job[f].encrypted)
    BY <1>1 DEF Before, JobsHaveIds, JobsTrack, NeedId
  <2>2. \A g \in Files : g # f => mem'[g] = mem[g]
    BY <1>0, <1>1 DEF ApplyResult, Manifest
  <2>3. mem'[f].id = job[f].id /\ mem'[f].encrypted = job[f].encrypted
    BY <1>0, <1>1 DEF ApplyResult, Manifest
  <2> QED BY <1>0, <2>1, <2>2, <2>3 DEF OwnAfter, Tracks
<1>2. CASE job[f].st \notin {"done", "leftover"}
  BY <1>0, <1>2 DEF ApplyResult
<1> QED BY <1>1, <1>2

LEMMA ManifestsNext ==
    Before /\ ManifestTracksOwnFile /\ [Next]_vars => ManifestTracksOwnFile'
<1> SUFFICES ASSUME Before, ManifestTracksOwnFile, [Next]_vars PROVE ManifestTracksOwnFile'
  OBVIOUS
<1> DEFINE After == /\ OwnAfter(mem')
                    /\ disk' # Missing => OwnAfter(disk')
                    /\ snapshot' # Missing => OwnAfter(snapshot')
<1>0. /\ OwnAfter(mem) /\ mem \in Manifest
      /\ disk # Missing => OwnAfter(disk)
      /\ snapshot # Missing => OwnAfter(snapshot)
      /\ OwnAfter(EmptyManifest)
  BY GrowsNext, OwnKept DEF ManifestTracksOwnFile, Before, TypeOK, OwnAfter, EmptyManifest
<1>1. Missing # mem
  BY <1>0
<1>2. CASE /\ mem' \in {mem, disk, snapshot, EmptyManifest}
           /\ mem' # Missing
           /\ disk' \in {mem, disk, snapshot, Missing}
           /\ snapshot' \in {snapshot, disk}
  <2>1. After
    BY <1>0, <1>2
  <2> QED BY <2>1 DEF ManifestTracksOwnFile, OwnCopies, OwnAfter, Tracks
<1>3. CASE OwnAfter(mem') /\ UNCHANGED <<disk, snapshot>>
  <2>1. After
    BY <1>0, <1>3
  <2> QED BY <2>1 DEF ManifestTracksOwnFile, OwnCopies, OwnAfter, Tracks
<1>4. CASE UNCHANGED <<mem, disk, snapshot>>
  BY <1>0, <1>3, <1>4
<1>5. CASE MainStep
  <2> USE DEF env, main, pool
  <2>1. CASE CompleteUpload
    BY <1>3, <2>1, OwnApplied DEF CompleteUpload, ManifestTracksOwnFile, Before, TypeOK
  <2>2. ASSUME NEW f \in Files, HandlerApply(f) PROVE ManifestTracksOwnFile'
    BY <1>3, <2>2, OwnApplied DEF HandlerApply, ManifestTracksOwnFile
  <2>3. CASE FlagStale
    <3>1. \A f \in Files : \/ mem'[f] = mem[f]
                           \/ mem[f] # NoEntry /\ mem'[f] = [mem[f] EXCEPT !.pruned = TRUE]
      BY <2>3 DEF FlagStale, StaleEntries
    <3>2. \A f \in Files : mem[f] # NoEntry => mem[f] \in Entry
      BY <1>0 DEF Manifest
    <3>3. \A f \in Files : mem'[f] # NoEntry =>
              mem[f] # NoEntry /\ mem'[f].id = mem[f].id /\ mem'[f].encrypted = mem[f].encrypted
      <4>1. ASSUME NEW f \in Files, mem[f] \in Entry,
                   mem'[f] = [mem[f] EXCEPT !.pruned = TRUE]
            PROVE  mem'[f].id = mem[f].id /\ mem'[f].encrypted = mem[f].encrypted
        <5> DEFINE e == mem[f]
        <5>1. [e EXCEPT !.pruned = TRUE].id = e.id /\ [e EXCEPT !.pruned = TRUE].encrypted = e.encrypted
          BY <4>1 DEF Entry
        <5> QED BY <4>1, <5>1
      <4> QED BY <3>1, <3>2, <4>1
    <3>4. OwnAfter(mem')
      BY <1>0, <3>3 DEF OwnAfter
    <3> QED BY <1>3, <2>3, <3>4 DEF FlagStale
  <2>4. ASSUME NEW f \in Files, ApplyTrash(f) PROVE ManifestTracksOwnFile'
    <3>1. \A g \in Files : mem'[g] = mem[g] \/ mem'[g] = NoEntry
      BY <1>0, <2>4 DEF ApplyTrash, Manifest
    <3>2. OwnAfter(mem')
      BY <1>0, <3>1 DEF OwnAfter
    <3> QED BY <1>3, <2>4, <3>2 DEF ApplyTrash
  <2>5. CASE FetchSnapshot \/ Checkpoint \/ FinalCheckpoint \/ UploadSnapshot \/ HandlerCheckpoint
    BY <1>1, <1>2, <2>5
    DEF FetchSnapshot, Checkpoint, FinalCheckpoint, UploadSnapshot, HandlerCheckpoint
  <2>6. ASSUME NEW f \in Files, ScanFile(f) \/ ScanError(f) \/ TakeResult(f)
        PROVE  ManifestTracksOwnFile'
    BY <1>4, <2>6 DEF ScanFile, ScanError, TakeResult
  <2>7. CASE \/ SkipFetch \/ PrepareSkip \/ PrepareUpload \/ RecordFuture \/ EndSkip \/ EndDrain
             \/ EndScan \/ EndSettle \/ SaveFails \/ SkipPrune \/ TrashStale \/ EndTrash
             \/ CancelQueued \/ Shutdown
    BY <1>4, <2>7
    DEF SkipFetch, PrepareSkip, PrepareUpload, RecordFuture, EndSkip, EndDrain, EndScan, EndSettle,
        SaveFails, SkipPrune, TrashStale, EndTrash, CancelQueued, Shutdown
  <2> QED BY <1>5, <2>1, <2>2, <2>3, <2>4, <2>5, <2>6, <2>7 DEF MainStep
<1>6. ASSUME NEW f \in Files, WorkerStep(f) PROVE ManifestTracksOwnFile'
  BY <1>4, <1>6
  DEF WorkerStep, StartJob, EncryptFile, UpdateKnown, FindByName, OverwriteFound, CreateFile,
      DigestPlaintext, TrashReplaced, Reconcile, CallFails, AnswerLost, CreateAgain, TrashCall, env,
      main
<1>9. EmptyManifest # Missing
  BY MarkerAssumption DEF EmptyManifest, Manifest
<1>7. CASE Environment
  <2> USE DEF env, main
  <2>1. ASSUME NEW o \in Options, Start(o) PROVE ManifestTracksOwnFile'
    <3>1. /\ mem' \in {disk, EmptyManifest} /\ mem' # Missing
          /\ UNCHANGED <<disk, snapshot>>
      BY <1>9, <2>1 DEF Start
    <3> QED BY <1>2, <1>9, <3>1
  <2>2. CASE Crash
    BY <1>2, <1>9, <2>2 DEF Crash
  <2>3. CASE LoseManifest
    BY <1>0, <1>1, <1>2, <2>3 DEF LoseManifest
  <2>4. ASSUME Interrupt \/ (\E f \in Files : Write(f)) \/ (\E i \in DOMAIN drive : Purge(i))
        PROVE  ManifestTracksOwnFile'
    BY <1>4, <2>4 DEF Interrupt, Write, Purge
  <2> QED BY <1>7, <2>1, <2>2, <2>3, <2>4 DEF Environment
<1>8. CASE UNCHANGED vars
  BY <1>4, <1>8 DEF vars, env, main
<1> QED BY <1>5, <1>6, <1>7, <1>8 DEF Next

\* The invariant is inductive.
LEMMA StepInv == IInv /\ [Next]_vars => IInv'
BY TypeNext, CurNext, JobsNext, ManifestsNext DEF IInv, Before

\* Hence it holds in every behaviour.
LEMMA Invariance == Spec => []IInv
<1> QED BY InitInv, StepInv, PTL DEF Spec

-----------------------------------------------------------------------------
(* No duplicates, as long as no create is repeated within one call.        *)

\* Different files have different Drive names, encrypted or not.
InjectiveNames ==
    \A f, g \in Files, d, e \in BOOLEAN : NameOf[<<f, d>>] = NameOf[<<g, e>>] => f = g

\* A job that is about to create a file is the only one that could, and has
\* looked: nothing live has the name.
CreatesFresh == \A f \in Files : job[f].st = "create" => Named(f, job[f].encrypted) = {}
NoRepeatedCreate == budget["lostCreate"] = 0

DupInv == CreatesFresh /\ NoDuplicateCopies /\ NoRepeatedCreate

\* A step that creates no file: what is live after it was live before.
NothingCreated ==
    \A i \in DOMAIN drive' : drive'[i].state = "live" =>
        i \in DOMAIN drive /\ drive[i].state = "live" /\ drive'[i].name = drive[i].name

\* A job enters "create" only from a find that found nothing.
CreatesLooked ==
    \A f \in Files : job'[f].st = "create" =>
        \/ job[f].st = "create" /\ job'[f].encrypted = job[f].encrypted
        \/ Named(f, job'[f].encrypted) = {}

\* The events left never increase.
LEMMA NoRepeatNext ==
    ASSUME TypeOK, NoRepeatedCreate, [Next]_vars PROVE NoRepeatedCreate'
<1>1. CASE UNCHANGED budget
  BY <1>1 DEF NoRepeatedCreate
<1>2. ASSUME NEW e \in Events, Spend(e) PROVE NoRepeatedCreate'
  BY <1>2 DEF Spend, NoRepeatedCreate, TypeOK, Events
<1>3. CASE MainStep
  BY <1>1, <1>2, <1>3
  DEF MainStep, FetchSnapshot, SkipFetch, ScanFile, ScanError, PrepareSkip, PrepareUpload,
      RecordFuture, EndSkip, EndDrain, EndScan, EndSettle, TakeResult, CompleteUpload, Checkpoint,
      SaveFails, SkipPrune, FlagStale, TrashStale, EndTrash, ApplyTrash, FinalCheckpoint,
      UploadSnapshot, CancelQueued, HandlerCheckpoint, HandlerApply, Shutdown, Events
<1>4. ASSUME NEW f \in Files, WorkerStep(f) PROVE NoRepeatedCreate'
  BY <1>1, <1>2, <1>4
  DEF WorkerStep, StartJob, EncryptFile, UpdateKnown, FindByName, OverwriteFound, CreateFile,
      DigestPlaintext, TrashReplaced, Reconcile, CallFails, AnswerLost, CreateAgain, TrashCall,
      Events
<1>5. CASE Environment
  BY <1>2, <1>5
  DEF Environment, Start, Interrupt, Crash, LoseManifest, Write, Purge, Events
<1> QED BY <1>1, <1>3, <1>4, <1>5 DEF Next, vars

\* Without a creation, what was fresh stays so.
LEMMA KeepsFresh ==
    ASSUME TypeOK, DupInv, NothingCreated, CreatesLooked
    PROVE  CreatesFresh' /\ NoDuplicateCopies'
<1>1. NoDuplicateCopies'
  BY DEF DupInv, NoDuplicateCopies, NothingCreated
<1>2. ASSUME NEW f \in Files, job'[f].st = "create"
      PROVE  Named(f, job[f].encrypted)' = {}
  <2>1. Named(f, job'[f].encrypted) = {}
    BY <1>2 DEF CreatesLooked, DupInv, CreatesFresh
  <2> QED BY <2>1 DEF Named, NothingCreated
<1> QED BY <1>1, <1>2 DEF CreatesFresh

\* A creation leaves jobs of other files fresh.
LEMMA CreatedKeepsFresh ==
    ASSUME TypeOK, DupInv, InjectiveNames, NEW f \in Files, job[f].st = "create", Readable(f),
           drive' = Created(f, Payload(f)), job'[f].st # "create",
           \A g \in Files : g # f => job'[g] = job[g]
    PROVE  CreatesFresh' /\ NoDuplicateCopies'
<1> DEFINE new == Len(drive) + 1
           name == NameOf[<<f, job[f].encrypted>>]
<1>1. /\ DOMAIN drive' = DOMAIN drive \cup {new}
      /\ \A i \in DOMAIN drive : drive'[i] = drive[i]
      /\ drive'[new].name = name
  <2>1. Payload(f) \in Contents /\ drive \in Seq(DriveFile) /\ job \in [Files -> Job]
    BY PayloadFact DEF TypeOK
  <2>2. /\ DOMAIN Created(f, Payload(f)) = DOMAIN drive \cup {Len(drive) + 1}
        /\ \A i \in DOMAIN drive : Created(f, Payload(f))[i] = drive[i]
        /\ Created(f, Payload(f))[Len(drive) + 1].name = NameOf[<<f, job[f].encrypted>>]
    BY <2>1, CreatedFact
  <2> QED BY <2>2
<1>2. \A i \in DOMAIN drive : drive[i].state = "live" => drive[i].name # name
  BY DEF DupInv, CreatesFresh, Named
<1> HIDE DEF new, name
<1>3. NoDuplicateCopies'
  BY <1>1, <1>2 DEF DupInv, NoDuplicateCopies
<1>4. ASSUME NEW g \in Files, job'[g].st = "create"
      PROVE  Named(g, job[g].encrypted)' = {}
  <2>1. g # f /\ job'[g] = job[g]
    BY <1>4
  <2>2. Named(g, job[g].encrypted) = {}
    BY <1>4, <2>1 DEF DupInv, CreatesFresh
  <2>3. NameOf[<<g, job[g].encrypted>>] # name
    <3>1. job[f].encrypted \in BOOLEAN /\ job[g].encrypted \in BOOLEAN
      BY DEF TypeOK, Job
    <3> QED BY <2>1, <3>1 DEF InjectiveNames, name
  <2> QED BY <1>1, <2>1, <2>2, <2>3 DEF Named
<1> QED BY <1>3, <1>4 DEF CreatesFresh

LEMMA WorkerFresh ==
    ASSUME Before, DupInv, InjectiveNames, NEW f \in Files, WorkerStep(f)
    PROVE  CreatesFresh' /\ NoDuplicateCopies'
<1>0. /\ TypeOK /\ drive \in Seq(DriveFile) /\ job \in [Files -> Job] /\ job[f] \in Job
      /\ job[f].st \in JobStates
  BY DEF Before, TypeOK, Job
<1>1. \A g \in Files : g # f => job'[g] = job[g]
  BY <1>0
  DEF WorkerStep, StartJob, EncryptFile, UpdateKnown, FindByName, OverwriteFound, CreateFile,
      DigestPlaintext, TrashReplaced, Reconcile, CallFails, AnswerLost, CreateAgain, TrashCall,
      Goto, pool
<1>a. ASSUME NEW st \in JobStates, Goto(f, st)
      PROVE  job'[f].st = st /\ job'[f].encrypted = job[f].encrypted
  BY <1>0, <1>a DEF Goto, Job
<1>b. ASSUME NEW st \in GiveUp(job[f].st), Goto(f, st) PROVE job'[f].st # "create"
  <2>1. st \in {"failed", "leftover", "reconcile"}
    BY <1>0, GiveUpFact
  <2>2. st \in JobStates
    BY <2>1 DEF JobStates, Finished, Running
  <2> QED BY <1>a, <1>b, <2>1, <2>2
<1>c. ASSUME NEW id \in Ids, Readable(f), job' = [job EXCEPT ![f] = PutDone(f, id, Payload(f))]
      PROVE  job'[f].st # "create"
  <2>1. job'[f] = PutDone(f, id, Payload(f)) /\ Payload(f) \in Contents
    BY <1>0, <1>c, PayloadFact
  <2> DEFINE c == Payload(f)
  <2>2. c \in Contents
    BY <2>1
  <2> HIDE DEF c
  <2>3. PutDone(f, id, c).st \in {"digest", "trash", "done"}
    BY <1>0, <2>2, PutDoneFact
  <2> QED BY <2>1, <2>3 DEF c
<1>d. ASSUME NothingCreated, job'[f].st # "create" PROVE CreatesFresh' /\ NoDuplicateCopies'
  BY <1>0, <1>1, <1>d, KeepsFresh DEF CreatesLooked
<1>e. ASSUME UNCHANGED drive, job'[f].st # "create" PROVE CreatesFresh' /\ NoDuplicateCopies'
  BY <1>d, <1>e DEF NothingCreated
<1>f. ASSUME NEW id \in DOMAIN drive, Readable(f), drive' = Overwritten(id, Payload(f))
      PROVE  NothingCreated
  BY <1>0, <1>f, PayloadFact, OverwrittenFact DEF NothingCreated
<1>g. ASSUME NEW id \in DOMAIN drive, drive' = Trashed(id) PROVE NothingCreated
  BY <1>0, <1>g, TrashedFact DEF NothingCreated
<1>h. /\ job[f].st \in {"update", "overwrite"} \cup Pruning
             => job[f].id \in Ids /\ job[f].id \in DOMAIN drive
      /\ job[f].st = "trash" => job[f].replaced \in DOMAIN drive
  BY IdFact DEF NeedId
<1>i. {"encrypt", "update", "find", "overwrite", "create", "trash", "done", "vanished", "failed",
       "leftover", "pruned", "kept"} \subseteq JobStates
  BY DEF JobStates, Running, Finished, Pruning
<1>2. CASE StartJob(f)
  BY <1>a, <1>e, <1>i, <1>2 DEF StartJob, env
<1>3. CASE EncryptFile(f)
  <2>1. job'[f].st # "create"
    <3>1. CASE Present(f)
      <4>1. PICK st \in {"update", "find"} :
                job' = [job EXCEPT ![f].data = local[f].content, ![f].st = st]
        BY <1>3, <3>1 DEF EncryptFile
      <4>2. job'[f] = [job[f] EXCEPT !.data = local[f].content, !.st = st]
        BY <1>0, <4>1
      <4> QED BY <1>0, <4>2 DEF Job
    <3> QED BY <1>3, <1>a, <1>i, <3>1 DEF EncryptFile
  <2> QED BY <1>3, <1>e, <2>1 DEF EncryptFile, env
<1>4. CASE UpdateKnown(f) \/ OverwriteFound(f)
  <2>1. CASE job' = [job EXCEPT ![f].st = "find", ![f].id = 0] /\ UNCHANGED drive
    <3>1. job'[f] = [job[f] EXCEPT !.st = "find", !.id = 0]
      BY <1>0, <2>1
    <3>2. job'[f].st # "create"
      BY <1>0, <3>1 DEF Job
    <3> QED BY <1>e, <2>1, <3>2
  <2>2. CASE (Goto(f, "vanished") \/ Goto(f, "failed")) /\ UNCHANGED drive
    BY <1>a, <1>e, <1>i, <2>2
  <2>3. CASE /\ Readable(f) /\ drive' = Overwritten(job[f].id, Payload(f))
             /\ job' = [job EXCEPT ![f] = PutDone(f, job[f].id, Payload(f))]
    BY <1>c, <1>d, <1>f, <1>h, <1>4, <2>3 DEF UpdateKnown, OverwriteFound
  <2> QED BY <1>4, <2>1, <2>2, <2>3 DEF UpdateKnown, OverwriteFound
<1>5. CASE FindByName(f) \/ Reconcile(f)
  <2>1. ASSUME NEW i, job' = [job EXCEPT ![f].st = "overwrite", ![f].id = i]
        PROVE  job'[f].st # "create"
    <3>1. job'[f] = [job[f] EXCEPT !.st = "overwrite", !.id = i]
      BY <1>0, <2>1
    <3> QED BY <1>0, <3>1 DEF Job
  <2>2. CASE Goto(f, "create") /\ Named(f, job[f].encrypted) = {} /\ UNCHANGED drive
    <3>1. CreatesLooked /\ NothingCreated
      BY <1>1, <1>a, <1>i, <2>2 DEF CreatesLooked, NothingCreated
    <3> QED BY <1>0, <3>1, KeepsFresh
  <2> QED BY <1>a, <1>e, <1>i, <1>5, <2>1, <2>2 DEF FindByName, Reconcile, env
<1>6. CASE CreateFile(f)
  <2>1. CASE Goto(f, "vanished") /\ UNCHANGED drive
    BY <1>a, <1>e, <1>i, <2>1
  <2>2. CASE /\ Readable(f) /\ drive' = Created(f, Payload(f))
             /\ job' = [job EXCEPT ![f] = PutDone(f, Len(drive) + 1, Payload(f))]
    <3>1. Len(drive) + 1 \in Ids
      BY <1>0, LenProperties DEF Ids
    <3> QED BY <1>0, <1>1, <1>c, <1>6, <2>2, <3>1, CreatedKeepsFresh DEF CreateFile
  <2> QED BY <1>6, <2>1, <2>2 DEF CreateFile
<1>7. CASE DigestPlaintext(f)
  <2>1. PICK st \in {"trash", "done"} :
            job' = [job EXCEPT ![f].data = local[f].content, ![f].st = st]
    BY <1>7 DEF DigestPlaintext
  <2>2. job'[f] = [job[f] EXCEPT !.data = local[f].content, !.st = st]
    BY <1>0, <2>1
  <2>3. job'[f].st # "create"
    BY <1>0, <2>2 DEF Job
  <2> QED BY <1>7, <1>e, <2>3 DEF DigestPlaintext, env
<1>8. CASE TrashReplaced(f)
  BY <1>a, <1>d, <1>g, <1>h, <1>i, <1>8 DEF TrashReplaced
<1>9. CASE CallFails(f)
  BY <1>b, <1>e, <1>9 DEF CallFails, env
<1>10. CASE AnswerLost(f)
  <2>1. job'[f].st # "create"
    BY <1>b, <1>10 DEF AnswerLost
  <2>2. CASE /\ job[f].st = "create" /\ Readable(f) /\ drive' = Created(f, Payload(f))
    BY <1>0, <1>1, <2>1, <2>2, CreatedKeepsFresh
  <2>3. CASE /\ job[f].st \in {"update", "overwrite"} /\ Readable(f)
             /\ drive' = Overwritten(job[f].id, Payload(f))
    BY <1>d, <1>f, <1>h, <2>1, <2>3
  <2>4. CASE job[f].st = "trash" /\ drive' = Trashed(job[f].replaced)
    BY <1>d, <1>g, <1>h, <2>1, <2>4
  <2> QED BY <1>10, <2>2, <2>3, <2>4 DEF AnswerLost
<1>11. CASE CreateAgain(f)
  BY <1>11 DEF CreateAgain, Spend, DupInv, NoRepeatedCreate
<1>12. CASE TrashCall(f)
  <2>1. job'[f].st # "create"
    BY <1>a, <1>i, <1>12 DEF TrashCall
  <2> QED BY <1>d, <1>e, <1>g, <1>h, <1>12, <2>1 DEF TrashCall, Pruning
<1> QED
  BY <1>2, <1>3, <1>4, <1>5, <1>6, <1>7, <1>8, <1>9, <1>10, <1>11, <1>12 DEF WorkerStep

\* DupInv is inductive beside IInv.
LEMMA DupNext == ASSUME Before, DupInv, InjectiveNames, [Next]_vars PROVE DupInv'
<1>0. TypeOK /\ job \in [Files -> Job] /\ drive \in Seq(DriveFile)
  BY DEF Before, TypeOK
<1>1. NoRepeatedCreate'
  BY <1>0, NoRepeatNext DEF DupInv
<1>2. ASSUME UNCHANGED drive, \A f \in Files : job'[f] = job[f] \/ job'[f].st # "create"
      PROVE  CreatesFresh' /\ NoDuplicateCopies'
  BY <1>0, <1>2, KeepsFresh DEF NothingCreated, CreatesLooked
<1>3. CASE MainStep
  <2>1. ASSUME NEW f \in Files PROVE job'[f] = job[f] \/ job'[f].st # "create"
    <3>1. CASE PrepareUpload
      <4>1. cur.file \in Files /\ job' = [job EXCEPT ![cur.file] = Work(cur.file)]
        BY <3>1 DEF PrepareUpload, Before, CurIsFile
      <4>2. Work(cur.file).st = "queued"
        BY DEF Work
      <4> QED BY <1>0, <4>1, <4>2
    <3>2. CASE TrashStale
      BY <3>2 DEF TrashStale, NoJob
    <3>3. CASE ~PrepareUpload /\ ~TrashStale
      <4>1. job'[f] = job[f] \/ job'[f] = NoJob
        BY <1>0, <1>3, <3>3
        DEF MainStep, FetchSnapshot, SkipFetch, ScanFile, ScanError, PrepareSkip, RecordFuture,
            EndSkip, EndDrain, EndScan, EndSettle, TakeResult, CompleteUpload, ApplyResult,
            Checkpoint, SaveFails, SkipPrune, FlagStale, EndTrash, ApplyTrash, FinalCheckpoint,
            UploadSnapshot, CancelQueued, HandlerCheckpoint, HandlerApply, Shutdown, pool
      <4> QED BY <4>1 DEF NoJob
    <3> QED BY <3>1, <3>2, <3>3
  <2> QED BY <1>1, <1>2, <1>3, <2>1, OthersKeepDrive DEF DupInv
<1>4. ASSUME NEW f \in Files, WorkerStep(f) PROVE DupInv'
  BY <1>1, <1>4, WorkerFresh DEF DupInv
<1>5. CASE Environment
  <2>1. \A f \in Files : job'[f] = job[f] \/ job'[f].st # "create"
    BY <1>5 DEF Environment, Start, Interrupt, Crash, LoseManifest, Write, Purge, pool, NoJob
  <2>2. ASSUME NEW i \in DOMAIN drive, Purge(i) PROVE NothingCreated
    <3>1. i \in 1 .. Len(drive) /\ drive[i] \in DriveFile
      BY <1>0, ElementOfSeq, LenProperties
    <3>2. \A k \in DOMAIN drive' : /\ k \in DOMAIN drive /\ drive'[k].name = drive[k].name
                                   /\ drive'[k].state = "live" => drive[k].state = "live"
      BY <2>2, <3>1 DEF Purge, DriveFile
    <3> QED BY <3>2 DEF NothingCreated
  <2>3. CASE NothingCreated
    <3>1. CreatesLooked
      BY <2>1 DEF CreatesLooked
    <3> QED BY <1>0, <1>1, <2>3, <3>1, KeepsFresh DEF DupInv
  <2> QED BY <1>1, <1>2, <1>5, <2>1, <2>2, <2>3, OthersKeepDrive DEF Environment, DupInv
<1>6. CASE UNCHANGED vars
  BY <1>1, <1>2, <1>6 DEF vars, env, pool, DupInv
<1> QED BY <1>3, <1>4, <1>5, <1>6 DEF Next

-----------------------------------------------------------------------------
\* In every behaviour every variable keeps its type.
THEOREM TypeCorrect == Spec => []TypeOK
<1>1. IInv => TypeOK
  BY DEF IInv
<1> QED BY <1>1, Invariance, PTL

\* However runs are killed, interrupted, raced and repeated, the manifest in
\* memory, on disk and on Drive names for each file a Drive file that was created
\* for it, so that an update or a trash reaches no other file's copy.
THEOREM ManifestsTrackOwnFiles == Spec => []ManifestTracksOwnFile
<1>1. IInv => ManifestTracksOwnFile
  BY DEF IInv
<1> QED BY <1>1, Invariance, PTL

\* If different files have different names, and no create is repeated after a lost
\* answer within one call, Drive never holds two live files of one name, whatever
\* kills, interrupts, purges, lost manifests and other lost answers there are.
THEOREM NoDuplicates ==
    ASSUME InjectiveNames, Budget["lostCreate"] = 0 PROVE Spec => []NoDuplicateCopies
<1>1. Init => DupInv
  BY DEF Init, DupInv, CreatesFresh, NoDuplicateCopies, NoRepeatedCreate, NoJob
<1>2. IInv /\ DupInv /\ [Next]_vars => DupInv'
  BY DupNext DEF IInv, Before
<1>3. DupInv => NoDuplicateCopies
  BY DEF DupInv
<1> QED BY <1>1, <1>2, <1>3, Invariance, PTL DEF Spec

----------------------------------------------------------------------------
(* The futures: how many uploads can be in flight while the scan goes on,  *)
(* and how many of them an interrupt can lose sight of.                    *)

Submitted == {f \in Files : job[f].st # "none"}
Bound == 2 * UploadWorkers
AtMost(S, n) == IsFiniteSet(S) /\ Cardinality(S) <= n

\* Every submitted upload is among the futures or in the main thread's hand: just
\* submitted, or just popped. The scan goes on only below the bound.
ScanHolds ==
    pc \in {"scan", "prepare", "skip"} =>
        taken = NoFile /\ Submitted \subseteq futures /\ AtMost(futures, Bound - 1)
RecordHolds ==
    pc = "record" =>
        /\ taken = NoFile /\ Submitted \subseteq futures \cup {cur.file}
        /\ AtMost(futures, Bound - 1)
DrainHolds ==
    pc \in {"drain", "settle"} =>
        /\ Submitted \subseteq futures \cup {taken}
        /\ AtMost(futures, IF taken = NoFile THEN Bound ELSE Bound - 1)

\* What was in its hand when the interrupt came is the one upload the handler
\* cannot see.
HandlerHolds ==
    pc \in {"cancel", "handler"} => \E x \in Files \cup {NoFile} : Submitted \subseteq futures \cup {x}

\* A run begins with nothing submitted.
NothingLeft ==
    pc \in {"idle", "load"} => futures = {} /\ Submitted = {} /\ taken = NoFile

HeldInv == ScanHolds /\ RecordHolds /\ DrainHolds /\ HandlerHolds /\ NothingLeft

-----------------------------------------------------------------------------
\* A set grows or shrinks by one element.
LEMMA MoreByOne ==
    ASSUME NEW S, NEW x, NEW n \in Nat, AtMost(S, n - 1)
    PROVE  AtMost(S \cup {x}, n)
<1>1. Cardinality(S) \in Nat /\ Cardinality(S) <= n - 1
  BY FS_CardinalityType DEF AtMost
<1>2. /\ IsFiniteSet(S \cup {x})
      /\ \/ Cardinality(S \cup {x}) = Cardinality(S)
         \/ Cardinality(S \cup {x}) = Cardinality(S) + 1
  BY FS_AddElement DEF AtMost
<1> QED BY <1>1, <1>2 DEF AtMost

\* A finite set without one of its elements has one fewer.
LEMMA FewerByOne ==
    ASSUME NEW S, NEW x \in S, NEW n \in Nat, AtMost(S, n)
    PROVE  AtMost(S \ {x}, n - 1)
<1>1. Cardinality(S) \in Nat /\ Cardinality(S) <= n
  BY FS_CardinalityType DEF AtMost
<1>2. IsFiniteSet(S \ {x}) /\ Cardinality(S \ {x}) = Cardinality(S) - 1
  BY FS_RemoveElement DEF AtMost
<1> QED BY <1>1, <1>2 DEF AtMost

\* Nothing is submitted and no future held when the program is installed.
LEMMA InitHeld == Init => HeldInv
BY DEF Init, HeldInv, ScanHolds, RecordHolds, DrainHolds, HandlerHolds, NothingLeft,
       Submitted, NoJob

\* A job that ends, or goes on, leaves the main thread's accounts as they are.
LEMMA HeldKept ==
    ASSUME HeldInv, UNCHANGED <<pc, cur, futures, taken>>, Submitted' \subseteq Submitted
    PROVE  HeldInv'
<1>1. \A S : Submitted \subseteq S => Submitted' \subseteq S
  OBVIOUS
<1>2. ScanHolds' /\ RecordHolds' /\ DrainHolds'
  BY <1>1 DEF HeldInv, ScanHolds, RecordHolds, DrainHolds, AtMost, Bound
<1>3. HandlerHolds'
  BY <1>1 DEF HeldInv, HandlerHolds
<1>4. NothingLeft'
  BY DEF HeldInv, NothingLeft
<1> QED BY <1>2, <1>3, <1>4 DEF HeldInv

\* A worker only moves on a job it was given.
LEMMA WorkerHeld ==
    ASSUME TypeOK, HeldInv, NEW f \in Files, WorkerStep(f)
    PROVE  HeldInv'
<1>1. job \in [Files -> Job] /\ job[f].st # "none"
  BY DEF TypeOK, WorkerStep, StartJob, EncryptFile, UpdateKnown, FindByName, OverwriteFound,
         CreateFile, DigestPlaintext, TrashReplaced, Reconcile, CallFails, AnswerLost,
         CreateAgain, TrashCall, Running
<1>2. \A g \in Files : g # f => job'[g] = job[g]
  BY <1>1
  DEF WorkerStep, StartJob, EncryptFile, UpdateKnown, FindByName, OverwriteFound, CreateFile,
      DigestPlaintext, TrashReplaced, Reconcile, CallFails, AnswerLost, CreateAgain, TrashCall,
      Goto, pool
<1>3. Submitted' \subseteq Submitted
  BY <1>1, <1>2 DEF Submitted
<1>4. UNCHANGED <<pc, cur, futures, taken>>
  BY DEF WorkerStep, StartJob, EncryptFile, UpdateKnown, FindByName, OverwriteFound,
         CreateFile, DigestPlaintext, TrashReplaced, Reconcile, CallFails, AnswerLost,
         CreateAgain, TrashCall, main, pool
<1> QED BY <1>3, <1>4, HeldKept

\* One upload is handed over, and its future noted.
LEMMA SubmitHeld ==
    ASSUME TypeOK, CurIsFile, HeldInv, PrepareUpload \/ RecordFuture
    PROVE  HeldInv'
<1>1. CASE PrepareUpload
  <2>1. job \in [Files -> Job] /\ pc = "prepare" /\ pc' = "record" /\ cur' = cur
    BY <1>1 DEF PrepareUpload, TypeOK
  <2>2. Submitted' \subseteq Submitted \cup {cur.file}
    BY <1>1, <2>1 DEF PrepareUpload, Submitted
  <2>3. RecordHolds'
    BY <1>1, <2>1, <2>2 DEF PrepareUpload, HeldInv, ScanHolds, RecordHolds, AtMost, Bound
  <2> QED BY <2>1, <2>3 DEF HeldInv, ScanHolds, DrainHolds, HandlerHolds, NothingLeft
<1>2. CASE RecordFuture
  <2>1. /\ pc = "record" /\ pc' = "drain" /\ futures' = futures \cup {cur.file}
        /\ taken = NoFile /\ taken' = taken /\ Submitted' = Submitted
    BY <1>2 DEF RecordFuture, HeldInv, RecordHolds, Submitted
  <2>2. IsFiniteSet(futures) /\ Cardinality(futures) <= Bound - 1 /\ Bound \in Nat
    BY <2>1 DEF HeldInv, RecordHolds, AtMost, Bound
  <2>3. AtMost(futures', Bound)
    BY <2>1, <2>2, MoreByOne DEF AtMost
  <2>4. DrainHolds'
    BY <2>1, <2>3 DEF HeldInv, RecordHolds, DrainHolds, Bound, AtMost
  <2> QED BY <2>1, <2>4 DEF HeldInv, ScanHolds, RecordHolds, HandlerHolds, NothingLeft
<1> QED BY <1>1, <1>2

\* A job that was applied is no longer there.
LEMMA AppliedGone ==
    ASSUME TypeOK, NEW f \in Files, ApplyResult(f)
    PROVE  Submitted' \subseteq Submitted \ {f}
<1>1. job \in [Files -> Job] /\ job' = [job EXCEPT ![f] = NoJob]
  BY DEF TypeOK, ApplyResult
<1> QED BY <1>1 DEF Submitted, NoJob

\* A future is popped, and its result applied.
LEMMA DrainHeld ==
    ASSUME TypeOK, HeldInv, CompleteUpload \/ \E f \in Files : TakeResult(f)
    PROVE  HeldInv'
<1>1. CASE CompleteUpload
  <2>1. /\ pc \in {"drain", "settle"} /\ taken \in Files /\ taken # NoFile
        /\ pc' = pc /\ futures' = futures /\ taken' = NoFile
    BY <1>1 DEF CompleteUpload, TypeOK
  <2>2. Submitted' \subseteq Submitted \ {taken}
    BY <1>1, <2>1, AppliedGone DEF CompleteUpload
  <2>3. AtMost(futures, Bound - 1) /\ Submitted \subseteq futures \cup {taken}
    BY <2>1 DEF HeldInv, DrainHolds
  <2>4. AtMost(futures', Bound)
    BY <2>1, <2>3, FS_CardinalityType DEF AtMost, Bound
  <2>5. DrainHolds'
    BY <2>1, <2>2, <2>3, <2>4 DEF DrainHolds, AtMost, Bound
  <2> QED
    BY <2>1, <2>5 DEF HeldInv, ScanHolds, RecordHolds, HandlerHolds, NothingLeft
<1>2. ASSUME NEW f \in Files, TakeResult(f) PROVE HeldInv'
  <2>1. /\ pc \in {"drain", "settle"} /\ taken = NoFile /\ f \in futures
        /\ pc' = pc /\ futures' = futures \ {f} /\ taken' = f
    BY <1>2 DEF TakeResult, main
  <2>2. Submitted' = Submitted
    BY <1>2 DEF TakeResult, Submitted
  <2>3. AtMost(futures, Bound) /\ Submitted \subseteq futures \cup {NoFile}
    BY <2>1 DEF HeldInv, DrainHolds
  <2>4. AtMost(futures', Bound - 1)
    BY <2>1, <2>3, FewerByOne DEF Bound
  <2>5. Submitted' \subseteq futures' \cup {taken'}
    BY <2>1, <2>2, <2>3 DEF Submitted
  <2>6. DrainHolds'
    BY <2>1, <2>4, <2>5 DEF DrainHolds, AtMost, Bound
  <2> QED
    BY <2>1, <2>6 DEF HeldInv, ScanHolds, RecordHolds, HandlerHolds, NothingLeft
<1> QED BY <1>1, <1>2

\* The scan goes on, or ends.
LEMMA ScanHeld ==
    ASSUME TypeOK, HeldInv,
           \/ \E f \in Files : ScanFile(f) \/ ScanError(f)
           \/ FetchSnapshot \/ SkipFetch \/ PrepareSkip \/ EndSkip \/ EndDrain \/ EndScan
    PROVE  HeldInv'
<1>1. UNCHANGED <<job, futures, taken>>
  BY DEF ScanFile, ScanError, FetchSnapshot, SkipFetch, PrepareSkip, EndSkip, EndDrain,
         EndScan, pool
<1>2. Submitted' = Submitted
  BY <1>1 DEF Submitted
<1>3. CASE \/ \E f \in Files : ScanFile(f) \/ ScanError(f)
           \/ PrepareSkip \/ EndSkip
  <2>1. pc \in {"scan", "prepare", "skip"} /\ pc' \in {"scan", "prepare", "skip"}
    BY <1>3 DEF ScanFile, ScanError, PrepareSkip, EndSkip
  <2> QED
    BY <1>1, <1>2, <2>1
    DEF HeldInv, ScanHolds, RecordHolds, DrainHolds, HandlerHolds, NothingLeft, AtMost, Bound
<1>4. CASE FetchSnapshot \/ SkipFetch
  <2>1. pc = "load" /\ pc' = "scan"
    BY <1>4 DEF FetchSnapshot, SkipFetch
  <2>2. futures = {} /\ Submitted = {} /\ taken = NoFile
    BY <2>1 DEF HeldInv, NothingLeft
  <2>3. AtMost(futures', Bound - 1)
    BY <1>1, <2>2, FS_EmptySet DEF AtMost, Bound
  <2> QED
    BY <1>1, <1>2, <2>1, <2>2, <2>3
    DEF HeldInv, ScanHolds, RecordHolds, DrainHolds, HandlerHolds, NothingLeft, AtMost, Bound
<1>5. CASE EndDrain
  <2>1. /\ pc = "drain" /\ pc' = "scan" /\ taken = NoFile
        /\ Cardinality(futures) < Bound
    BY <1>5 DEF EndDrain, Bound
  <2>2. IsFiniteSet(futures) /\ Submitted \subseteq futures \cup {NoFile}
    BY <2>1 DEF HeldInv, DrainHolds, AtMost
  <2>3. Submitted \subseteq futures
    BY <2>2 DEF Submitted
  <2>4. AtMost(futures, Bound - 1)
    BY <2>1, <2>2, FS_CardinalityType DEF AtMost, Bound
  <2> QED
    BY <1>1, <1>2, <2>1, <2>3, <2>4
    DEF HeldInv, ScanHolds, RecordHolds, DrainHolds, HandlerHolds, NothingLeft, AtMost, Bound
<1>6. CASE EndScan
  <2>1. pc = "scan" /\ pc' = "settle"
    BY <1>6 DEF EndScan
  <2>2. taken = NoFile /\ Submitted \subseteq futures /\ AtMost(futures, Bound - 1)
    BY <2>1 DEF HeldInv, ScanHolds
  <2>3. AtMost(futures, Bound)
    BY <2>2, FS_CardinalityType DEF AtMost, Bound
  <2> QED
    BY <1>1, <1>2, <2>1, <2>2, <2>3
    DEF HeldInv, ScanHolds, RecordHolds, DrainHolds, HandlerHolds, NothingLeft, AtMost, Bound
<1> QED BY <1>3, <1>4, <1>5, <1>6

\* The interrupt, and its handler.
LEMMA HandlerHeld ==
    ASSUME TypeOK, HeldInv,
           Interrupt \/ CancelQueued \/ HandlerCheckpoint \/ \E f \in Files : HandlerApply(f)
    PROVE  HeldInv'
<1>1. CASE Interrupt
  <2>1. /\ pc' \in {"cancel", "shutdown"} /\ futures' = futures /\ Submitted' = Submitted
        /\ pc' = "cancel" => pc \in UploadPhase
    BY <1>1 DEF Interrupt, Submitted
  <2>2. CASE pc' = "cancel"
    <3>1. \E x \in Files \cup {NoFile} : Submitted \subseteq futures \cup {x}
      BY <2>1, <2>2 DEF TypeOK, FileEntry, HeldInv, ScanHolds, RecordHolds, DrainHolds, UploadPhase
    <3> QED
      BY <2>1, <2>2, <3>1
      DEF HeldInv, ScanHolds, RecordHolds, DrainHolds, HandlerHolds, NothingLeft
  <2>3. CASE pc' = "shutdown"
    BY <2>3 DEF HeldInv, ScanHolds, RecordHolds, DrainHolds, HandlerHolds, NothingLeft
  <2> QED BY <2>1, <2>2, <2>3
<1>2. CASE CancelQueued
  <2> DEFINE queued == {f \in futures : job[f].st = "queued"}
  <2>1. /\ pc = "cancel" /\ pc' = "handler" /\ futures' = futures \ queued
        /\ job' = [f \in Files |-> IF f \in queued THEN NoJob ELSE job[f]]
    BY <1>2 DEF CancelQueued
  <2>2. Submitted' \subseteq Submitted \ queued
    BY <2>1 DEF Submitted, NoJob
  <2>3. PICK x \in Files \cup {NoFile} : Submitted \subseteq futures \cup {x}
    BY <2>1 DEF HeldInv, HandlerHolds
  <2>4. Submitted' \subseteq futures' \cup {x}
    BY <2>1, <2>2, <2>3
  <2> QED
    BY <2>1, <2>4 DEF HeldInv, ScanHolds, RecordHolds, DrainHolds, HandlerHolds, NothingLeft
<1>3. ASSUME NEW f \in Files, HandlerApply(f) PROVE HeldInv'
  <2>1. pc = "handler" /\ pc' = "handler" /\ futures' = futures \ {f}
    BY <1>3 DEF HandlerApply
  <2>2. Submitted' \subseteq Submitted \ {f}
    BY <1>3, AppliedGone DEF HandlerApply
  <2>3. PICK x \in Files \cup {NoFile} : Submitted \subseteq futures \cup {x}
    BY <2>1 DEF HeldInv, HandlerHolds
  <2>4. Submitted' \subseteq futures' \cup {x}
    BY <2>1, <2>2, <2>3
  <2> QED
    BY <2>1, <2>4 DEF HeldInv, ScanHolds, RecordHolds, DrainHolds, HandlerHolds, NothingLeft
<1>4. CASE HandlerCheckpoint
  BY <1>4
  DEF HandlerCheckpoint, HeldInv, ScanHolds, RecordHolds, DrainHolds, HandlerHolds, NothingLeft
<1> QED BY <1>1, <1>2, <1>3, <1>4

\* The end of a run, and the start of the next.
LEMMA EndHeld ==
    ASSUME HeldInv, Shutdown \/ Crash \/ \E o \in Options : Start(o)
    PROVE  HeldInv'
<1>1. CASE Shutdown \/ Crash
  <2>1. /\ pc' = "idle" /\ futures' = {} /\ taken' = NoFile
        /\ job' = [f \in Files |-> NoJob]
    BY <1>1 DEF Shutdown, Crash
  <2>2. Submitted' = {}
    BY <2>1 DEF Submitted, NoJob
  <2> QED
    BY <2>1, <2>2 DEF HeldInv, ScanHolds, RecordHolds, DrainHolds, HandlerHolds, NothingLeft
<1>2. ASSUME NEW o \in Options, Start(o) PROVE HeldInv'
  <2>1. pc = "idle" /\ pc' = "load" /\ UNCHANGED pool
    BY <1>2 DEF Start
  <2> QED
    BY <2>1
    DEF HeldInv, ScanHolds, RecordHolds, DrainHolds, HandlerHolds, NothingLeft, Submitted, pool
<1> QED BY <1>1, <1>2

\* The phases after the uploads are outside the accounts.
LEMMA ClosingHeld ==
    ASSUME HeldInv,
           \/ EndSettle \/ SaveFails \/ SkipPrune \/ FlagStale \/ TrashStale \/ EndTrash
           \/ FinalCheckpoint \/ UploadSnapshot \/ \E f \in Files : ApplyTrash(f)
    PROVE  HeldInv'
<1>1. pc' \in {"prune", "shutdown", "final", "trash", "upload"}
  BY DEF EndSettle, SaveFails, SkipPrune, FlagStale, TrashStale, EndTrash, FinalCheckpoint,
         UploadSnapshot, ApplyTrash
<1> QED
  BY <1>1 DEF HeldInv, ScanHolds, RecordHolds, DrainHolds, HandlerHolds, NothingLeft

\* Every step keeps the accounts.
LEMMA HeldNext == ASSUME IInv, HeldInv, [Next]_vars PROVE HeldInv'
<1>1. TypeOK /\ CurIsFile
  BY DEF IInv
<1>2. CASE MainStep
  <2>1. CASE Checkpoint
    BY <2>1, HeldKept DEF Checkpoint, pool, Submitted
  <2> QED
    BY <1>1, <1>2, <2>1, SubmitHeld, DrainHeld, ScanHeld, HandlerHeld, EndHeld, ClosingHeld
    DEF MainStep
<1>3. ASSUME NEW f \in Files, WorkerStep(f) PROVE HeldInv'
  BY <1>1, <1>3, WorkerHeld
<1>4. CASE Environment
  <2>1. CASE LoseManifest \/ (\E f \in Files : Write(f)) \/ \E i \in DOMAIN drive : Purge(i)
    BY <2>1, HeldKept DEF LoseManifest, Write, Purge, main, pool, Submitted
  <2> QED BY <1>1, <1>4, <2>1, HandlerHeld, EndHeld DEF Environment
<1>5. CASE UNCHANGED vars
  BY <1>5, HeldKept DEF vars, main, pool, Submitted
<1> QED BY <1>2, <1>3, <1>4, <1>5 DEF Next

\* The accounts are kept in every behaviour.
LEMMA HeldAlways == Spec => []HeldInv
BY InitHeld, HeldNext, Invariance, PTL DEF Spec

-----------------------------------------------------------------------------
\* With n workers no more than 2n uploads are ever queued, running or finished and
\* not applied while the upload phase lasts, for any number of files: drain pops
\* before the scan goes on, and what is popped is applied before the next is.
THEOREM InFlightIsBounded == Spec => []InFlightBound
<1>1. TypeOK /\ HeldInv => InFlightBound
  <2> SUFFICES ASSUME TypeOK, HeldInv, pc \in UploadPhase
               PROVE  Cardinality(Submitted) <= Bound
    BY DEF InFlightBound, Submitted, Bound
  <2>0. Bound \in Nat /\ Submitted \subseteq Files /\ NoFile \notin Submitted
    BY DEF Bound, Submitted
  <2>1. ASSUME NEW x, AtMost(futures, Bound - 1), Submitted \subseteq futures \cup {x}
        PROVE  Cardinality(Submitted) <= Bound
    <3>1. /\ IsFiniteSet(futures \cup {x}) /\ Cardinality(futures \cup {x}) \in Nat
          /\ Cardinality(futures \cup {x}) <= Bound
      BY <2>0, <2>1, MoreByOne, FS_CardinalityType DEF AtMost
    <3>2. Submitted \in SUBSET (futures \cup {x})
      BY <2>1
    <3>3. Cardinality(Submitted) <= Cardinality(futures \cup {x})
      BY <3>1, <3>2, FS_Subset
    <3>4. Cardinality(Submitted) \in Nat
      BY <3>1, <3>2, FS_Subset, FS_CardinalityType
    <3> QED BY <2>0, <3>1, <3>3, <3>4
  <2>2. CASE pc \in {"scan", "prepare", "skip", "record"}
    BY <2>1, <2>2 DEF HeldInv, ScanHolds, RecordHolds
  <2>3. CASE pc \in {"drain", "settle"} /\ taken # NoFile
    BY <2>1, <2>3 DEF HeldInv, DrainHolds
  <2>4. CASE pc \in {"drain", "settle"} /\ taken = NoFile
    <3>1. AtMost(futures, Bound) /\ Submitted \in SUBSET futures
      BY <2>0, <2>4 DEF HeldInv, DrainHolds
    <3>2. Cardinality(Submitted) <= Cardinality(futures)
      BY <3>1, FS_Subset DEF AtMost
    <3>3. Cardinality(Submitted) \in Nat /\ Cardinality(futures) \in Nat
      BY <3>1, FS_Subset, FS_CardinalityType DEF AtMost
    <3> QED BY <2>0, <3>1, <3>2, <3>3 DEF AtMost
  <2> QED BY <2>2, <2>3, <2>4 DEF UploadPhase
<1> QED BY <1>1, HeldAlways, TypeCorrect, PTL

\* Wherever Ctrl+C falls, at the handler's checkpoint every upload but one has been
\* applied or cancelled: at most one is between submit and futures[future], or
\* between futures.pop and _complete_upload.
THEOREM InterruptLosesLittle == Spec => []InterruptLosesAtMostOne
<1>1. HeldInv => InterruptLosesAtMostOne
  <2> SUFFICES ASSUME HeldInv, pc = "handler", futures = {}
               PROVE  Cardinality(Submitted) <= 1
    BY DEF InterruptLosesAtMostOne, Submitted
  <2>1. PICK x \in Files \cup {NoFile} : Submitted \in SUBSET {x}
    BY DEF HeldInv, HandlerHolds
  <2>2. IsFiniteSet({x}) /\ Cardinality({x}) = 1
    BY FS_Singleton
  <2> QED BY <2>1, <2>2, FS_Subset
<1> QED BY <1>1, HeldAlways, PTL
=============================================================================
