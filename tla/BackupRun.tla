----------------------------- MODULE BackupRun ------------------------------
(***************************************************************************)
(* One machine's backup runs: the main thread of BackupEngine.run, its     *)
(* pool of upload workers, the manifest (in memory, on disk, and the       *)
(* snapshot on Drive), the profile's files and the Drive folder, over any  *)
(* number of runs that may end, be interrupted, fail or be killed.         *)
(***************************************************************************)
EXTENDS Integers, Sequences, FiniteSets

CONSTANTS
    Files,            \* relative paths, the manifest's keys
    Secrets,          \* those the scanner marks `encrypted' when asked to
    Names,            \* Drive file names, each with its parent folder
    NameOf,           \* [Files \X BOOLEAN -> Names]: `x' or, encrypted, `x.enc'
    Contents,         \* contents a file may have; equal iff their MD5s are
    Size,             \* [Contents -> Nat]
    Absent,           \* "content" of a file that is not there, and MD5 ""
    FirstContents,    \* contents at the start
    Writes,           \* pairs <<old, new>>: how a user may change a file
    WritesDuringRun,  \* may files change while a run is going on?
    UploadWorkers,    \* config.upload_workers
    Options,          \* [encrypt, full, prune] a run may be started with
    Budget,           \* how often each kind of external event may happen
    NoEntry,          \* a key the manifest does not have
    Missing,          \* a manifest file that is not there
    NoFile

Ids == Nat \ {0}
Events == {"run", "write", "crash", "interrupt", "saveFault", "driveFault",
           "lostCreate", "scanError", "purge", "lose"}
PruneModes == {"none", "flag", "trash"}
Digests == Contents \cup {Absent}

\* dedup.py ManifestEntry, its Drive parent folder being part of the name
Entry == [md5: Digests, size: Nat, mtime: Nat, id: Ids,
          encrypted: BOOLEAN, pruned: BOOLEAN]
Manifest == [Files -> Entry \cup {NoEntry}]

ASSUME FilesAssumption ==
    /\ Secrets \subseteq Files
    /\ NoFile \notin Files
    /\ NameOf \in [Files \X BOOLEAN -> Names]
ASSUME ContentsAssumption ==
    /\ Absent \notin Contents
    /\ Size \in [Contents -> Nat]
    /\ FirstContents \subseteq Digests
    /\ Writes \subseteq Digests \X Digests
    /\ WritesDuringRun \in BOOLEAN
ASSUME RunAssumption ==
    /\ UploadWorkers \in Nat \ {0}
    /\ Options \subseteq [encrypt: BOOLEAN, full: BOOLEAN, prune: PruneModes]
    /\ Budget \in [Events -> Nat]
ASSUME MarkerAssumption ==
    /\ NoEntry \notin Entry
    /\ Missing \notin Manifest

VARIABLES
    local,     \* the profile: each file's content and mtime
    drive,     \* every Drive file ever created, its index being its id
    disk,      \* the manifest file, config.manifest_path
    snapshot,  \* _meta/manifest.json on Drive
    pc,        \* where the main thread is in BackupEngine.run
    options,   \* the command line and config of this run
    mem,       \* self.manifest
    dirty,     \* self._manifest_dirty
    errors,    \* which of files_skipped_error, files_prune_failed are > 0
    toScan,    \* the files os.walk has yet to reach
    cur,       \* the FileEntry at hand
    job,       \* the executor's work, per file
    futures,   \* the files whose future the main thread holds
    taken,     \* the file whose future was popped and not yet applied
    exit,      \* how the last run ended, or will
    budget     \* external events left

env == <<local, drive, disk, snapshot>>
main == <<pc, options, mem, dirty, errors, toScan, cur, exit>>
pool == <<job, futures, taken>>
vars == <<env, main, pool, budget>>

-----------------------------------------------------------------------------
EmptyManifest == [f \in Files |-> NoEntry]
NoCur == [file |-> NoFile, size |-> 0, mtime |-> 0]

NoJob == [st |-> "none", size |-> 0, mtime |-> 0, encrypted |-> FALSE,
          id |-> 0, replaced |-> 0, data |-> Absent]

Running  == {"encrypt", "update", "find", "overwrite", "create", "reconcile", "digest", "trash"}
Finished == {"done", "leftover", "failed", "vanished"}
Pruning  == {"prune", "pruned", "kept"}
JobStates == {"none", "queued"} \cup Running \cup Finished \cup Pruning

UploadPhase == {"scan", "prepare", "record", "skip", "drain", "settle"}
HandlerPhase == {"cancel", "handler"}
ClosingPhase == {"prune", "trash", "final", "upload"}
Phases == {"idle", "load", "shutdown"} \cup UploadPhase \cup HandlerPhase \cup ClosingPhase

Spend(event) == /\ budget[event] > 0
                /\ budget' = [budget EXCEPT ![event] = @ - 1]

\* A prune pass may run: not with --full, and only after an error-free upload phase.
MayPrune == options.prune # "none" /\ ~options.full /\ "file" \notin errors

Present(f) == local[f].content # Absent
StaleEntries == {f \in Files : mem[f] # NoEntry /\ ~Present(f)}
Encrypted(f) == f \in Secrets /\ options.encrypt
Named(f, encrypted) == {i \in DOMAIN drive : /\ drive[i].name = NameOf[<<f, encrypted>>]
                                             /\ drive[i].state = "live"}

Init ==
    /\ local \in [Files -> [content: FirstContents, mtime: {1}]]
    /\ drive = <<>>
    /\ disk = Missing
    /\ snapshot = Missing
    /\ pc = "idle"
    /\ options \in Options
    /\ mem = EmptyManifest
    /\ dirty = FALSE
    /\ errors = {}
    /\ toScan = {}
    /\ cur = NoCur
    /\ job = [f \in Files |-> NoJob]
    /\ futures = {}
    /\ taken = NoFile
    /\ exit = "none"
    /\ budget = Budget

-----------------------------------------------------------------------------
(* The start of a run.                                                     *)

Start(o) ==
    /\ pc = "idle"
    /\ Spend("run")
    /\ pc' = "load"
    /\ options' = o
    /\ mem' = IF o.full \/ disk = Missing THEN EmptyManifest ELSE disk
    /\ dirty' = FALSE
    /\ errors' = {}
    /\ exit' = "none"
    /\ UNCHANGED <<env, pool, toScan, cur>>

\* _maybe_download_manifest_snapshot: best effort, and only for a device that
\* has no manifest.
FetchSnapshot ==
    /\ pc = "load"
    /\ ~options.full /\ disk = Missing /\ snapshot # Missing
    /\ disk' = snapshot
    /\ mem' = snapshot
    /\ pc' = "scan"
    /\ toScan' = Files
    /\ UNCHANGED <<local, drive, snapshot, options, dirty, errors, cur, exit, pool, budget>>

SkipFetch ==
    /\ pc = "load"
    /\ \/ /\ options.full \/ disk # Missing \/ snapshot = Missing
          /\ budget' = budget
       \/ Spend("driveFault")
    /\ pc' = "scan"
    /\ toScan' = Files
    /\ UNCHANGED <<env, options, mem, dirty, errors, cur, exit, pool>>

-----------------------------------------------------------------------------
(* The scan loop: one file yielded, prepared, submitted; results drained.  *)

\* A file deleted since is not listed, or listed and gone when it is stat'ed.
ScanFile(f) ==
    /\ pc = "scan" /\ f \in toScan
    /\ toScan' = toScan \ {f}
    /\ IF Present(f)
       THEN /\ cur' = [file |-> f, size |-> Size[local[f].content], mtime |-> local[f].mtime]
            /\ pc' = "prepare"
       ELSE cur' = cur /\ pc' \in {"scan", "skip"}
    /\ UNCHANGED <<env, options, mem, dirty, errors, exit, pool, budget>>

\* A file the scanner could not stat, or a secret without its key.
ScanError(f) ==
    /\ pc = "scan" /\ f \in toScan /\ Present(f)
    /\ Spend("scanError")
    /\ toScan' = toScan \ {f}
    /\ errors' = errors \cup {"file"}
    /\ pc' = "skip"
    /\ UNCHANGED <<env, options, mem, dirty, cur, exit, pool>>

\* Mutant: neither mtime nor MD5 is compared.
NeedsUploadBySizeOnly(entry, file) ==
    entry # NoEntry => entry.pruned \/ file.size # entry.size

\* dedup.needs_upload, on the size and mtime of the scan and the MD5 of now.
NeedsUpload(entry, file) ==
    entry # NoEntry =>
        \/ entry.pruned
        \/ file.size # entry.size
        \/ /\ file.mtime # entry.mtime
           /\ \/ ~Present(file.file)
              \/ local[file.file].content # entry.md5

\* _prepare_upload adds a switch between plaintext and encrypted.
MustUpload ==
    LET entry == mem[cur.file]
    IN ~NeedsUpload(entry, cur) => entry.encrypted # Encrypted(cur.file)

PrepareSkip ==
    /\ pc = "prepare" /\ ~MustUpload
    /\ pc' = "skip"
    /\ cur' = NoCur
    /\ UNCHANGED <<env, options, mem, dirty, errors, toScan, exit, pool, budget>>

\* Mutants: the id is reused, or the old copy forgotten, when a file switches
\* between plaintext and encrypted.
WorkReusingId(f) ==
    LET entry == mem[f]
    IN [st |-> "queued", size |-> cur.size, mtime |-> cur.mtime,
        encrypted |-> Encrypted(f),
        id |-> IF entry # NoEntry THEN entry.id ELSE 0, replaced |-> 0, data |-> Absent]
WorkForgettingOldCopy(f) ==
    LET entry == mem[f]
        same == entry # NoEntry /\ entry.encrypted = Encrypted(f)
    IN [st |-> "queued", size |-> cur.size, mtime |-> cur.mtime,
        encrypted |-> Encrypted(f),
        id |-> IF same THEN entry.id ELSE 0, replaced |-> 0, data |-> Absent]

\* The UploadWork: the known Drive file to update, or the one to replace.
Work(f) ==
    LET entry == mem[f]
        known == entry # NoEntry
        same == known /\ entry.encrypted = Encrypted(f)
    IN [st |-> "queued", size |-> cur.size, mtime |-> cur.mtime,
        encrypted |-> Encrypted(f),
        id |-> IF same THEN entry.id ELSE 0,
        replaced |-> IF known /\ ~same THEN entry.id ELSE 0,
        data |-> Absent]

\* _prepare_upload and executor.submit
PrepareUpload ==
    /\ pc = "prepare" /\ MustUpload
    /\ job' = [job EXCEPT ![cur.file] = Work(cur.file)]
    /\ pc' = "record"
    /\ UNCHANGED <<env, options, mem, dirty, errors, toScan, cur, exit, futures, taken, budget>>

\* futures[future] = work
RecordFuture ==
    /\ pc = "record"
    /\ futures' = futures \cup {cur.file}
    /\ cur' = NoCur
    /\ pc' = "drain"
    /\ UNCHANGED <<env, options, mem, dirty, errors, toScan, exit, job, taken, budget>>

EndSkip ==
    /\ pc = "skip"
    /\ pc' = "scan"
    /\ UNCHANGED <<env, options, mem, dirty, errors, toScan, cur, exit, pool, budget>>

\* futures.pop of a future that is done
TakeResult(f) ==
    /\ pc \in {"drain", "settle"} /\ taken = NoFile
    /\ f \in futures /\ job[f].st \in Finished
    /\ futures' = futures \ {f}
    /\ taken' = f
    /\ UNCHANGED <<env, main, job, budget>>

\* Mutant: a failed upload is logged and not counted.
ApplyResultUncounted(f) ==
    LET j == job[f]
        md5 == IF j.data = Absent THEN local[f].content ELSE j.data
    IN /\ IF j.st \in {"done", "leftover"}
          THEN /\ mem' = [mem EXCEPT ![f] =
                            [md5 |-> md5, size |-> j.size, mtime |-> j.mtime, id |-> j.id,
                             encrypted |-> j.encrypted, pruned |-> FALSE]]
               /\ dirty' = TRUE
          ELSE UNCHANGED <<mem, dirty>>
       /\ UNCHANGED errors
       /\ job' = [job EXCEPT ![f] = NoJob]

\* _complete_upload, or _record_upload_error, of a finished job
ApplyResult(f) ==
    LET j == job[f]
        md5 == IF j.data = Absent THEN local[f].content ELSE j.data
    IN /\ IF j.st \in {"done", "leftover"}
          THEN /\ mem' = [mem EXCEPT ![f] =
                            [md5 |-> md5, size |-> j.size, mtime |-> j.mtime, id |-> j.id,
                             encrypted |-> j.encrypted, pruned |-> FALSE]]
               /\ dirty' = TRUE
          ELSE UNCHANGED <<mem, dirty>>
       /\ errors' = errors \cup
                      CASE j.st = "leftover" -> {"prune"}
                        [] j.st = "failed" -> {"file"}
                        [] j.st = "vanished" /\ Present(f) -> {"file"}
                        [] OTHER -> {}
       /\ job' = [job EXCEPT ![f] = NoJob]

CompleteUpload ==
    /\ pc \in {"drain", "settle"} /\ taken # NoFile
    /\ ApplyResult(taken)
    /\ taken' = NoFile
    /\ UNCHANGED <<env, pc, options, toScan, cur, exit, futures, budget>>

\* _maybe_save_manifest_progress once 30 seconds have passed: after a skip,
\* after a drain, when the wait for a future times out, after a trashed copy
Checkpoint ==
    /\ pc \in {"skip", "drain", "settle", "trash"} /\ taken = NoFile /\ dirty
    /\ disk' = mem
    /\ dirty' = FALSE
    /\ UNCHANGED <<local, drive, snapshot, pc, options, mem, errors, toScan, cur, exit, pool, budget>>

\* ManifestProgressError: cancel, wait, apply nothing, exit 1
SaveFails ==
    /\ \/ pc \in {"skip", "drain", "settle", "trash"} /\ taken = NoFile /\ dirty
       \/ pc = "final" /\ (dirty \/ disk = Missing)
    /\ Spend("saveFault")
    /\ pc' = "shutdown"
    /\ exit' = "failed"
    /\ UNCHANGED <<env, options, mem, dirty, errors, toScan, cur, pool>>

\* Mutant: off by one at the bound.
EndDrainOneMore ==
    /\ pc = "drain" /\ taken = NoFile
    /\ Cardinality(futures) <= 2 * UploadWorkers
    /\ pc' = "scan"
    /\ UNCHANGED <<env, options, mem, dirty, errors, toScan, cur, exit, pool, budget>>

\* At most 2 * upload_workers futures are held when the scan goes on.
EndDrain ==
    /\ pc = "drain" /\ taken = NoFile
    /\ Cardinality(futures) < 2 * UploadWorkers
    /\ pc' = "scan"
    /\ UNCHANGED <<env, options, mem, dirty, errors, toScan, cur, exit, pool, budget>>

EndScan ==
    /\ pc = "scan" /\ toScan = {}
    /\ pc' = "settle"
    /\ UNCHANGED <<env, options, mem, dirty, errors, toScan, cur, exit, pool, budget>>

EndSettle ==
    /\ pc = "settle" /\ taken = NoFile /\ futures = {}
    /\ pc' = "prune"
    /\ UNCHANGED <<env, options, mem, dirty, errors, toScan, cur, exit, pool, budget>>

-----------------------------------------------------------------------------
(* The upload workers: _execute_upload, one Drive call at a time.          *)

Goto(f, st) == job' = [job EXCEPT ![f].st = st]

Working == {f \in Files : job[f].st \in Running}
Payload(f) == IF job[f].encrypted THEN job[f].data ELSE local[f].content
ReadableUnchecked(f) == TRUE    \* mutant
Readable(f) == Payload(f) # Absent
Replaces(j, id) == j.replaced # 0 /\ j.replaced # id

\* The job once Drive has answered that file id holds content c.
PutDone(f, id, c) ==
    [job[f] EXCEPT !.st = IF job[f].encrypted THEN "digest"
                          ELSE IF Replaces(job[f], id) THEN "trash" ELSE "done",
                   !.id = id, !.data = c]

Overwritten(id, c) == [drive EXCEPT ![id].content = c]
Created(f, c) == Append(drive, [name |-> NameOf[<<f, job[f].encrypted>>],
                                content |-> c, state |-> "live"])
Trashed(id) == IF drive[id].state = "live"
               THEN [drive EXCEPT ![id].state = "trashed"] ELSE drive

\* Nothing starts once shutdown has cancelled what is queued.
StartJob(f) ==
    /\ job[f].st = "queued" /\ pc # "shutdown"
    /\ Cardinality(Working) < UploadWorkers
    /\ Goto(f, IF job[f].encrypted THEN "encrypt" ELSE IF job[f].id # 0 THEN "update" ELSE "find")
    /\ UNCHANGED <<env, main, futures, taken, budget>>

\* crypto.encrypt_file reads the plaintext here and now.
EncryptFile(f) ==
    /\ job[f].st = "encrypt"
    /\ IF Present(f)
       THEN job' = [job EXCEPT ![f].data = local[f].content,
                               ![f].st = IF job[f].id # 0 THEN "update" ELSE "find"]
       ELSE Goto(f, "vanished")
    /\ UNCHANGED <<env, main, futures, taken, budget>>

\* update_file of the id the manifest knows; not found falls through
UpdateKnown(f) ==
    /\ job[f].st = "update"
    /\ UNCHANGED <<local, disk, snapshot, main, futures, taken, budget>>
    /\ \/ ~Readable(f) /\ Goto(f, "vanished") /\ UNCHANGED drive
       \/ /\ Readable(f) /\ drive[job[f].id].state = "purged"
          /\ job' = [job EXCEPT ![f].st = "find", ![f].id = 0]
          /\ UNCHANGED drive
       \/ /\ Readable(f) /\ drive[job[f].id].state # "purged"
          /\ drive' = Overwritten(job[f].id, Payload(f))
          /\ job' = [job EXCEPT ![f] = PutDone(f, job[f].id, Payload(f))]

\* Mutant: no reconciliation by name.
FindNothing(f) ==
    /\ job[f].st = "find"
    /\ Goto(f, "create")
    /\ UNCHANGED <<env, main, futures, taken, budget>>

\* find_file_by_name_and_parent
FindByName(f) ==
    /\ job[f].st = "find"
    /\ LET found == Named(f, job[f].encrypted)
       IN \/ found = {} /\ Goto(f, "create")
          \/ \E i \in found : job' = [job EXCEPT ![f].st = "overwrite", ![f].id = i]
    /\ UNCHANGED <<env, main, futures, taken, budget>>

\* update_file of the file found by name; here not found is an error
OverwriteFound(f) ==
    /\ job[f].st = "overwrite"
    /\ UNCHANGED <<local, disk, snapshot, main, futures, taken, budget>>
    /\ \/ ~Readable(f) /\ Goto(f, "vanished") /\ UNCHANGED drive
       \/ /\ Readable(f) /\ drive[job[f].id].state = "purged"
          /\ Goto(f, "failed") /\ UNCHANGED drive
       \/ /\ Readable(f) /\ drive[job[f].id].state # "purged"
          /\ drive' = Overwritten(job[f].id, Payload(f))
          /\ job' = [job EXCEPT ![f] = PutDone(f, job[f].id, Payload(f))]

\* upload_file
CreateFile(f) ==
    /\ job[f].st = "create"
    /\ UNCHANGED <<local, disk, snapshot, main, futures, taken, budget>>
    /\ \/ ~Readable(f) /\ Goto(f, "vanished") /\ UNCHANGED drive
       \/ /\ Readable(f)
          /\ drive' = Created(f, Payload(f))
          /\ job' = [job EXCEPT ![f] = PutDone(f, Len(drive) + 1, Payload(f))]

\* compute_md5(plaintext_path), after the upload; "" if it cannot be read
DigestPlaintext(f) ==
    /\ job[f].st = "digest"
    /\ job' = [job EXCEPT ![f].data = local[f].content,
                          ![f].st = IF Replaces(job[f], job[f].id) THEN "trash" ELSE "done"]
    /\ UNCHANGED <<env, main, futures, taken, budget>>

\* The copy under the other name; one already gone counts as done.
TrashReplaced(f) ==
    /\ job[f].st = "trash"
    /\ drive' = Trashed(job[f].replaced)
    /\ Goto(f, "done")
    /\ UNCHANGED <<local, disk, snapshot, main, futures, taken, budget>>

\* upload_file on its last timeout: the file may be there; update it, or give up.
Reconcile(f) ==
    /\ job[f].st = "reconcile"
    /\ LET found == Named(f, job[f].encrypted)
       IN \/ found = {} /\ Goto(f, "failed")
          \/ \E i \in found : job' = [job EXCEPT ![f].st = "overwrite", ![f].id = i]
    /\ UNCHANGED <<env, main, futures, taken, budget>>

\* Where a job goes when its Drive call has used up its attempts. A create ends
\* with an HTTP error, or with a timeout, which upload_file reconciles.
GiveUp(st) == CASE st = "trash"  -> {"leftover"}
                [] st = "create" -> {"failed", "reconcile"}
                [] OTHER         -> {"failed"}

\* A Drive call fails for good, and Drive has not done it ...
CallFails(f) ==
    /\ job[f].st \in Running \ {"digest"}
    /\ Spend("driveFault")
    /\ \E st \in GiveUp(job[f].st) : Goto(f, st)
    /\ UNCHANGED <<env, main, futures, taken>>

\* ... or it has, and the answer was lost.
AnswerLost(f) ==
    /\ Spend("driveFault")
    /\ \/ /\ job[f].st \in {"update", "overwrite"}
          /\ Readable(f) /\ drive[job[f].id].state # "purged"
          /\ drive' = Overwritten(job[f].id, Payload(f))
       \/ /\ job[f].st = "create" /\ Readable(f)
          /\ drive' = Created(f, Payload(f))
       \/ /\ job[f].st = "trash"
          /\ drive' = Trashed(job[f].replaced)
    /\ \E st \in GiveUp(job[f].st) : Goto(f, st)
    /\ UNCHANGED <<local, disk, snapshot, main, futures, taken>>

\* Of the calls that _execute_with_retry repeats after a lost answer only the
\* create is not idempotent: this attempt has made a file, the next makes another.
CreateAgain(f) ==
    /\ job[f].st = "create" /\ Readable(f)
    /\ Spend("lostCreate")
    /\ drive' = Created(f, Payload(f))
    /\ UNCHANGED <<local, disk, snapshot, main, pool>>

-----------------------------------------------------------------------------
(* After the uploads: prune, the last checkpoint, the snapshot.            *)

SkipPrune ==
    /\ pc = "prune" /\ ~MayPrune
    /\ pc' = "final"
    /\ UNCHANGED <<env, options, mem, dirty, errors, toScan, cur, exit, pool, budget>>

\* --prune: the stale entries are marked, in memory.
FlagStale ==
    /\ pc = "prune" /\ MayPrune /\ options.prune = "flag"
    /\ LET stale == {f \in StaleEntries : ~mem[f].pruned}
       IN /\ mem' = [f \in Files |-> IF f \in stale THEN [mem[f] EXCEPT !.pruned = TRUE]
                                                    ELSE mem[f]]
          /\ dirty' = (dirty \/ stale # {})
    /\ pc' = "final"
    /\ UNCHANGED <<env, options, errors, toScan, cur, exit, pool, budget>>

\* --prune-trash: one Drive call per stale entry goes to the prune workers.
TrashStale ==
    /\ pc = "prune" /\ MayPrune /\ options.prune = "trash"
    /\ job' = [f \in Files |-> IF f \in StaleEntries
                               THEN [NoJob EXCEPT !.st = "prune", !.id = mem[f].id,
                                                  !.encrypted = mem[f].encrypted]
                               ELSE job[f]]
    /\ futures' = StaleEntries
    /\ pc' = IF StaleEntries = {} THEN "final" ELSE "trash"
    /\ UNCHANGED <<env, options, mem, dirty, errors, toScan, cur, exit, taken, budget>>

TrashCall(f) ==
    /\ job[f].st = "prune" /\ pc \in {"trash", "shutdown"}
    /\ \/ /\ drive' = Trashed(job[f].id)
          /\ Goto(f, "pruned")
          /\ budget' = budget
       \/ /\ Spend("driveFault")
          /\ drive' \in {drive, Trashed(job[f].id)}
          /\ Goto(f, "kept")
    /\ UNCHANGED <<local, disk, snapshot, main, futures, taken>>

\* Mutant: the key is dropped whether or not Drive trashed the copy.
ApplyTrashAnyway(f) ==
    /\ pc = "trash" /\ f \in futures /\ job[f].st \in {"pruned", "kept"}
    /\ mem' = [mem EXCEPT ![f] = NoEntry]
    /\ dirty' = TRUE
    /\ job' = [job EXCEPT ![f] = NoJob]
    /\ futures' = futures \ {f}
    /\ UNCHANGED <<env, pc, options, errors, toScan, cur, exit, taken, budget>>

ApplyTrash(f) ==
    /\ pc = "trash" /\ f \in futures /\ job[f].st \in {"pruned", "kept"}
    /\ IF job[f].st = "pruned"
       THEN /\ mem' = [mem EXCEPT ![f] = NoEntry]
            /\ dirty' = TRUE
            /\ UNCHANGED errors
       ELSE /\ errors' = errors \cup {"prune"}
            /\ UNCHANGED <<mem, dirty>>
    /\ job' = [job EXCEPT ![f] = NoJob]
    /\ futures' = futures \ {f}
    /\ UNCHANGED <<env, pc, options, toScan, cur, exit, taken, budget>>

EndTrash ==
    /\ pc = "trash" /\ futures = {}
    /\ pc' = "final"
    /\ UNCHANGED <<env, options, mem, dirty, errors, toScan, cur, exit, pool, budget>>

FinalCheckpoint ==
    /\ pc = "final"
    /\ disk' = IF dirty \/ disk = Missing THEN mem ELSE disk
    /\ dirty' = FALSE
    /\ pc' = "upload"
    /\ UNCHANGED <<local, drive, snapshot, options, mem, errors, toScan, cur, exit, pool, budget>>

\* _upload_manifest_snapshot uploads the file just saved; cli.run_errors
\* turns any recorded failure into exit code 2.
UploadSnapshot ==
    /\ pc = "upload"
    /\ \/ /\ snapshot' = disk
          /\ exit' = IF errors = {} THEN "ok" ELSE "partial"
          /\ budget' = budget
       \/ /\ Spend("driveFault")
          /\ snapshot' \in {snapshot, disk}
          /\ exit' = "partial"
    /\ pc' = "shutdown"
    /\ UNCHANGED <<local, drive, disk, options, mem, dirty, errors, toScan, cur, pool>>

\* executor.shutdown(wait=True, cancel_futures=True), and the process ends.
Shutdown ==
    /\ pc = "shutdown" /\ Working = {}
    /\ pc' = "idle"
    /\ toScan' = {}
    /\ cur' = NoCur
    /\ job' = [f \in Files |-> NoJob]
    /\ futures' = {}
    /\ taken' = NoFile
    /\ UNCHANGED <<env, options, mem, dirty, errors, exit, budget>>

-----------------------------------------------------------------------------
(* Ctrl+C and SIGTERM.                                                     *)

\* In the upload phase the handler of the inner `try' runs; before and after
\* it, and in the handler itself, nothing but the `finally' does.
Interrupt ==
    /\ pc \notin {"idle", "shutdown"}
    /\ Spend("interrupt")
    /\ pc' = IF pc \in UploadPhase THEN "cancel" ELSE "shutdown"
    /\ exit' = "interrupted"
    /\ taken' = NoFile
    /\ cur' = NoCur
    /\ UNCHANGED <<env, options, mem, dirty, errors, toScan, job, futures>>

\* Mutants: cancelled futures are still waited for; running ones are dropped too.
CancelAndWait ==
    /\ pc = "cancel"
    /\ job' = [f \in Files |-> IF f \in futures /\ job[f].st = "queued" THEN NoJob ELSE job[f]]
    /\ pc' = "handler"
    /\ UNCHANGED <<env, options, mem, dirty, errors, toScan, cur, exit, futures, taken, budget>>
CancelAll ==
    /\ pc = "cancel"
    /\ futures' = {}
    /\ pc' = "handler"
    /\ UNCHANGED <<env, options, mem, dirty, errors, toScan, cur, exit, job, taken, budget>>

\* f.cancel() of every future held
CancelQueued ==
    /\ pc = "cancel"
    /\ LET queued == {f \in futures : job[f].st = "queued"}
       IN /\ job' = [f \in Files |-> IF f \in queued THEN NoJob ELSE job[f]]
          /\ futures' = futures \ queued
    /\ pc' = "handler"
    /\ UNCHANGED <<env, options, mem, dirty, errors, toScan, cur, exit, taken, budget>>

\* wait() for those that run, then apply each of them
HandlerApply(f) ==
    /\ pc = "handler"
    /\ \A g \in futures : job[g].st \in Finished
    /\ f \in futures
    /\ ApplyResult(f)
    /\ futures' = futures \ {f}
    /\ UNCHANGED <<env, pc, options, toScan, cur, exit, taken, budget>>

\* _maybe_save_manifest_progress(force=True); a failure is noted and dropped
HandlerCheckpoint ==
    /\ pc = "handler" /\ futures = {}
    /\ \/ /\ disk' = IF dirty \/ disk = Missing THEN mem ELSE disk
          /\ dirty' = FALSE
          /\ budget' = budget
       \/ /\ dirty \/ disk = Missing
          /\ Spend("saveFault")
          /\ UNCHANGED <<disk, dirty>>
    /\ pc' = "shutdown"
    /\ UNCHANGED <<local, drive, snapshot, options, mem, errors, toScan, cur, exit, pool>>

-----------------------------------------------------------------------------
(* What happens to the machine and to Drive from outside.                  *)

\* SIGKILL, power loss: the process and what only it knew are gone.
Crash ==
    /\ pc # "idle"
    /\ Spend("crash")
    /\ pc' = "idle"
    /\ exit' = "killed"
    /\ mem' = EmptyManifest
    /\ dirty' = FALSE
    /\ toScan' = {}
    /\ cur' = NoCur
    /\ job' = [f \in Files |-> NoJob]
    /\ futures' = {}
    /\ taken' = NoFile
    /\ UNCHANGED <<env, options, errors>>

\* The user changes, deletes or creates a file; the mtime is a new one.
Write(f) ==
    /\ WritesDuringRun \/ pc = "idle"
    /\ Spend("write")
    /\ \E c \in Digests :
          /\ <<local[f].content, c>> \in Writes
          /\ local' = [local EXCEPT ![f] = [content |-> c, mtime |-> @.mtime + 1]]
    /\ UNCHANGED <<drive, disk, snapshot, main, pool>>

\* A Drive file is deleted for good in the web interface.
Purge(i) ==
    /\ drive[i].state # "purged"
    /\ Spend("purge")
    /\ drive' = [drive EXCEPT ![i].state = "purged"]
    /\ UNCHANGED <<local, disk, snapshot, main, pool>>

\* A reinstalled or replaced machine has no manifest file.
LoseManifest ==
    /\ pc = "idle" /\ disk # Missing
    /\ Spend("lose")
    /\ disk' = Missing
    /\ UNCHANGED <<local, drive, snapshot, main, pool>>

-----------------------------------------------------------------------------
MainStep ==
    \/ FetchSnapshot \/ SkipFetch
    \/ \E f \in Files : ScanFile(f) \/ ScanError(f)
    \/ PrepareSkip \/ PrepareUpload \/ RecordFuture
    \/ EndSkip \/ EndDrain \/ EndScan \/ EndSettle
    \/ \E f \in Files : TakeResult(f)
    \/ CompleteUpload \/ Checkpoint \/ SaveFails
    \/ SkipPrune \/ FlagStale \/ TrashStale \/ EndTrash
    \/ \E f \in Files : ApplyTrash(f)
    \/ FinalCheckpoint \/ UploadSnapshot
    \/ CancelQueued \/ HandlerCheckpoint
    \/ \E f \in Files : HandlerApply(f)
    \/ Shutdown

WorkerStep(f) ==
    \/ StartJob(f) \/ EncryptFile(f) \/ UpdateKnown(f) \/ FindByName(f)
    \/ OverwriteFound(f) \/ CreateFile(f) \/ DigestPlaintext(f) \/ TrashReplaced(f)
    \/ Reconcile(f) \/ CallFails(f) \/ AnswerLost(f) \/ CreateAgain(f) \/ TrashCall(f)

Environment ==
    \/ \E o \in Options : Start(o)
    \/ Interrupt \/ Crash \/ LoseManifest
    \/ \E f \in Files : Write(f)
    \/ \E i \in DOMAIN drive : Purge(i)

Next == MainStep \/ (\E f \in Files : WorkerStep(f)) \/ Environment

Spec == Init /\ [][Next]_vars

\* The main thread and the workers keep going; nobody owes a run, a fault, a
\* keystroke or an edit.
FairSpec == Spec /\ WF_vars(MainStep) /\ \A f \in Files : WF_vars(WorkerStep(f))

-----------------------------------------------------------------------------
DriveFile == [name: Names, content: Contents, state: {"live", "trashed", "purged"}]
FileEntry == [file: Files \cup {NoFile}, size: Nat, mtime: Nat]
Job == [st: JobStates, size: Nat, mtime: Nat, encrypted: BOOLEAN,
        id: Nat, replaced: Nat, data: Digests]
Exits == {"none", "ok", "partial", "interrupted", "failed", "killed"}

\* Every variable keeps the type the code gives it; in particular a size is
\* always known when a manifest entry is written.
TypeOK ==
    /\ local \in [Files -> [content: Digests, mtime: Nat]]
    /\ drive \in Seq(DriveFile)
    /\ disk \in Manifest \cup {Missing}
    /\ snapshot \in Manifest \cup {Missing}
    /\ pc \in Phases
    /\ options \in Options
    /\ mem \in Manifest
    /\ dirty \in BOOLEAN
    /\ errors \subseteq {"file", "prune"}
    /\ toScan \subseteq Files
    /\ cur \in FileEntry
    /\ job \in [Files -> Job]
    /\ futures \subseteq Files
    /\ taken \in Files \cup {NoFile}
    /\ exit \in Exits
    /\ budget \in [Events -> Nat]

\* README, Performance: at most 2 * upload_workers tasks are in flight, queued
\* and finished ones included, however scan, drain and skips interleave.
InFlightBound ==
    pc \in UploadPhase => Cardinality({f \in Files : job[f].st # "none"}) <= 2 * UploadWorkers

\* The KeyboardInterrupt handler waits for the uploads that run and applies them:
\* at its checkpoint at most one upload is unaccounted for, the one whose future
\* was just submitted and not yet noted, or just popped and not yet applied.
InterruptLosesAtMostOne ==
    pc = "handler" /\ futures = {} => Cardinality({f \in Files : job[f].st # "none"}) <= 1

\* upload_file, comment at drive_api.py:315: a lost answer leads to an update, not
\* to a duplicate. Drive never holds two live files of one name in one folder: what
\* a killed or interrupted run, or a timed-out create, uploaded and did not record is
\* found by name, not uploaded again, and a copy deleted on Drive is re-created once.
\* It fails when a create is repeated within one call, "lostCreate".
NoDuplicateCopies ==
    \A i, j \in DOMAIN drive :
        drive[i].state = "live" /\ drive[j].state = "live" /\ drive[i].name = drive[j].name
            => i = j

\* A Drive id recorded for a file is the id of a Drive file created for it, under
\* the name its `encrypted' flag calls for.
Tracks(f, id, encrypted) ==
    id \in DOMAIN drive /\ drive[id].name = NameOf[<<f, encrypted>>]
OwnCopies(m) ==
    \A f \in Files : m[f] # NoEntry => Tracks(f, m[f].id, m[f].encrypted)

\* The manifests, in memory, on disk and on Drive, and the work built from them,
\* only ever name the file's own copy; an update or a trash never reaches the
\* copy of another file.
ManifestTracksOwnFile ==
    /\ OwnCopies(mem)
    /\ disk # Missing => OwnCopies(disk)
    /\ snapshot # Missing => OwnCopies(snapshot)

BackedUp(f, m) ==
    /\ m[f] # NoEntry
    /\ drive[m[f].id].content = local[f].content
    /\ drive[m[f].id].state = "live"

\* README, first paragraph: unchanged files are skipped. The dedup check never
\* skips a file whose Drive copy lacks the content it was scanned with, whatever
\* earlier runs were killed, failed or raced with the user's edits.
SkipIsBackedUp ==
    pc = "prepare" /\ ~MustUpload /\ local[cur.file].mtime = cur.mtime
        => BackedUp(cur.file, mem)

\* A run that exits 0 leaves every file of the profile on Drive, live, with its
\* present content, under the name the encryption setting calls for, and the
\* manifest file records that copy.
OkRunIsComplete ==
    pc = "shutdown" /\ exit = "ok" =>
        \A f \in Files : Present(f) =>
            /\ disk # Missing /\ BackedUp(f, disk)
            /\ ~disk[f].pruned
            /\ drive[disk[f].id].name = NameOf[<<f, Encrypted(f)>>]

\* README, secrets_key_path: a file that switches between plaintext and encrypted
\* has its old copy trashed. After a run that exits 0 no live copy of a file is
\* left under either name but the one the manifest records.
LiveCopiesAreTracked ==
    pc = "shutdown" /\ exit = "ok" =>
        \A f \in Files : Present(f) =>
            Named(f, TRUE) \cup Named(f, FALSE) \subseteq {disk[f].id}

\* A save never makes the manifest file forget a copy that is still live: an
\* entry goes only after Drive has trashed the copy, and changes its id only
\* when the old one is gone.
NeverForgetsLiveCopy ==
    [][\A f \in Files :
          /\ disk # Missing /\ disk[f] # NoEntry
          /\ disk' # Missing /\ drive'[disk[f].id].state = "live"
          => disk'[f] # NoEntry /\ disk'[f].id = disk[f].id]_vars

\* A run that was started ends: no wait for futures, bound or handler blocks it
\* forever.
RunEnds == pc # "idle" ~> pc = "idle"

=============================================================================
