# drive-profile-backup in TLA+

A specification of this repository, model-checked with TLC and, in part, proved
with TLAPS. Its two programs are

* the backup in `src/drive_backup`, which copies a user profile to Google
  Drive: it scans the profile, skips what its *manifest* says is already on
  Drive, uploads the rest through a pool of threads, optionally trashes the
  copies of deleted files, and saves the manifest as it goes; a restore brings
  the files back;
* the work-tree flow in `.omp/scripts/worktree_flow`, which has a coding
  harness implement a plan in a git worktree of its own and lands the result on
  the base branch, resumable at every step.

Both are repeated for years, by hand and by timers, and end in every way a
process can end. What makes them correct is a relation between things that
change separately: local files, manifest and Drive; state file, worktrees and
base branch.

All line numbers are those of this repository's source.

## 1. Inventory

| Part | Source | State it keeps | Operations |
|---|---|---|---|
| Backup run | `engine.py` `BackupEngine.run` | `manifest`, `_manifest_dirty`, `futures`, statistics | load, scan loop, submit, drain, checkpoint, interrupt handler, prune, snapshot, shutdown |
| Upload of one file | `engine.py` `_execute_upload`, `_put_work`, `_put_file`; `crypto.encrypt_file` | the temporary ciphertext | encrypt, update the known id, find by name, overwrite, create, digest, trash the replaced copy |
| Manifest, dedup | `dedup.py`, `utils.py` | the manifest file | `load`, `save` (write aside, `os.replace`), `set`, `remove`, `needs_upload` |
| Drive wrapper | `drive_api.py` | folder cache with a lock per folder, per-thread service, last write time | calls with retry, `upload_file` with reconciliation, `get_or_create_folder`, rate limiter |
| Prune | `engine.py` 1219-1564 | protected, eligible and wanted paths | flag, trash, group by folder, split a refused folder, prune excluded |
| Scanner | `scanner.py` | none | `os.walk` with exclusion, secret, symlink and size rules |
| Restore | `restore.py` | the output directory | snapshot download, file download, decrypt, git clone |
| Secrets key | `crypto.py` | the key file | load, load or generate |
| Machine state | `machine_state.py` | `_machine_state/*.json` | one collector after another, each may fail and keep its old output |
| Work-tree flow | `.omp/scripts/worktree_flow` `workflow.py`, `state.py`, `git_workspace.py`, `integration.py`, `harness.py` | the state file and lock of each run, worktrees, branches, archive directory, base branch | some fifty steps from choosing names to the final commit, `resume`, stop before the merge, clean-up |
| Command line | `cli.py` | the SIGTERM handler | options, exit codes |
| Scheduled runs | `scheduled/*.sh` | `ac-streak`, `attempts`, `last-success`, `stale-nag` | gate, attempt, run, remind |
| Configuration, report, summary, usage accounting | `config.py`, `report.py`, `scripts/`, `worktree_flow/usage.py` | none that later runs read | validation and output |

**Interaction.** The main thread yields files from the scanner, decides with
`needs_upload` on its own manifest, and hands an immutable `UploadWork` to the
pool. A worker talks to Drive only, never to the manifest, and answers through
its future; on the way it asks the shared folder cache for the folder of its
file. The main thread applies the answers to the manifest and saves it when 30
seconds have passed. Before the scan it has refreshed the machine-state
outputs, whose failures it protects from the prune. The prune phase has a pool
of its own and the same hand-over. A manifest snapshot goes to Drive at the
end, for machines that have no manifest and for restore, which reads nothing
else of the backup but the key file. Between runs only the manifest file, the
snapshot and the files on Drive remain. The runs of the work-tree flow share
one repository with each other and with its owner; each has a state file, a
feature worktree and an integration worktree of its own.

**What is hard.** A Drive call and the record of it are two steps, with up to
30 seconds and a process that may die in between; so are a git command and the
save of the stage it belongs to. A file is read at several moments (stat,
encryption, upload, digest), while the user edits it. Ctrl+C may land between
any two bytecodes of the main thread. A switch between plaintext and encrypted
changes a file's name on Drive. A lost answer leaves an effect nobody knows of.
Upload workers need one folder at once. A Drive folder may hold what the
manifest does not know, under a name in another case. The base branch moves
while a run builds on it. The hazards are listed, each at its line, in
`PROJECT.json`.

**What makes each part correct.**

* Run: what a run skips is on Drive; a run that exits 0 leaves the profile
  complete there; no kill makes a duplicate; the in-flight bound; every run
  ends; an interrupted run has saved its progress.
* Upload: a copy under the old name is retired; an id never belongs to
  another file.
* Manifest: a save never forgets a live copy; a reader sees an old or a new
  file, never half of one.
* Prune: nothing that is kept on the machine, or protected, is trashed; a key
  goes exactly when its copy has; the splitting of folders ends.
* Drive wrapper: one folder per name however many threads ask, an id of a
  folder of that name whatever its case, one id per process, both locks
  released on every way out.
* Scanner: the key file is never backed up, a secret is never uploaded as
  plaintext while encryption is on.
* Restore: what bears a file's name is a complete download of it; what is
  reported as restored is; repeating it completes it.
* Secrets key: the key that is on disk opens every copy.
* Machine state: a failure keeps the last backup, a deselected inventory goes,
  the snapshot of a refresh is true.
* Work-tree flow: receipts are true, only audited heads land, never twice in a
  row, no commit is lost, a run that is resumed finishes.
* Scheduled runs: at most two attempts a day, a reminder when backups stop.

## 2. Modules

| Module | Contents |
|---|---|
| `BackupRun` | main thread, pool, manifest, snapshot, Drive, the user, any number of runs |
| `BackupRunProofs`, `BackupRunContentProofs` | its theorems: types, identity of copies and the in-flight bound; what manifests and exit codes promise of contents |
| `TrashPrune`, `TrashPruneProofs` | folder trees: grouping, splitting, protected, marked and excluded paths, a pool of calls, and its theorems |
| `FolderCache`, `FolderCacheProofs` | double-checked locking of `get_or_create_folder`, and its theorems |
| `Restore`, `RestoreProofs` | key file, uploads, snapshot, per-file restore with failures and repetition, and its theorems |
| `MachineState`, `MachineStateProofs` | refresh, protection, upload and prune of the inventories, and its theorems |
| `WorktreeFlow`, `WorktreeFlowProofs` | the whole flow of any number of runs, and the owner of the repository; its invariant and what follows from it |
| `Landing`, `LandingProofs` | what the flow promises the owner, abstractly; the proof that `WorktreeFlow` implements it |
| `MC...` | the constants of the TLC runs of each |

The modules meet at the seams of the code: `BackupRun` takes the folder of a
file as part of its Drive name, which is what `FolderCache` shows to be sound
(one id per folder and process); its trash phase works file by file, and
`TrashPrune` replaces that by folders; `MachineState` and `Restore` see of a
backup run only what it leaves on Drive.

### `BackupRun`

Its state corresponds to the code as follows.

| Variable | Code |
|---|---|
| `local` | the profile; a content stands for bytes and their MD5, `Size` for `st_size` |
| `drive` | every file the app ever created; the index is the id, never reused; the name stands for the name and parent folder |
| `disk`, `snapshot` | `config.manifest_path`; `_meta/manifest.json` |
| `mem`, `dirty` | `self.manifest`, `self._manifest_dirty` |
| `pc` | the main thread: `load` (before the pool), `scan` `prepare` `record` `skip` `drain` `settle` (the inner `try`), `cancel` `handler` (its `except KeyboardInterrupt`), `prune` `trash` `final` `upload`, `shutdown` (the outer `finally`), `idle` (no process) |
| `cur` | the `FileEntry` between `scan` and `submit` |
| `job` | one `Future` per file: `queued`, the Drive call it is about to make, its outcome; for prune, one trash call |
| `futures`, `taken` | the dict the main thread holds; the future popped from it and not yet applied |
| `errors` | whether `files_skipped_error` (`"file"`) or `files_prune_failed` (`"prune"`) is positive |
| `exit` | 0 `ok`, 2 `partial`, 130/143 `interrupted`, 1 `failed`, `killed` |

Actions carry the names of the functions they model where there is one; the
`map` of `PROJECT.json` gives the lines. `MainStep` is the main thread,
`WorkerStep(f)` the thread that runs the job of `f`, `Environment` the user,
the machine and Drive's own interface. The choices behind it:

* **Grain.** One action per Drive call, per read of a local file and per place
  where the main thread hands something over. `TakeResult` and
  `CompleteUpload`, and `PrepareUpload` and `RecordFuture`, are separate because
  an interrupt may fall between them. Applying one result (`manifest.set`,
  statistics) is one step.
* **Interrupts** can fall before every step of the main thread. In the upload
  phase they lead to the handler, elsewhere, and inside the handler, to
  `shutdown`, as the two `except` clauses do. A further interrupt during
  `executor.shutdown` is left out; nothing is written there.
* **Time.** "30 seconds have passed" is a choice: `Checkpoint` may happen
  wherever `_maybe_save_manifest_progress` is called, or not.
* **Failure.** `CallFails` is a Drive call that fails after its retries
  without effect, `AnswerLost` one that took effect. An attempt that is
  repeated inside `_execute_with_retry` changes nothing, or, for an update or a
  trash, what the next attempt would change; only a create that is repeated
  leaves something else behind, a second file (`CreateAgain`). A create that
  ends in a timeout is reconciled by name (`Reconcile`), as in `upload_file`.
  `SaveFails` is `ManifestProgressError`. A kill (`Crash`) loses everything but
  `local`, `drive`, `disk` and `snapshot`, at any point; a request in flight at
  the kill has happened or will not.
* **Save** is atomic (`utils.atomic_write_json` writes aside and replaces).
* **An mtime** is new with every write. A program that sets an old mtime back
  defeats the size and mtime comparison by design and is not modelled.
* **Purge** is a file deleted for good on Drive. Drive accepts new content for
  a trashed file, as its API does.
* **Prune** trashes one file per call here, in any order, with any number of
  calls under way: folder grouping, the bound of eight and the order in which
  outcomes are applied belong to `TrashPrune`.
* **Failing to authenticate**, or a manifest that does not parse, ends a run in
  `load`, before it changed anything; an interrupt there has the same effect.

`Options`, `Writes`, `WritesDuringRun` and `Budget` are the model's only knobs:
which runs, edits and faults happen, and how often. `Budget` bounds the events
of the environment; `MCBackupRun` names each bound. Nothing in the program is
bounded by them.

### `FolderCache`

`DriveAPI.get_or_create_folder`, called for each part of a path by
`ensure_folder_path`, from several threads.

| Variable | Code |
|---|---|
| `folders` | the folders on Drive, live or trashed; `answered` is whether the program got the id of the create |
| `cache`, `locks` | `_folder_cache`, `_folder_locks`, both keyed by name and parent (`drive_api.py` 216) |
| `table` | the thread inside `with self._folder_cache_lock` |
| `holds`, `lock` | the per-folder lock a thread holds; the one its local variable names |
| `pc` | `fast` (217), `table`, `get`, `make` (221-226), `lock`, `recheck` (228-230), `list` (232-247), `create` (248-257) |
| `tries` | attempts of `_execute_with_retry` |

A name is looked up on Drive whatever its case: `List` may answer any live
folder of the parent whose name is the same under `Fold`, while cache and locks
are keyed by the name as it is spelled. The instance asks for `/a` and `/A/b`,
two spellings of one name. A dictionary read or write is one step, as the GIL
makes it. `Fail` is an
attempt that fails: it is repeated, or after `MaxRetries` raises, which leaves
the `with` block. A create may take effect and lose its answer, so that the
next attempt creates again. The owner trashes folders; `NewProcess` starts with
an empty cache at any time.

### `TrashPrune`

`_trash_manifest_entries`, for the stages `missing` (`--prune-trash`) and
`excluded` (`--prune-excluded`). A path is a sequence of names, `Fold` is
`casefold`; a Drive folder is found by name whatever its case, so
`ParentId(k)` folds the path, and `copy` tells two folders of one path apart.
`Order` lists files and directories as `sorted()` would, and `InOrder[S]` is
the part of it that is in `S`, by the rank of each element.
`Foreign` are the folders with items of another app, which Drive refuses to
trash (403 `appNotAuthorizedToChild`). `kind` says what the scan, the
configuration and earlier runs make of each file: gone, with an id or without
(`stale`, `unnamed`) or protected; there and `excluded`; there and `kept`, which
is all one to the prune whether the file is eligible, unreadable or too large;
or marked by an earlier `--prune`, and since then gone (`marked`), protected
(`shielded`) or back on the machine and not uploaded again (`returned`: the
upload failed, or the file is unreadable or too large now). The code treats the
three marked kinds as one (1339, 1366), which is what section 4 is about.

`Group` is `_group_by_trashable_folder` and the job list; `Call(i)` a worker of
the pool of eight (`Workers` in the model); `Apply` the loop over the futures
in job order with its checkpoint, including `_split_folder_job`; `Retry` the
next round. `NextRun` is a crash, an interrupt or a new run: it starts from the
saved manifest. Local files do not change while the model runs, and `--dry-run`
is left out. Of two Drive folders of one path only the one recorded first is
trashed, which `HasTwin` excepts.

### `Restore`

One key file, backups that generate, load and use it, and `restore_backup`
with `--force`, `--decrypt` and the clone phase, started at any time and
repeated. `StartBackup` and `PersistKey` are the two halves of
`load_or_generate_key` (generate; write and replace), `Upload` stands for
everything `BackupRun` says of one file, `EndBackup` for prune and snapshot.
`Download` opens the `.part` file, `Replace` and `FailFile` end it: in
between, a backup may overwrite the copy, and the process may die.
`download_file` (`drive_api.py` 351-364) reads 1 MB at a time and names no
revision, so `fetched` is the set of what the download under way may bring: the
copy as it was, and after an overwrite (`Meanwhile`) also the new one or a
mixture, which counts as the oldest part in it. Decryption refuses a mixture
(AES-GCM, `Opens`); nothing else looks. `Order` is `sorted(manifest)`; names may
end in `.part` or `.enc`. Unsafe paths and entries without an id (counted
as failed, nothing is written) are left out.

### `MachineState`

`collect_machine_state` phase by phase (`pc`), and what `BackupEngine.run` does
with its outcomes: protection (261-268), upload, prune. `out[c]` is the run
that wrote a local output, `drive[c]` the run whose output Drive has; the
PowerShell and WSL commands are any outcome. `Escape` is an exception that
`run` turns into failures of everything (223-259). The configuration may list
other collectors in every run, in any order. The owner deletes outputs between
runs.

### `WorktreeFlow` and `Landing`

| Variable | Code |
|---|---|
| `st` | the state file of a run: `WorkflowState` without the fields that never change, `None` before the first save |
| `name` | the feature names chosen: the slug, or slug-2 and so on (`NamesOf`) |
| `pc`, `fresh` | where the process is, `down` when there is none; whether `run()` or `resume()` started it |
| `feat`, `integ` | worktree, branch and contents of the feature and of the integration |
| `archive` | the run's directory in the primary worktree: candidate state, uncommitted changes, final state |
| `base` | the base branch |

A commit is identified with the history that ends in it: a branch is a sequence
of commits and "is an ancestor of" is `IsPrefix`. `Allowed` is the transition
table of `state.py`; a transition outside it ends the process
(`Transition`), as does every failed check (`Refuse`). A git command is one
step, the save of the stage that follows another, and `Kill` falls in between;
what the code reads before a command is part of the step only where nobody else
can change it. `Resume` is `_validate_resume_state` with the dispatch on the
stage. A harness phase may do anything to its worktree: `HarnessOutcomes`,
which bad outcomes spend the fault budget.

The owner commits to the base branch, amends their own last commit, and commits
in the feature worktree while there is one. Uncommitted edits of the owner and
commits between the check of the tip and `git branch -D` (one step here) are
not modelled, nor are state files somebody edited. The slug is the first six
words of the plan's title (`paths.py` 372-389), so `NamesOf` gives each run the
names it may take and says nothing of whether two runs share one; the instances
use names that are apart. The subjects of a run's commits carry its plan's
title: titles are different, so that a run recognises its own.

What `git merge` makes of a head (`MergeOutcomes`) depends on what it knows. A
merge commit (`no-ff`) has the head for a parent, so merging it again brings
nothing. A squash commit has not: as long as nothing but records came on top of
it, merging again still changes nothing; once other work lies over it
(`Overlaid`), which may have taken it back or edited the same lines, the merge
may come out empty, apply or conflict. That an audited head is the head read after the harness has returned
(594) is taken from the code.

`Landing` is the promise to the owner of the repository: the base branch only
grows, but for commits the owner rewrites; a head of a run that has landed lands
again only when other work has come on top of it; a feature branch is deleted only when its work has landed. `L == INSTANCE
Landing WITH freed <- Freed` and the property `ImplementsLanding` say that the
flow implements it.

## 3. Model checking

`CHECK_DEADLOCK FALSE` everywhere: once the budget of runs, requests and faults
is spent the programs rest, and that is where they should.

| Run | Instance | States | Shows |
|---|---|---|---|
| `crash_resume` | 2 files, 1 worker, 2 runs, 2 edits at any time, 1 kill, 1 failed call | 518,384 | `SkipIsBackedUp`, `NoDuplicateCopies`, `TypeOK` |
| `flip` | 2 files, one a secret, 2 workers, 3 runs that switch encryption, 1 edit between runs, lost manifest, purge | 239,763 | `LiveCopiesAreTracked`, `ManifestTracksOwnFile` |
| `prune` | 2 files, both prune modes, 3 runs, 2 edits, kill, interrupt, failed call | 2,399,514 | `NeverForgetsLiveCopy` |
| `quiet` | 1 secret, `--prune` and `--full`, 3 runs, 2 edits between runs, 2 interrupts, kill, lost manifest, failed save, 2 failed calls, 1 repeated create | 3,969,457 | `OkRunIsComplete` |
| `bound` | 3 files, 1 worker, 2 interrupts, failed save, scan error, fairness | 8,633 | `InFlightBound`, `InterruptLosesAtMostOne`, `RunEnds` |
| `folder_cache` | 2 threads, 3 requests for `/a` and `/A/b`, 2 attempts per call, 2 faults, a trashed folder, a second process, fairness | 716,632 | `NoSecondFolder`, `CacheIsRight`, `OneIdPerProcess`, `AsksEnd`, `TypeOK` |
| `trash_prune` | 4 files 2 to 4 deep in directories two of which differ in case, all mixes of kinds, another app's items in no, the inner or the outer folder, 2 workers, 1 failed call, 1 stop, fairness | 843,677 | `KeptStays`, `DroppedIsTrashed`, `TargetsAreSettled`, `PruneEnds`, `TypeOK` |
| `marked_history` | a file to go beside one marked before it became protected and one marked that is back and not uploaded again | 51 | `HistoryStays` is violated, section 4 |
| `restore` | a file in a repository and a secret, 1 backup process, 2 uploads, a pruned file, 1 failure, 1 interrupt, 1 lost or spoilt key, fairness | 2,638,044 | `TargetsAreWhole`, `OkMeansRestored`, `SecretsReadable`, `RestoreConverges`, `TypeOK` |
| `machine_state` | 2 collectors, 3 runs with any configuration, 2 faults, 1 deleted output | 354,282 | `SnapshotIsTrue`, `FailedKeepsBackup`, `DeselectedGoes`, `TypeOK` |
| `worktree_pair` | 2 runs whose names are apart (squash or stop; no-ff, keeping its worktrees), conflicts, 1 kill or failing phase, fairness | 310,137 | `ReceiptsHold`, `LandsAudited`, `ImplementsLanding`, `RunsFinish`, `TypeOK` |
| `worktree_owner` | 1 run in any mode, 2 commits on its branch, 3 kills or failures, 2 steps of the owner, fairness | 339,456 | `NoWorkLost`, `RunsFinish`, `StuckForGood` |

Why these bounds are enough to be interesting.

* `BackupRun`: a property about one file's entry needs two runs (one that dies,
  one that resumes) and three when a third must trust what the second wrote;
  two files show whether one touches the other's copy; three files on one
  worker are the fewest that fill the bound of 2 and leave one running, one
  queued and one finished. Two contents have one size, so that MD5 decides, and
  a third has another.
* `FolderCache`: two threads are what a race needs, and a path and its parent
  make them meet in both folders, under two spellings in the upper one; with
  two faults one attempt is repeated and
  one call given up; the second process meets the duplicates of the first.
* `TrashPrune`: one kept file above, below and beside what is to go, spelled in
  another case; marked files that are gone or back again in the folders that go;
  and a chain of directories of which one holds no file itself;
  two rounds of splitting are reached; two workers finish out of order.
* `Restore`: the second upload overwrites what a download is reading, which then
  may bring a mixture, or is made under another key; the one interrupt leaves a `.part` file, which the
  next restore meets.
* `MachineState`: what a run protects, the next may prune, and the third
  deselect. Two faults let a failure of a collector meet a crash.
* `WorktreeFlow`: two runs are what makes the base move under one of them, also
  with a conflict, and what lies over a squashed head that is built again and
  lands a second time; a second commit on the branch is one the audit has not seen;
  three faults are a kill, a failing phase after the resumption, and another
  kill.

Some properties of `BackupRun` hold only within limits that the runs state and
section 4 shows to be needed: `SkipIsBackedUp` for plaintext files whose
replaced contents do not come back, `OkRunIsComplete` for a fixed encryption
setting and without trash-prune, both for edits between runs or plaintext
reads, `LiveCopiesAreTracked` without kills, failed calls and `--full`,
`NoDuplicateCopies` as long as no create is repeated within one call. `SecretsReadable` and
`RestoreConverges` ask that the key file was never lost.

`RunsFinish` names every way a run does not finish: `Stuck(r)` is the whole
list, `Stranded` (a kill in one of five windows, or a merge that brings
nothing), `Conflicted`, `Overtaken` (the base was moved after the fast-forward
or rewritten before it) and `Outdated` (the feature branch has commits the audit
has not seen). `StuckForGood` shows that each of them is final but for what the
owner commits and, in a squash run, what another run lands on top, so that the
list is no longer than it need be.

**Fairness.** A thread that can go on does: the operating system schedules it,
and a Drive call ends, since `_execute_with_retry` bounds its attempts and the
transport has a timeout. So `BackupRun` has weak fairness of the main thread
and of each worker, `FolderCache` of each thread, `TrashPrune` of the main
thread and of the pool. `Restore` has it of whoever restores, who repeats a
restore that failed. `WorktreeFlow` has it of each run's process and of its
operator, who resumes a run that went down, as its last message asks. There is
none for the user, the network, faults or kills.

## 4. Where the code and its documentation part

One run has `expect: violation`, and its trace is the argument:

* `marked_history`: when `_group_by_trashable_folder` collects the directories
  to keep, it skips every entry with `pruned` (`engine.py` 1366-1370), and so
  does `_excluded_manifest_entries` (1339). Nobody asks whether the file is
  protected or back on the machine. So where such a file shares a folder with
  one that is excluded now, the folder counts as one that can go whole, the key
  of the marked file is put among the keys of its job (1401-1405), and the call
  that trashes the folder takes its copy along. It contradicts two promises:
  * of a file `prune_protected_paths` covers since it was marked (`shielded`).
    `src/README.md` 45 says that these globs name paths "that `--prune`,
    `--prune-trash` and `--prune-excluded` must leave on Drive even when the
    local file is gone";
  * of a file that is back but was not uploaded again (`returned`).
    `src/README.md` 71 says that "Files only on Drive, unreadable files, and
    files that grew past a size limit keep their copies", and the comment at
    `engine.py` 1310 calls an unreadable file "still wanted".

The others are behaviours of the models that the properties exclude by what
they assume; each was met as a counterexample while the property was stated
without the assumption.

*Backup.*

* A kill between the trash call and the next checkpoint (`engine.py` 1513)
  keeps the entry with the id of a trashed file. If the file comes back with
  size and MD5 unchanged, it is skipped and every later run exits 0 with its
  only copy in the trash. The comment there expects that "re-trashing those
  next run is idempotent". (`OkRunIsComplete`: no trash-prune.)
* An update that reached Drive but not the manifest is not noticed when the
  edit is undone: the MD5 is the manifest's, the file is skipped (`dedup.py`
  237) and Drive keeps the other content, although `src/README.md` 49 says that
  a hard stop "may repeat at most ~30 seconds of completed uploads".
  (`SkipIsBackedUp`: replaced contents do not come back.)
* A worker trashes the copy it replaces (`engine.py` 959) before the main
  thread has recorded the new one. If the run is killed in between and the
  encryption setting is switched back, the manifest's entry matches the file
  and names the trashed copy: the file is skipped and the run exits 0.
  (`OkRunIsComplete`: a fixed encryption setting.)
* `encrypt_file` reads the plaintext (`engine.py` 1015), `compute_md5` reads it
  again after the upload (1023). An edit in between is recorded as uploaded,
  against `src/README.md` 3. (`SkipIsBackedUp`: plaintext.)
* `_execute_with_retry` repeats a create whose answer was lost without looking;
  the reconciliation of `drive_api.py` 314-326 runs only when the last attempt
  has timed out. Two live files of one name are left. (`NoDuplicateCopies`: no
  create repeated within one call.)
* `--full` forgets which copy a secret has in plaintext (`engine.py` 219,
  899-903): with encryption newly on it stays live, against `src/README.md` 39.
  (`LiveCopiesAreTracked`: no `--full`.)
* Ctrl+C in the prune phase goes to the outer handler (`engine.py` 653), which
  saves nothing, although `src/README.md` 92-94 says that progress is
  checkpointed.
* A secret `x` is `x.enc` on Drive (`engine.py` 1006); a file `x.enc` beside it
  has the same name, and each upload overwrites the other's copy.
  (`InjectiveNames` in the proofs; the names in the runs do not collide.)

* Two spellings of one folder name that two threads ask for at once have two
  keys and two locks (`drive_api.py` 216): each finds nothing and each creates
  a folder. (`NoSecondFolder` is about one spelling.)

*Restore and key.*

* A plain file, or an encrypted one restored without `--decrypt`, of more than
  1 MB that a backup overwrites while it is downloaded may come out as a mixture
  of two revisions (`drive_api.py` 351-364). It is moved to its name, since no
  MD5 is compared, is reported as restored, and every later restore without
  `--force` counts it as existing. (`TargetsAreWhole` allows a mixture there, and
  only if the copy has been overwritten since.)
* An interrupted restore of `x` leaves `x.part`. If the backup has a file of that
  name, the next restore takes the leftover for it and skips it as present.
  (`PartNamesFree` in the proofs; the names in the runs are free of it.)

* `git init` whose `git fetch` fails, or a killed `git clone`, leaves a `.git`
  directory (`restore.py` 43-44), which the next restore counts as existing
  (479). (`RestoreConverges` is about files.)
* Two processes that both find no key file generate a key each (`crypto.py`
  132-166); what the first has encrypted under the key that is overwritten
  cannot be opened. A lost key file is replaced by a new key without a word.
  (`SecretsReadable`: one backup process, no lost key.)
* A secret `x` is restored without `--decrypt` as `x.enc` (`restore.py`
  266-273). If the backup has a file `x.enc` too, both have one target: the
  later of the two is skipped as present, or with `--force` overwrites the
  other, and the restore reports no error. (`EncNamesFree` in the proofs; the
  names in the runs are free of it.)

*Machine state.*

* When the directory cannot be made, the only outcome is that of the snapshot
  (`machine_state.py` 1007-1021). Outputs that are not there any more are then
  not protected, although `src/README.md` 79 promises that "a failed collector
  ... protects its prior remote manifest entry from pruning".
  (`FailedKeepsBackup`: collectors with an outcome.)

*Work-tree flow.*

* After a conflict the flow cannot go on. `state.py` 64-142 has no key for
  `post_conflict_audit_complete`, so the transition to staging, which `_finish`
  attempts at `workflow.py` 1481, is refused, and every resume repeats that;
  `.omp/skills/merge-conflict-resolver/SKILL.md` 23 says "The script commits
  after post-conflict audit." (`Conflicted` in `Stuck`.)
* Two runs that are started at once choose the same names if their plans give
  them one (`workflow.py` 218-269), and the second adopts the first one's feature
  worktree (383-435). That is so of two runs of one plan, of plans whose titles
  have the same first six words, and of a plan called "foo 2" beside the second
  run of "foo". (`DistinctNames` in the proofs, which also leaves out that a name
  is used again once its branch and worktree are gone.)
* A head that was squashed may land twice. If the run is killed between the
  fast-forward and its save (1087-1092) and somebody then takes back or edits
  the landed lines, the resumed run finds the base moved on (1055), rebuilds,
  and as `git merge --squash` (771-776) has recorded no parent, the same changes
  apply again and undo the later work. (`ImplementsLanding` has it; `LandsAudited`
  says that it does not happen with `--no-ff`.)
* The windows of `Stranded`: a kill before the first save leaves a reservation
  that cannot be resumed; one between `integration_allocated` and the worktree,
  or between `git merge` and its save, or between `handoff_archived` and the
  candidate state leaves a stage whose checks fail for ever; a run told to stop
  that is resumed just returns (1595-1615); a fast-forward whose save was lost
  to a base that moved on is built again, and has nothing to commit; nor has a
  head whose changes the base got in another way.

## 5. Proofs

The provers check, for any set of files, threads, collectors and options and
any number of events:

| Module | Theorem | Establishes |
|---|---|---|
| `BackupRunProofs` | `TypeCorrect` | `[]TypeOK` |
| | `ManifestsTrackOwnFiles` | `[]ManifestTracksOwnFile` |
| | `NoDuplicates` | `[]NoDuplicateCopies`, if moreover no create is repeated within one call (`Budget["lostCreate"] = 0`) |
| | `InFlightIsBounded` | `[]InFlightBound` |
| | `InterruptLosesLittle` | `[]InterruptLosesAtMostOne` |
| `BackupRunContentProofs` | `LiveCopiesAreKept` | the action property `NeverForgetsLiveCopy`, for runs without `--full` that keep each secret in one form |
| | `SkipsAreBackedUp` | `[]SkipIsBackedUp`, of contents that do not come back, secrets at rest during runs, and copies nobody deletes |
| | `OkRunsAreComplete` | `[]OkRunIsComplete`, if moreover the profile rests while a run lasts |
| | `LiveCopiesTracked` | `[]LiveCopiesAreTracked`, for distinct names and runs without `--full` that nothing cuts short and whose Drive calls and saves succeed |
| `FolderCacheProofs` | `TypeCorrect`, `NoFolderTwice`, `CacheCorrect` | `[]TypeOK`, `[]NoSecondFolder`, `[]CacheIsRight` |
| | `IdsAreStable` | the action property `OneIdPerProcess` |
| `MachineStateProofs` | `TypeCorrect`, `SnapshotsAreTrue` | `[]TypeOK`, `[]SnapshotIsTrue` |
| | `FailuresKeepBackups`, `DeselectedGo` | the action properties `FailedKeepsBackup`, `DeselectedGoes` |
| `WorktreeFlowProofs` | `Fitting` | `[]IInv`, if no two runs ever go by one name (`[]DistinctNames`, also below) |
| | `TypeCorrect`, `ReceiptsAreTrue`, `NoWorkIsLost` | `[]TypeOK`, `[]ReceiptsHold`, `[]NoWorkLost` |
| `LandingProofs` | `LandingImplemented` | `ImplementsLanding`, the refinement of `Landing` |
| | `AuditedLands` | the action property `LandsAudited` |
| | `ApartNamesLand` | all of these of runs whose plans give them no name in common (`NamesApart`), without `[]DistinctNames` |
| `TrashPruneProofs` | `TypeCorrect`, `KeptStay` | `[]TypeOK`, `[]KeptStays` |
| | `DroppedAreTrashed`, `TargetsSettled` | `[]DroppedIsTrashed`, `[]TargetsAreSettled` |
| `RestoreProofs` | `TypeCorrect` | `[]TypeOK` |
| | `TargetsWhole` | `[]TargetsAreWhole`, if no target has the name of another's `.part` file (`PartNamesFree`) |
| | `CleanRestoreIsComplete` | `[]OkMeansRestored`, if moreover no file has the name another's encrypted copy is restored under (`EncNamesFree`) |
| | `KeyOpensSecrets` | `[]SecretsReadable`, if no two backups generate a key at once (`[]OneGenerates`) |
| | `OneBackupKeepsKey` | `[]SecretsReadable` of one backup process at a time |

**`BackupRunProofs`.** One inductive invariant,

    IInv == TypeOK /\ CurIsFile /\ JobsHaveIds /\ JobsTrack /\ ManifestTracksOwnFile

`ManifestTracksOwnFile` alone is not inductive: a manifest entry is written
from a job, so jobs must track too (`JobsTrack`: the id a job is about to use,
or has used, names its file), and a job gets its id from the manifest, from a
find by name or from a creation. `JobsHaveIds` says in which states an id is
there at all, and that a job that trashes a replaced copy has one to trash;
`CurIsFile` that `prepare` and `record` have a file at hand. The argument rests
on `DriveGrows`: no step removes a Drive file or renames one, so what tracked
still tracks. The proof has a lemma per conjunct and step group (main thread,
workers, environment), and `StepInv` and `Invariance` put them together.
`NoDuplicates` adds `DupInv`: a job in state `create` has found no live file of
its name (`CreatesFresh`), and with different names for different files nobody
else can make one before it does. Every step either creates nothing
(`NothingCreated`) or is the creation by that one job. Without either of its
two assumptions the model has a counterexample.

*The bound.* It counts jobs, the code counts futures.
`HeldInv` relates them: every job that has been submitted is among `futures`
or in the main thread's hand, which holds one at most (`ScanHolds`,
`RecordHolds`, `DrainHolds`, `HandlerHolds`), and the scan goes on only below
the bound. `InFlightIsBounded` and `InterruptLosesLittle` then are cardinalities of `futures` plus one. That
nothing is left when a run begins is part of it (`NothingLeft`).

**`BackupRunContentProofs`.** The first three theorems assume `FixedEncryption`:
no secret is encrypted in one run and plain in another. Then jobs and manifests
have one form (`FormInv`), no copy is ever replaced by one under another name,
and a step is a reload of a manifest, the application of one result or a mark
of the prune (`ManifestSteps`).

*`LiveCopiesAreKept`.* `KeepInv` adds that while a run lasts every live copy
the file on disk names is named in memory too (`DiskRemembered`), so that a
save forgets nothing, and that the job of a file with a live copy works on that
copy and looks for no other (`JobsKeepLive`), so that its result keeps the id.
Prune takes a copy for trashed when it is (`PrunedIsGone`). No step revives a
copy (`LiveShrinks`), hence nothing that was dropped comes to be live. A
`--full` run begins with an empty manifest, and its checkpoint forgets the
copies it has not reached: hence `NoFullRuns`.

*`SkipsAreBackedUp`.* An MD5 in an entry says what a file held when it was
read, not what Drive holds, and between the two a run may have died. What is
invariant is an order in time. `History[f][n]` is the content of the `n`-th
version of `f`, which `Follows` ties to the profile: every behaviour has such a
history, as an edit makes a new mtime. `Backs` then says of an entry or a job
that its recorded mtime, the version its MD5 is of and the version that Drive
holds are in this order, and no later than now. A worker that overwrites a copy
writes the version of now, which keeps the order (`BacksWorked`,
`WorkerFits`); an edit only moves now (`BacksOn`). If a file is skipped, its
mtime or its MD5 is that of the entry: the first leaves no room for another
version in between; the second leaves one only if a content came back, which
`NothingComesBack` excludes (`SkippedBackedUp`). `SecretsAtRest` excludes the
edit between an encryption and its digest, `NoTrashRuns` and
`Budget["purge"] = 0` the copies that are not live any more. Edits of plaintext
files during a run, kills, lost answers, repeated creates and lost manifests
are all allowed.

*`OkRunsAreComplete`.* `RunInv` follows a file through a run: as long as no
error has been counted it waits for the scan, is at hand, has a job, or is
`Covered` by its entry (`Scanning`); once the last future is settled only the
last is left (`Closing`, which takes `Scanned`, `TakenIsDone` and, from the
bound's `HeldInv`, that no job is outside `futures`). A skipped file is covered
by the second theorem, an uploaded one because its copy holds what the file
holds (`JobsHold`). `Saved` relates the file on disk to the memory, and
`ExitIsLast` says that an exit code 0 is given last and without errors.

*`LiveCopiesTracked`* is about the runs the others leave out, those that switch
a secret between plaintext and encrypted, with edits during runs, scan errors,
any prune, purges and lost manifests. `LiveOf(f)` is the set of live copies under
either name of a file; `TrackInv` says who knows them all. While a run lasts it
is the entry in memory until the job has put a copy, then the job: the ids it
updates, has put or replaces (`JobKnows`). A job that is about to create a copy
knows of none but the one it replaces, so the new copy and that one are all
there are until the second is trashed (`WorkerKnows`). Between runs the manifest
file and the snapshot know them (`FilesKnow`), since each save and upload is of
the memory (`SavedLast`) and nothing is left in the pool by then
(`OneJobEach`). No step but a create makes a copy live (`WorkerLiver`).
`Harms` lists the events that may leave a copy nobody knows, and their budget is
0: a run cut short, a lost answer, a failed trash or a repeated create. A later
run that switches the encryption setting and exits 0 finds no trace of such a
copy, as TLC confirms on an instance with one failed call.

**`FolderCacheProofs`.** `IInv == TypeOK /\ LockInv /\ FolderInv`. `LockInv` is
about the locks: the table of locks is changed by its holder only, distinct
keys have distinct lock objects, a thread past `lock` holds the object of its
key, and one thread holds an object. Hence `OneAtWork`: two threads at work on
one key are the same thread. So between the search and the create no other
thread can answer a create of that key (`CreateFresh`), nor cache it
(`Uncached`), and what is stored is new. What is cached was found or
created under the name up to `Fold` (`CacheIsRight`), which a search that
answers another spelling keeps. `CacheGrows` gives the action
property: nothing but a new process removes an id.

**`MachineStateProofs`.** `IInv` adds to `TypeOK` and `SnapshotIsTrue` where an
outcome comes from: none before its collector has run (`NoneYet`), an output of
this run for one that succeeded (`WrittenCounts`, `DoneIsWritten`), protection
for one that failed when the prune begins (`FailedIsProtected`), and no local
output of a deselected collector after the sweep (`SweptIsGone`).

**`TrashPruneProofs`.** What a prune may take is decided once, when a stage
groups its targets, and acted on many steps later, after other stages, splits
and failed calls. `IInv` therefore says of every job, waiting or to be retried,
why it may be carried out (`Jobs`): its keys are all `Unwanted`, a file job
names the copy of its one key, and a folder job fits (`FolderFits`): its
directory is above each of its keys, its id is that of a folder of this path,
and no path of a file that is wanted goes through the directory, both taken
without regard to case. The last part is what `KeptStays` needs (`JobIsSafe`),
and it survives a split: a piece lies below the directory split, so a wanted
path through the piece would go through the directory too (`AboveOrder`,
`AboveFolded`, `SplitJobsFit`). The first two make the copy of each key lie in
what a finished job has trashed (`JobTakes`), which is `DroppedIsTrashed`; the
exception `HasTwin` is used exactly there. `Targets` are not lost on the way:
those of the stage at work are counted as failed or wait in a job (`Waiting`),
those of the stages behind are counted (`Settled`), and an outcome is an error
only if a fault was spent (`Outcomes`, `FailedFits`). Grouping and splitting
make jobs in the order of `sorted()`; that none is lost or made up by putting
them in order is `InOrderFact`, for which the ranks of the places of a set are
shown to be exactly the numbers up to its size. Marked files are no part of
what is proved: `KeptStays` is about files no `--prune` has marked, and
`HistoryStays` fails of the others.

**`WorktreeFlowProofs`.** `IInv == TypeOK /\ NamesFit /\ RunsFit`. None of
`ReceiptsHold`, `NoWorkLost` and the refinement is inductive, since a run that
is resumed knows nothing but its last save. `Fits(r, s, p, f, g, b)` therefore
says of one run how the stage in its state file `s` and the label `p` of its
process agree with its feature `f`, its integration `g` and the base `b`:
which worktrees and branches are there in which stage (`FeatureFits`,
`IntegrationFits`), that what is integrated is the audited head (`HeadFits`),
that a merge about to be committed brings a head that may land: it has not yet,
or it is squashed over other work (`MayLand`, in `BuildFits`), and that what the state calls landed or recorded begins the base
(`BaseFits`). `BuildFits` is the heart: between the merge and the fast-forward
the base may move, and a rebuild must not land a head twice in a row. A step of run `r`
is shown to fit with `SavedState`, `GoToKeeps`, `AdvanceKeeps` and the like,
one lemma per stage group (`FeatureSavesFit` to `FinalFits`); the other runs
keep fitting because only the base is shared, and it only grows or has its
owner's last commit amended (`RunKeeps`, `BaseKept`, `PrefixKept`). Of the
commits a state names none can be that last one of the owner (`AmendCommit`).

`DistinctNames` is what excludes two runs of one name started at once (section
4): their feature would be one worktree with two owners, and nothing here would
hold. `NamesFit` says that a run takes a name nobody has used.

**`LandingProofs`.** Each step of the flow is of one kind (`StepKinds`): quiet,
i.e. it leaves names, features and base alone (`QuietSteps`); a step of a
feature, which may give up a branch (`FeatureSteps`); a commit of a record
(`RecordSteps`); the landing itself (`LandStep`, where the base is the one the
merge was made on, so that `MayLand` is about it); or the owner's.
`LandingStep` maps each kind to a step of `Landing` or a stutter; that a branch
is freed only when its head has landed is `FeatureFrees`, by `BaseFits`.
`ApartNamesLand` proves `DistinctNames` from `OwnNames`: the name a run goes by
is one of those it may take.

**`RestoreProofs`.** `IInv == TypeOK /\ DriveFits /\ LoopFits`: what a table
names is a copy of that file at least as new as the table says, also in an old
snapshot while backups overwrite copies in place (`TableFits`), the encrypted
copies are those of the secrets, and whatever a download may bring is of the
entry the loop is at, no older than the snapshot says, and mixed only if the
copy has been overwritten (`FetchFits`). `TargetsAreWhole` is inductive with it,
as everything incomplete has the name of a `.part` file, which `PartNamesFree`
says is no target. `OkMeansRestored` needs `ProgressFits`: each entry the loop
has left behind is settled while nothing has failed. An entry stays settled
because a later one neither writes to its target (`WantedApart`, with
`EncNamesFree`) nor removes it as its `.part` file (`ScratchApart`).
`KeyFits` is the invariant of the key: who generates has found no
file, so nothing is encrypted yet; who uploads has the key of the file.
It is where a second backup that generates at the same moment would break in.

Each inductive invariant was first checked by TLC as an invariant of the run of
its module (`KeepInv` in `prune`, `RunInv` in `quiet`, `TrackInv` in `flip`), but
for the one about histories, which are no variables. The assumptions are the
named `ASSUME`s of the modules: secrets are files and names a function of file
and flag, at least one worker (as `config.py` demands), marker values that are
not data, a manifest that names each path once, keys that are paths below the
profile's root, listed in `Order` with the directories above them. TLC evaluates
them in every run. What a theorem assumes beyond them (`InjectiveNames`,
`DistinctNames`, `NamesApart`, `EncNamesFree`, `PartNamesFree`, `OneGenerates`,
and those of `BackupRunContentProofs`) is in its statement, and section 4 describes what
happens without it; the runs that check the property are instances that satisfy
it.

Only model-checked is `StuckForGood` of `WorktreeFlow`, and the liveness
properties (`RunEnds`, `AsksEnd`, `PruneEnds`, `RestoreConverges`,
`RunsFinish`), which are out of TLAPS's reach with their fairness.

**Planned.** `StuckForGood`, from the invariant of `WorktreeFlowProofs`.

## 6. Not modelled

* The byte format of encrypted files, OAuth, report and summary output,
  argument parsing, validation of malformed manifests and configurations,
  `--dry-run` (it changes neither Drive nor the manifest), the legacy
  `_process_file` and `_upload_file` shims the tests use: no state, or none
  that a later step reads.
* The matching of exclusion, secret and protection patterns: string matching
  without state. The models take its verdicts as given.
* The rate limiter, which only delays, and the chunks of a resumable upload,
  which Drive keeps from being seen before the last.
* Scheduled runs: shell scripts around the program, one timer at a time, with
  markers per calendar day.
* The commands of the collectors and of the coding harness: any outcome may
  come of them.
* Token accounting, subprocess output and paths of the work-tree flow.
