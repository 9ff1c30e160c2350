------------------------------ MODULE Restore ------------------------------
(***************************************************************************)
(* The way of a file through the backup and back: the secrets key file,    *)
(* backups that upload under it and publish the manifest snapshot, and     *)
(* restore_backup, which may run meanwhile, be interrupted and be repeated.*)
(* Of a backup only what a restore sees is here: BackupRun has the rest.   *)
(* --dry-run, which writes nothing, is left out.                           *)
(***************************************************************************)
EXTENDS Integers, Sequences, SequencesExt, FiniteSets, Functions

CONSTANTS
  Order,      \* the manifest's paths, sequences of name parts, each once
  Secrets,    \* those that are encrypted
  Repos,      \* Repos[r]: the paths inside the git repository r
  Backups,    \* backup processes
  UploadMax,  \* bound: uploads
  PruneMax,   \* bound: files marked as pruned
  FaultMax,   \* bound: downloads and git commands that fail
  StopMax,    \* bound: interrupts
  LossMax     \* bound: key files lost or spoilt

Files == Range(Order)

ASSUME OrderAssumption ==
  /\ Order \in Seq(Seq(STRING) \ {<< >>})
  /\ \A i, j \in DOMAIN Order : Order[i] = Order[j] => i = j
ASSUME SecretsAssumption == Secrets \subseteq Files
ASSUME ReposAssumption == \A r \in DOMAIN Repos : Repos[r] \subseteq Files
ASSUME BoundsAssumption ==
  {UploadMax, PruneMax, FaultMax, StopMax, LossMax} \subseteq Nat

VARIABLES
  keyFile,   \* the key in secrets.key, 0 if there is none, -1 if it is no key
  made,      \* how many keys were generated
  drive,     \* the copies on Drive, their index being their id
  manifest,  \* [Files -> id, 0 if untracked, ...], of the backups
  snapshot,  \* the manifest under _meta/, the same
  bpc, bkey, \* each backup process: where it is, its _secrets_key
  rpc,       \* restore: "off", "key", "file", "part", "git" or "done"
  options,   \* its flags
  rsnap,     \* the snapshot it works from
  rkey,      \* its decrypt_key, 0 for None
  index,     \* the entry its loop is at
  fetched,   \* what its download of it may bring, {} if there is none
  repos,     \* the repositories it has yet to look at
  errors,    \* what it will report as failed: files, repos, << >> for the key
  output,    \* the output directory: path -> content, on the files there
  git,       \* .git of each repository there
  left       \* what is left of the bounds

backup == <<keyFile, made, drive, manifest, snapshot, bpc, bkey>>
restore == <<rpc, options, rsnap, rkey, index, fetched, repos, errors>>
vars == <<backup, restore, output, git, left>>

NoOptions == [force |-> FALSE, decrypt |-> FALSE]
Untracked == [id |-> 0, version |-> 0, pruned |-> FALSE]
Spend(bound) == left[bound] > 0 /\ left' = [left EXCEPT ![bound] = @ - 1]

Init ==
  /\ keyFile = 0 /\ made = 0
  /\ drive = << >>
  /\ manifest = [f \in Files |-> Untracked] /\ snapshot = manifest
  /\ bpc = [p \in Backups |-> "off"] /\ bkey = [p \in Backups |-> 0]
  /\ rpc = "off" /\ options = NoOptions
  /\ rsnap = snapshot /\ rkey = 0 /\ index = 1
  /\ fetched = {} /\ repos = {} /\ errors = {}
  /\ output = << >>
  /\ git = [r \in DOMAIN Repos |-> "none"]
  /\ left = [upload |-> UploadMax, prune |-> PruneMax, fault |-> FaultMax,
             stop |-> StopMax, loss |-> LossMax]

----------------------------------------------------------------------------
(* A backup gets its key: load_or_generate_key.  The new key is used from  *)
(* memory, once its file is there.  A file that holds no key is an error:  *)
(* secrets are then skipped.                                               *)
StartBackup(p) ==
  /\ bpc[p] = "off"
  /\ IF keyFile = 0
     THEN /\ made' = made + 1
          /\ bkey' = [bkey EXCEPT ![p] = made + 1]
          /\ bpc' = [bpc EXCEPT ![p] = "persist"]
     ELSE /\ bkey' = [bkey EXCEPT ![p] = IF keyFile = -1 THEN 0 ELSE keyFile]
          /\ bpc' = [bpc EXCEPT ![p] = "on"]
          /\ UNCHANGED made
  /\ UNCHANGED <<keyFile, drive, manifest, snapshot, restore, output, git, left>>

\* Mutant: the generated key is not written before it is used.
PersistLater(p) ==
  /\ bpc[p] = "persist"
  /\ keyFile' = keyFile
  /\ bpc' = [bpc EXCEPT ![p] = "on"]
  /\ UNCHANGED <<made, drive, manifest, snapshot, bkey, restore, output, git,
                 left>>
PersistKey(p) ==
  /\ bpc[p] = "persist"
  /\ keyFile' = bkey[p]
  /\ bpc' = [bpc EXCEPT ![p] = "on"]
  /\ UNCHANGED <<made, drive, manifest, snapshot, bkey, restore, output, git,
                 left>>

(* The keys a file may be uploaded under, 0 for in the clear; none if it   *)
(* is a secret and there is no key.                                        *)
KeyFor(p, f) == IF f \in Secrets THEN {bkey[p]} \ {0} ELSE {0}

Entry == rsnap[Order[index]]
Whole(copy) == [file |-> copy.file, version |-> copy.version, key |-> copy.key,
                mixed |-> FALSE]

(* What the download that goes on may bring once its copy was overwritten: *)
(* it reads 1 MB at a time and names no revision, so the old one, the new  *)
(* one or parts of both, which counts as the oldest there is a part of.    *)
Meanwhile(id, new) ==
  IF rpc = "part" /\ Entry.id = id
  THEN fetched \cup {Whole(new)} \cup {[c EXCEPT !.mixed = TRUE] : c \in fetched}
  ELSE fetched

(* A file is uploaded, in place if it has a copy.                          *)
Upload(p, f) ==
  /\ bpc[p] = "on" /\ Spend("upload")
  /\ LET old == manifest[f].id
     IN \E k \in KeyFor(p, f) :
          LET id == IF old = 0 THEN Len(drive) + 1 ELSE old
              version == manifest[f].version + 1
              new == [file |-> f, version |-> version, key |-> k]
          IN /\ drive' = IF old = 0 THEN Append(drive, new)
                                    ELSE [drive EXCEPT ![old] = new]
             /\ manifest' = [manifest EXCEPT ![f] =
                               [id |-> id, version |-> version, pruned |-> FALSE]]
             /\ fetched' = Meanwhile(id, new)
  /\ UNCHANGED <<keyFile, made, snapshot, bpc, bkey, rpc, options, rsnap, rkey,
                 index, repos, errors, output, git>>

(* The run ends: a deleted file may have been marked as pruned, the        *)
(* snapshot replaces the last one.  Or it is killed before that.           *)
EndBackup(p) ==
  /\ bpc[p] = "on"
  /\ \/ UNCHANGED <<manifest, left>>
     \/ /\ Spend("prune")
        /\ \E f \in Files :
             /\ manifest[f].id # 0
             /\ manifest' = [manifest EXCEPT ![f].pruned = TRUE]
  /\ snapshot' \in {snapshot, manifest'}
  /\ bpc' = [bpc EXCEPT ![p] = "off"] /\ bkey' = [bkey EXCEPT ![p] = 0]
  /\ UNCHANGED <<keyFile, made, drive, restore, output, git>>

KillBackup(p) ==
  /\ bpc[p] # "off" /\ Spend("stop")
  /\ bpc' = [bpc EXCEPT ![p] = "off"] /\ bkey' = [bkey EXCEPT ![p] = 0]
  /\ UNCHANGED <<keyFile, made, drive, manifest, snapshot, restore, output, git>>

LoseKey ==
  /\ keyFile > 0 /\ Spend("loss")
  /\ keyFile' \in {0, -1}
  /\ UNCHANGED <<made, drive, manifest, snapshot, bpc, bkey, restore, output,
                 git>>

----------------------------------------------------------------------------
Encrypted(id) == drive[id].key # 0
Part(path) == Append(path, "part")
EncPath(path) == IF Last(path) = "enc" THEN path ELSE Append(path, "enc")
(* Where files may be restored to, decrypted or not.                       *)
Targets == Files \cup {EncPath(f) : f \in Secrets}
Without(path) == RestrictDomain(output, LAMBDA p : p # path)
Holds(out, path, content) ==
  [p \in DOMAIN out \cup {path} |-> IF p = path THEN content ELSE out[p]]

(* restore_backup: the snapshot is fetched first; without one, or if that  *)
(* fails, nothing happens.                                                 *)
StartRestore ==
  /\ rpc \in {"off", "done"}
  /\ \E f \in Files : snapshot[f].id # 0
  /\ \E force, decrypt \in BOOLEAN :
       options' = [force |-> force, decrypt |-> decrypt]
  /\ rsnap' = snapshot
  /\ rpc' = "key"
  /\ rkey' = 0 /\ index' = 1 /\ fetched' = {} /\ errors' = {}
  /\ repos' = DOMAIN Repos
  /\ UNCHANGED <<backup, output, git, left>>

(* The key is needed if any entry is encrypted; without it those stay so.  *)
LoadKey ==
  /\ rpc = "key"
  /\ rpc' = "file"
  /\ LET wanted == options.decrypt
                   /\ \E f \in Files : rsnap[f].id # 0 /\ Encrypted(rsnap[f].id)
     IN /\ rkey' = IF wanted /\ keyFile > 0 THEN keyFile ELSE 0
        /\ errors' = IF wanted /\ keyFile <= 0 THEN {<< >>} ELSE {}
  /\ UNCHANGED <<backup, options, rsnap, index, fetched, repos, output, git, left>>

Decrypts == rkey # 0 /\ Encrypted(Entry.id)
Target == IF Encrypted(Entry.id) /\ ~Decrypts THEN EncPath(Order[index])
                                              ELSE Order[index]

\* Mutant: a .part file left behind passes for the file.
PresentInPart == {Target, Part(Target)} \cap DOMAIN output # {}
Present == Target \in DOMAIN output
Partial == [file |-> << >>, version |-> 0, key |-> 0, mixed |-> FALSE]

\* Mutant: the last download stays in memory.
ToNextKeeping ==
  /\ index' = index + 1
  /\ rpc' = IF index = Len(Order) THEN "git" ELSE "file"
  /\ fetched' = fetched
ToNext ==
  /\ index' = index + 1
  /\ rpc' = IF index = Len(Order) THEN "git" ELSE "file"
  /\ fetched' = {}

\* Pruned, or there already.
SkipFile ==
  /\ rpc = "file"
  /\ \/ Entry.id = 0 \/ Entry.pruned
     \/ Entry.id # 0 /\ Present /\ ~options.force
  /\ ToNext
  /\ UNCHANGED <<backup, options, rsnap, rkey, repos, errors, output, git, left>>

\* Mutant: the download goes straight to the target.
DownloadTo == Target
(* A download begins: a plain one into the .part file, one to be decrypted *)
(* into a temporary file elsewhere.                                        *)
Scratch == Part(Target)
Download ==
  /\ rpc = "file"
  /\ Entry.id # 0 /\ ~Entry.pruned
  /\ ~Present \/ options.force
  /\ rpc' = "part"
  /\ fetched' = {Whole(drive[Entry.id])}
  /\ output' = IF Decrypts THEN output
               ELSE Holds(output, Scratch, Partial)
  /\ UNCHANGED <<backup, options, rsnap, rkey, index, repos, errors, git, left>>

\* AES-GCM: the right key, and every byte is of one upload.
Opens(c) == c.key = rkey /\ ~c.mixed
\* Nor does the request for a range a shorter copy has not got succeed.
Fails == \E c \in fetched : c.mixed \/ (Decrypts /\ ~Opens(c))

\* It is complete: decrypted, if that is due, and moved to its place.
Replace ==
  /\ rpc = "part"
  /\ \E c \in fetched :
       /\ Decrypts => Opens(c)
       /\ output' = Holds(Without(Scratch), Target,
                          IF Decrypts THEN [c EXCEPT !.key = 0] ELSE c)
  /\ ToNext
  /\ UNCHANGED <<backup, options, rsnap, rkey, repos, errors, git, left>>

\* Mutant: the failure is not recorded.
FailFileSilently ==
  /\ rpc = "part"
  /\ Spend("fault") \/ (Fails /\ UNCHANGED left)
  /\ output' = Without(Scratch)
  /\ ToNext
  /\ UNCHANGED <<backup, options, rsnap, rkey, repos, errors, git>>
\* The download fails, or the key is not the one: the file is counted as
\* failed, the .part file removed.
FailFile ==
  /\ rpc = "part"
  /\ Spend("fault") \/ (Fails /\ UNCHANGED left)
  /\ output' = Without(Scratch)
  /\ errors' = errors \cup {Order[index]}
  /\ ToNext
  /\ UNCHANGED <<backup, options, rsnap, rkey, repos, git>>

(* --with-github-clone: a repository that has files is initialised and     *)
(* fetched into, one that has none cloned.  What a failed `git init', a    *)
(* failed fetch after it or a killed clone leaves there stays.             *)
Leftovers == {"none", "begun"}
Populate(r) ==
  /\ rpc = "git" /\ r \in repos
  /\ repos' = repos \ {r}
  /\ IF git[r] # "none"
     THEN UNCHANGED <<git, errors, left>>
     ELSE \/ /\ git' = [git EXCEPT ![r] = "whole"]
             /\ UNCHANGED <<errors, left>>
          \/ /\ Spend("fault")
             /\ \E g \in Leftovers : git' = [git EXCEPT ![r] = g]
             /\ errors' = errors \cup {r}
  /\ UNCHANGED <<backup, rpc, options, rsnap, rkey, index, fetched, output>>

EndRestore ==
  /\ rpc = "git" /\ repos = {}
  /\ rpc' = "done"
  /\ rkey' = 0 /\ index' = 1
  /\ UNCHANGED <<backup, options, rsnap, fetched, repos, errors, output, git,
                 left>>

(* Ctrl-C or a crash: what is written stays, the .part file too.           *)
StopRestore ==
  /\ rpc \notin {"off", "done"} /\ Spend("stop")
  /\ rpc' = "off"
  /\ options' = NoOptions /\ rsnap' = [f \in Files |-> Untracked]
  /\ rkey' = 0 /\ index' = 1 /\ fetched' = {} /\ repos' = {} /\ errors' = {}
  /\ UNCHANGED <<backup, output, git>>

RestoreStep ==
  \/ StartRestore \/ LoadKey \/ SkipFile \/ Download \/ Replace \/ FailFile
  \/ (\E r \in DOMAIN Repos : Populate(r)) \/ EndRestore

Next ==
  \/ \E p \in Backups :
       \/ StartBackup(p) \/ PersistKey(p) \/ EndBackup(p) \/ KillBackup(p)
       \/ \E f \in Files : Upload(p, f)
  \/ LoseKey
  \/ RestoreStep \/ StopRestore

Spec == Init /\ [][Next]_vars
(* Whoever restores goes on, and repeats it.                               *)
FairSpec == Spec /\ WF_vars(RestoreStep)

----------------------------------------------------------------------------
Contents == [file : Files \cup {<< >>}, version : Nat, key : Nat,
             mixed : BOOLEAN]
Entries == [id : 0..Len(drive), version : Nat, pruned : BOOLEAN]

TypeOK ==
  /\ keyFile \in -1..made
  /\ drive \in Seq([file : Files, version : Nat \ {0}, key : 0..made])
  /\ manifest \in [Files -> Entries] /\ snapshot \in [Files -> Entries]
  /\ rsnap \in [Files -> Entries]
  /\ \A f \in Files : manifest[f].id # 0 => drive[manifest[f].id].file = f
  /\ bpc \in [Backups -> {"off", "persist", "on"}]
  /\ bkey \in [Backups -> 0..made]
  /\ rpc \in {"off", "key", "file", "part", "git", "done"}
  /\ rkey \in 0..made
  /\ index \in 1..(Len(Order) + 1)
  /\ (rpc = "part") = (fetched # {}) /\ \A c \in fetched : c \in Contents
  /\ repos \subseteq DOMAIN Repos
  /\ errors \subseteq Files \cup DOMAIN Repos \cup {<< >>}
  /\ \A p \in DOMAIN output : output[p] \in Contents
  /\ git \in [DOMAIN Repos -> {"none", "begun", "whole"}]

(* Whatever bears a target's name, also after an interrupted restore, is a *)
(* complete download of a copy of that file, decrypted, or as it was       *)
(* uploaded and then named .enc; what is not complete is in .part files.   *)
(* A decrypted secret is of one revision; what is not decrypted is too,    *)
(* unless a backup has overwritten the copy since the oldest part of it.   *)
TargetsAreWhole ==
  \A p \in DOMAIN output \cap Targets :
    LET c == output[p]
    IN /\ c.file \in Files /\ (c.key # 0 => c.file \in Secrets)
       /\ p = IF c.key = 0 THEN c.file ELSE EncPath(c.file)
       /\ c.mixed => /\ c.key = 0 => c.file \notin Secrets
                     /\ c.version < manifest[c.file].version

(* A restore that reports no error has every file of its snapshot that is  *)
(* not pruned, decrypted if that was asked for; with --force no part of it *)
(* is older than the snapshot says, whatever earlier restores left there.  *)
OkMeansRestored ==
  rpc = "done" /\ errors = {} =>
    \A f \in Files :
      LET e == rsnap[f]
          target == IF e.id # 0 /\ Encrypted(e.id) /\ ~options.decrypt
                    THEN EncPath(f) ELSE f
      IN e.id # 0 /\ ~e.pruned =>
           /\ target \in DOMAIN output
           /\ output[target].file = f
           /\ options.force => output[target].version >= e.version

(* As long as the key file is neither lost nor spoilt, the key in it opens *)
(* every encrypted copy: a key is used only when its file is there, and it *)
(* is generated only once, however many runs were killed.                  *)
SecretsReadable ==
  left.loss = LossMax =>
    \A i \in DOMAIN drive : Encrypted(i) => drive[i].key = keyFile

(* Who repeats a restore gets everything in the end: what failed or was    *)
(* interrupted is not taken for present.                                   *)
RestoreConverges ==
  <>[](left.loss = LossMax =>
         \A f \in Files : snapshot[f].id # 0 /\ ~snapshot[f].pruned
                          => {f, EncPath(f)} \cap DOMAIN output # {})
=============================================================================
