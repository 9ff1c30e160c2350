---------------------------- MODULE RestoreProofs ----------------------------
(***************************************************************************)
(* Proofs about Restore, for any files, repositories, backup processes and *)
(* bounds: what bears a file's name after a restore is the whole of that   *)
(* file, and a restore that reports no error has restored everything.  The *)
(* key in the key file opens every secret on Drive, as long as no two      *)
(* backups generate a key at the same time.                                *)
(***************************************************************************)
EXTENDS Restore, SequenceTheorems, TLAPS

(* Strings; the provers do not know of the two that these are in STRING.   *)
Parts == STRING \cup {"part", "enc"}
Paths == Seq(Parts)

----------------------------------------------------------------------------
(* Paths.                                                                  *)

\* A path with a name part more.
LEMMA AppendPart ==
  ASSUME NEW p \in Paths, NEW x \in Parts
  PROVE  /\ Append(p, x) \in Paths /\ Append(p, x) # << >> /\ Append(p, x) # p
         /\ Last(Append(p, x)) = x
<1> DEFINE q == Append(p, x)
<1>1. /\ q \in Paths /\ q # << >> /\ Len(q) = Len(p) + 1
      /\ q[Len(p) + 1] = x /\ Len(p) \in Nat
  BY AppendProperties, LenProperties DEF Paths
<1> HIDE DEF q
<1>2. q # p /\ Last(q) = x
  BY <1>1 DEF Last
<1> QED BY <1>1, <1>2 DEF q

\* Two paths that are one after the same name part are one.
LEMMA AppendOnce ==
  ASSUME NEW p \in Paths, NEW q \in Paths, NEW x, Append(p, x) = Append(q, x)
  PROVE  p = q
BY AppendInjective DEF Paths

\* The files are paths.
LEMMA FilesArePaths ==
  /\ Files \subseteq Paths \ {<< >>} /\ Len(Order) \in Nat
  /\ DOMAIN Order = 1..Len(Order)
  /\ Files = {Order[i] : i \in DOMAIN Order}
<1>1. /\ Order \in Seq(Seq(STRING) \ {<< >>})
      /\ DOMAIN Order = 1..Len(Order) /\ Len(Order) \in Nat
  BY OrderAssumption, LenProperties
<1>2. \A i \in DOMAIN Order : Order[i] \in Seq(STRING) \ {<< >>}
  BY <1>1, ElementOfSeq
<1>3. Seq(STRING) \subseteq Paths
  BY SeqMonotonic DEF Paths, Parts
<1> QED BY <1>1, <1>2, <1>3 DEF Files, Range

\* A file taken out of the output directory.
LEMMA WithoutOne ==
  ASSUME NEW path
  PROVE  /\ DOMAIN Without(path) = DOMAIN output \ {path}
         /\ \A p \in DOMAIN output \ {path} : Without(path)[p] = output[p]
BY DEF Without, RestrictDomain, Restrict


----------------------------------------------------------------------------
(* The inductive invariant.                                                *)

CopiesUnder(n) == [file : Files, version : Nat \ {0}, key : 0..n]
EntriesUpTo(n) == [id : 0..n, version : Nat, pruned : BOOLEAN]

(* A table names the one copy of each file, at least as new as it says.    *)
TableFits(t) ==
  \A f \in Files :
    t[f].id # 0 => /\ t[f].id = manifest[f].id
                   /\ drive[t[f].id].file = f
                   /\ t[f].version <= drive[t[f].id].version

(* On Drive the secrets are encrypted and nothing else is.                 *)
DriveFits ==
  /\ made \in Nat
  /\ \A i \in DOMAIN drive : Encrypted(i) <=> drive[i].file \in Secrets
  /\ \A f \in Files :
       manifest[f].id # 0 => manifest[f].version = drive[manifest[f].id].version
  /\ TableFits(snapshot) /\ TableFits(rsnap)

(* What may be downloaded is of a copy of the file the loop is at, no older*)
(* than the snapshot says, and mixed only if that copy was overwritten.    *)
FetchFits(c) ==
  /\ c \in Contents /\ c.file = Order[index]
  /\ c.key # 0 <=> Order[index] \in Secrets
  /\ c.version >= Entry.version /\ c.version <= manifest[Order[index]].version
  /\ c.mixed => c.version < manifest[Order[index]].version

(* The loop of a restore is at an entry of the snapshot.                   *)
LoopFits ==
  /\ options \in [force : BOOLEAN, decrypt : BOOLEAN]
  /\ rpc \in {"key", "file", "part"} => index \in DOMAIN Order
  /\ rpc = "key" => index = 1
  /\ rpc = "part" => Entry.id # 0 /\ \A c \in fetched : FetchFits(c)

IInv == TypeOK /\ DriveFits /\ LoopFits

----------------------------------------------------------------------------
(* The first states, and the steps of the backups.                         *)

LEMMA InitInv == Init => IInv
<1> SUFFICES ASSUME Init PROVE IInv
  OBVIOUS
<1>1. drive = << >> /\ made = 0 /\ keyFile = 0
      /\ drive \in Seq([file : Files, version : Nat \ {0}, key : 0..made])
      /\ Len(drive) = 0 /\ DOMAIN drive = {}
  BY DEF Init
<1>2. manifest \in [Files -> Entries] /\ snapshot = manifest /\ rsnap = manifest
      /\ \A f \in Files : manifest[f].id = 0
  BY <1>1 DEF Init, Untracked, Entries
<1>3. TypeOK
  <2>1. /\ keyFile \in -1..made /\ rkey \in 0..made
        /\ index \in 1..(Len(Order) + 1)
    BY <1>1, FilesArePaths DEF Init
  <2>2. /\ bpc \in [Backups -> {"off", "persist", "on"}]
        /\ bkey \in [Backups -> 0..made]
        /\ rpc \in {"off", "key", "file", "part", "git", "done"}
        /\ (rpc = "part") = (fetched # {}) /\ \A c \in fetched : c \in Contents
        /\ repos \subseteq DOMAIN Repos
        /\ errors \subseteq Files \cup DOMAIN Repos \cup {<< >>}
        /\ git \in [DOMAIN Repos -> {"none", "begun", "whole"}]
    BY <1>1 DEF Init
  <2>3. DOMAIN output = {}
    BY DEF Init
  <2> QED BY <1>1, <1>2, <2>1, <2>2, <2>3 DEF TypeOK
<1>4. DriveFits
  BY <1>1, <1>2 DEF DriveFits, TableFits
<1>5. LoopFits
  BY DEF Init, LoopFits, NoOptions
<1> QED BY <1>3, <1>4, <1>5 DEF IInv

\* A backup gets or loses its key.
LEMMA KeyKeeps ==
  ASSUME IInv,
         \/ \E p \in Backups : StartBackup(p) \/ PersistKey(p) \/ KillBackup(p)
         \/ LoseKey
  PROVE  IInv'
<1>1. /\ UNCHANGED <<drive, manifest, snapshot, restore, output, git>>
      /\ made' \in Nat /\ made' >= made
      /\ bpc' \in [Backups -> {"off", "persist", "on"}]
      /\ bkey' \in [Backups -> 0..made'] /\ keyFile' \in -1..made'
  <2>1. /\ made \in Nat /\ keyFile \in -1..made
        /\ bpc \in [Backups -> {"off", "persist", "on"}]
        /\ bkey \in [Backups -> 0..made]
    BY DEF IInv, TypeOK, DriveFits
  <2>2. ASSUME NEW p \in Backups, StartBackup(p)
        PROVE  /\ UNCHANGED <<drive, manifest, snapshot, restore, output, git>>
               /\ made' \in Nat /\ made' >= made
               /\ bpc' \in [Backups -> {"off", "persist", "on"}]
               /\ bkey' \in [Backups -> 0..made'] /\ keyFile' \in -1..made'
    <3>1. UNCHANGED <<keyFile, drive, manifest, snapshot, restore, output, git>>
      BY <2>2 DEF StartBackup
    <3>2. CASE keyFile = 0
      BY <2>1, <2>2, <3>1, <3>2 DEF StartBackup
    <3>3. CASE keyFile # 0
      BY <2>1, <2>2, <3>1, <3>3 DEF StartBackup
    <3> QED BY <3>1, <3>2, <3>3
  <2>3. ASSUME NEW p \in Backups, PersistKey(p) \/ KillBackup(p)
        PROVE  /\ UNCHANGED <<drive, manifest, snapshot, restore, output, git>>
               /\ made' \in Nat /\ made' >= made
               /\ bpc' \in [Backups -> {"off", "persist", "on"}]
               /\ bkey' \in [Backups -> 0..made'] /\ keyFile' \in -1..made'
    BY <2>1, <2>3 DEF PersistKey, KillBackup
  <2> QED BY <2>1, <2>2, <2>3 DEF LoseKey
<1>2. drive' \in Seq([file : Files, version : Nat \ {0}, key : 0..made'])
  <2>1. /\ made \in Nat
        /\ drive \in Seq([file : Files, version : Nat \ {0}, key : 0..made])
    BY DEF IInv, TypeOK, DriveFits
  <2>2. [file : Files, version : Nat \ {0}, key : 0..made]
          \subseteq [file : Files, version : Nat \ {0}, key : 0..made']
    BY <1>1, <2>1
  <2> QED BY <1>1, <2>1, <2>2, SeqMonotonic
<1>3. TypeOK'
  <2>1. /\ manifest' \in [Files -> Entries'] /\ snapshot' \in [Files -> Entries']
        /\ rsnap' \in [Files -> Entries']
    BY <1>1 DEF IInv, TypeOK, Entries, restore
  <2>2. rkey' \in 0..made'
    BY <1>1 DEF IInv, TypeOK, DriveFits, restore
  <2>3. /\ rpc' = rpc /\ index' = index /\ fetched' = fetched /\ repos' = repos
        /\ errors' = errors /\ output' = output /\ git' = git /\ drive' = drive
        /\ manifest' = manifest
    BY <1>1 DEF restore
  <2> QED BY <1>1, <1>2, <2>1, <2>2, <2>3 DEF IInv, TypeOK
<1>4. DriveFits'
  BY <1>1 DEF IInv, DriveFits, TableFits, Encrypted, restore
<1>5. LoopFits'
  BY <1>1 DEF IInv, LoopFits, FetchFits, Entry, restore
<1> QED BY <1>3, <1>4, <1>5 DEF IInv

\* It ends, and may publish its manifest.
LEMMA EndKeeps ==
  ASSUME IInv, NEW p \in Backups, EndBackup(p)
  PROVE  IInv'
<1>1. /\ UNCHANGED <<keyFile, made, drive, restore, output, git>>
      /\ bpc' \in [Backups -> {"off", "persist", "on"}]
      /\ bkey' \in [Backups -> 0..made]
      /\ snapshot' \in {snapshot, manifest'}
  BY DEF EndBackup, IInv, TypeOK, DriveFits
<1>2. /\ manifest' \in [Files -> Entries]
      /\ \A f \in Files : manifest'[f].id = manifest[f].id
                          /\ manifest'[f].version = manifest[f].version
  <2>1. CASE manifest' = manifest
    BY <2>1 DEF IInv, TypeOK
  <2>2. CASE \E f \in Files : manifest' = [manifest EXCEPT ![f].pruned = TRUE]
    <3>1. PICK f \in Files : manifest' = [manifest EXCEPT ![f].pruned = TRUE]
      BY <2>2
    <3> DEFINE e == [manifest[f] EXCEPT !.pruned = TRUE]
    <3>2. manifest' = [manifest EXCEPT ![f] = e]
      BY <3>1
    <3>3. manifest \in [Files -> Entries] /\ manifest[f] \in Entries
      BY DEF IInv, TypeOK
    <3>4. e \in Entries /\ e.id = manifest[f].id
          /\ e.version = manifest[f].version
      BY <3>3 DEF Entries
    <3> HIDE DEF e
    <3> QED BY <3>2, <3>3, <3>4
  <2> QED BY <2>1, <2>2 DEF EndBackup
<1>3. TableFits(manifest')
  <2>1. \A f \in Files : manifest[f].version \in Nat
    BY DEF IInv, TypeOK, Entries
  <2>2. \A f \in Files : manifest[f].id # 0 =>
          /\ drive[manifest[f].id].file = f
          /\ manifest[f].version = drive[manifest[f].id].version
    BY DEF IInv, TypeOK, DriveFits
  <2>3. \A f \in Files : manifest[f].id # 0 =>
          manifest[f].version <= drive[manifest[f].id].version
    BY <2>1, <2>2
  <2> QED BY <1>2, <2>2, <2>3 DEF TableFits
<1>4. TypeOK'
  BY <1>1, <1>2 DEF IInv, TypeOK, Entries, restore
<1>5. DriveFits'
  <2>1. TableFits(snapshot)' /\ TableFits(rsnap)'
    BY <1>1, <1>2, <1>3 DEF IInv, DriveFits, TableFits, restore
  <2> QED BY <1>1, <1>2, <2>1 DEF IInv, DriveFits, Encrypted
<1>6. LoopFits'
  <2>1. rpc = "part" => Order[index] \in Files
    BY FilesArePaths DEF IInv, LoopFits
  <2>2. /\ rpc' = rpc /\ options' = options /\ index' = index
        /\ fetched' = fetched /\ Entry' = Entry
    BY <1>1 DEF restore, Entry
  <2>3. ASSUME NEW c, rpc = "part", FetchFits(c)
        PROVE  FetchFits(c)'
    BY <1>2, <2>1, <2>2, <2>3 DEF FetchFits
  <2> QED BY <2>2, <2>3 DEF IInv, LoopFits
<1> QED BY <1>4, <1>5, <1>6 DEF IInv

\* It uploads a file.
LEMMA UploadKeeps ==
  ASSUME IInv, NEW p \in Backups, NEW f \in Files, Upload(p, f)
  PROVE  IInv'
<1> DEFINE old == manifest[f].id
           version == manifest[f].version + 1
           id == IF old = 0 THEN Len(drive) + 1 ELSE old
           Copy == [file : Files, version : Nat \ {0}, key : 0..made]
<1>1. PICK k \in KeyFor(p, f) :
        /\ drive' = IF old = 0
                    THEN Append(drive, [file |-> f, version |-> version, key |-> k])
                    ELSE [drive EXCEPT ![old] =
                            [file |-> f, version |-> version, key |-> k]]
        /\ manifest' = [manifest EXCEPT ![f] =
                          [id |-> id, version |-> version, pruned |-> FALSE]]
        /\ fetched' = Meanwhile(id, [file |-> f, version |-> version,
                                     key |-> k])
  BY DEF Upload
<1> DEFINE new == [file |-> f, version |-> version, key |-> k]
<1>2. /\ UNCHANGED <<keyFile, made, snapshot, bpc, bkey, output, git>>
      /\ UNCHANGED <<rpc, options, rsnap, rkey, index, repos, errors>>
  BY DEF Upload
<1>3. /\ manifest[f] \in Entries /\ old \in 0..Len(drive) /\ Len(drive) \in Nat
      /\ version \in Nat \ {0} /\ version > manifest[f].version
      /\ drive \in Seq(Copy) /\ DOMAIN drive = 1..Len(drive)
  <2>1. drive \in Seq(Copy)
    BY DEF IInv, TypeOK
  <2>2. Len(drive) \in Nat /\ DOMAIN drive = 1..Len(drive)
    BY <2>1, LenProperties
  <2>3. manifest[f] \in Entries
    BY DEF IInv, TypeOK
  <2> QED BY <2>1, <2>2, <2>3 DEF Entries
<1>4. k \in 0..made /\ (k # 0 <=> f \in Secrets)
  BY DEF KeyFor, IInv, TypeOK, DriveFits
<1>5. new \in Copy /\ new.file = f /\ new.version = version /\ new.key = k
  BY <1>3, <1>4
<1> HIDE DEF new, version, Copy
<1>6. /\ drive' \in Seq(Copy) /\ Len(drive) <= Len(drive') /\ Len(drive') \in Nat
      /\ DOMAIN drive' = 1..Len(drive')
      /\ id \in DOMAIN drive' /\ drive'[id] = new
      /\ \A i \in DOMAIN drive : i # old => drive'[i] = drive[i]
      /\ \A i \in DOMAIN drive' : i \in DOMAIN drive \/ i = id
  <2>1. CASE old = 0
    <3>1. drive' = Append(drive, new)
      BY <1>1, <2>1 DEF new, version
    <3>2. /\ drive' \in Seq(Copy) /\ Len(drive') = Len(drive) + 1
          /\ \A i \in 1..Len(drive) : drive'[i] = drive[i]
          /\ drive'[Len(drive) + 1] = new
      BY <1>3, <1>5, <3>1, AppendProperties
    <3>3. DOMAIN drive' = 1..Len(drive')
      BY <3>2, LenProperties
    <3> QED BY <1>3, <2>1, <3>2, <3>3
  <2>2. CASE old # 0
    <3>1. drive' = [drive EXCEPT ![old] = new] /\ old \in 1..Len(drive)
      BY <1>1, <1>3, <2>2 DEF new, version
    <3>2. drive' \in Seq(Copy) /\ Len(drive') = Len(drive)
      BY <1>3, <1>5, <3>1, ExceptSeq
    <3> QED BY <1>3, <2>2, <3>1, <3>2
  <2> QED BY <2>1, <2>2
<1>7. /\ \A i \in DOMAIN drive : /\ i \in DOMAIN drive'
                                 /\ drive'[i].file = drive[i].file
                                 /\ drive'[i].version >= drive[i].version
      /\ \A i \in DOMAIN drive' : Encrypted(i)' <=> drive'[i].file \in Secrets
  <2>1. old # 0 => old \in DOMAIN drive /\ drive[old].file = f /\ id = old
                   /\ drive[old].version = manifest[f].version
    <3>1. old # 0 => old \in DOMAIN drive /\ id = old
      BY <1>3
    <3>2. old # 0 => drive[old].file = f
      BY DEF IInv, TypeOK
    <3>3. old # 0 => drive[old].version = manifest[f].version
      BY DEF IInv, DriveFits
    <3> QED BY <3>1, <3>2, <3>3
  <2>2. \A i \in DOMAIN drive : drive[i].version \in Nat
    <3>1. \A i \in DOMAIN drive : drive[i] \in Copy
      BY <1>3, ElementOfSeq
    <3> QED BY <3>1 DEF Copy
  <2>3. ASSUME NEW i \in DOMAIN drive
        PROVE  /\ i \in DOMAIN drive'
               /\ drive'[i].file = drive[i].file
               /\ drive'[i].version >= drive[i].version
    BY <1>3, <1>5, <1>6, <2>1, <2>2
  <2>4. ASSUME NEW i \in DOMAIN drive'
        PROVE  Encrypted(i)' <=> drive'[i].file \in Secrets
    <3>1. CASE i = id
      BY <1>4, <1>5, <1>6, <3>1 DEF Encrypted
    <3>2. CASE i # id
      BY <1>6, <2>1, <3>2 DEF Encrypted, IInv, DriveFits
    <3> QED BY <3>1, <3>2
  <2> QED BY <2>3, <2>4
<1>8. /\ manifest'[f].id = id /\ manifest'[f].version = version
      /\ manifest' \in [Files -> Entries']
      /\ \A g \in Files : g # f => manifest'[g] = manifest[g]
  <2> DEFINE e == [id |-> id, version |-> version, pruned |-> FALSE]
  <2>1. manifest' = [manifest EXCEPT ![f] = e] /\ manifest \in [Files -> Entries]
    BY <1>1 DEF IInv, TypeOK
  <2>2. e \in Entries' /\ e.id = id /\ e.version = version
    BY <1>3, <1>6 DEF Entries
  <2>3. \A x \in Entries : x \in Entries'
    BY <1>3, <1>6 DEF Entries
  <2> HIDE DEF e
  <2> QED BY <2>1, <2>2, <2>3
<1> HIDE DEF id, old
<1>9. /\ snapshot' \in [Files -> Entries'] /\ rsnap' \in [Files -> Entries']
  <2>1. \A e \in Entries : e \in Entries'
    BY <1>3, <1>6 DEF Entries
  <2>2. /\ snapshot \in [Files -> Entries] /\ rsnap \in [Files -> Entries]
        /\ snapshot' = snapshot /\ rsnap' = rsnap
    BY <1>2 DEF IInv, TypeOK
  <2> QED BY <2>1, <2>2
<1>10. ASSUME NEW g \in Files, manifest'[g].id # 0
       PROVE  /\ drive'[manifest'[g].id].file = g
              /\ drive'[manifest'[g].id].version = manifest'[g].version
  <2>1. CASE g = f
    BY <1>5, <1>6, <1>8, <2>1
  <2>2. CASE g # f
    <3>1. /\ manifest'[g] = manifest[g] /\ manifest[g].id \in DOMAIN drive
          /\ drive[manifest[g].id].file = g
          /\ drive[manifest[g].id].version = manifest[g].version
      <4>1. manifest'[g] = manifest[g] /\ manifest[g].id # 0
        BY <1>8, <1>10, <2>2
      <4>2. manifest[g] \in Entries
        BY DEF IInv, TypeOK
      <4>3. manifest[g].id \in DOMAIN drive
        BY <1>3, <4>1, <4>2 DEF Entries
      <4> QED BY <4>1, <4>3 DEF IInv, TypeOK, DriveFits
    <3>2. old # 0 => drive[old].file = f
      BY DEF IInv, TypeOK, old
    <3>3. manifest[g].id # old
      BY <1>8, <1>10, <2>2, <3>1, <3>2
    <3> QED BY <1>6, <3>1, <3>3
  <2> QED BY <2>1, <2>2
<1>11. /\ rpc # "part" => fetched' = {}
       /\ rpc = "part" => fetched' # {} /\ \A c \in fetched' : FetchFits(c)'
  <2>1. ASSUME rpc = "part"
        PROVE  fetched' # {} /\ \A c \in fetched' : FetchFits(c)'
    <3> DEFINE g == Order[index]
    <3>1. /\ g \in Files /\ Entry = rsnap[g] /\ Entry \in Entries /\ Entry.id # 0
          /\ fetched # {} /\ \A c \in fetched : FetchFits(c)
      BY <2>1, FilesArePaths DEF IInv, TypeOK, LoopFits, Entry
    <3>2. /\ Entry.id = manifest[g].id /\ drive[Entry.id].file = g
          /\ Entry.id \in 1..Len(drive) /\ Entry.version \in Nat
      BY <1>3, <3>1 DEF IInv, DriveFits, TableFits, Entries
    <3>3. manifest[g].version \in Nat /\ manifest'[g].version \in Nat
      BY <3>1, <1>8 DEF IInv, TypeOK, Entries
    <3>4. manifest'[g].version >= manifest[g].version
      <4>1. CASE g = f
        BY <1>3, <1>8, <3>3, <4>1
      <4>2. CASE g # f
        BY <1>8, <3>1, <3>3, <4>2
      <4> QED BY <4>1, <4>2
    <3>5. Entry' = Entry /\ Order[index]' = g
      BY <1>2 DEF Entry
    <3>6. ASSUME NEW c \in fetched
          PROVE  /\ FetchFits(c)'
                 /\ c \in Contents /\ c.file = g
                 /\ c.key # 0 <=> g \in Secrets
                 /\ c.version \in Nat /\ c.version >= Entry.version
                 /\ c.version <= manifest[g].version
      <4>1. FetchFits(c) /\ c.version \in Nat
        BY <3>1 DEF FetchFits, Contents
      <4> QED BY <3>3, <3>4, <3>5, <4>1 DEF FetchFits
    <3>7. CASE Entry.id # id
      BY <1>1, <3>1, <3>6, <3>7 DEF Meanwhile, new, version
    <3>8. CASE Entry.id = id
      <4>1. f = g /\ version > manifest[g].version /\ manifest'[g].version = version
        <5>1. old # 0 /\ id = old
          BY <1>3, <3>2, <3>8 DEF id
        <5>2. drive[old].file = f
          BY <5>1 DEF IInv, TypeOK, old
        <5> QED BY <1>3, <1>8, <3>2, <3>8, <5>1, <5>2
      <4>2. PICK w :
              /\ w = Whole(new)
              /\ fetched' = fetched \cup {w}
                              \cup {[c EXCEPT !.mixed = TRUE] : c \in fetched}
        BY <1>1, <2>1, <3>8 DEF Meanwhile, new, version
      <4>3. /\ w \in Contents /\ w.file = g
            /\ w.version = version /\ w.mixed = FALSE
            /\ w.key # 0 <=> g \in Secrets
        BY <1>3, <1>4, <1>5, <3>1, <4>1, <4>2 DEF Whole, Contents, IInv, DriveFits
      <4>4. manifest[g].version >= Entry.version
        BY <3>1, <3>2, <3>3, <3>6
      <4>5. FetchFits(w)'
        <5>1. version \in Nat /\ version >= Entry.version
          BY <1>3, <3>2, <3>3, <4>1, <4>4
        <5> QED BY <3>5, <4>1, <4>3, <5>1 DEF FetchFits
      <4>6. ASSUME NEW c \in fetched
            PROVE  FetchFits([c EXCEPT !.mixed = TRUE])'
        <5> DEFINE m == [c EXCEPT !.mixed = TRUE]
        <5>1. /\ m \in Contents /\ m.file = c.file /\ m.version = c.version
              /\ m.key = c.key
          BY <3>6 DEF Contents
        <5> HIDE DEF m
        <5>2. m.version < manifest'[g].version /\ m.version <= manifest'[g].version
          BY <1>3, <3>3, <3>6, <4>1, <5>1
        <5>3. FetchFits(m)'
          BY <3>5, <3>6, <5>1, <5>2 DEF FetchFits
        <5> QED BY <5>3 DEF m
      <4> QED BY <3>1, <3>6, <4>2, <4>5, <4>6
    <3> QED BY <3>7, <3>8
  <2>2. ASSUME rpc # "part" PROVE fetched' = {}
    BY <1>1, <2>2 DEF Meanwhile, IInv, TypeOK
  <2> QED BY <2>1, <2>2
<1>12. TypeOK'
  <2>1. (rpc' = "part") = (fetched' # {}) /\ \A c \in fetched' : c \in Contents
    BY <1>2, <1>11 DEF FetchFits
  <2> QED BY <1>2, <1>6, <1>8, <1>9, <1>10, <2>1 DEF IInv, TypeOK, Copy
<1>13. DriveFits'
  <2>1. ASSUME NEW t \in [Files -> Entries], TableFits(t), NEW g \in Files,
               t[g].id # 0
        PROVE  /\ t[g].id = manifest'[g].id
               /\ drive'[t[g].id].file = g
               /\ t[g].version <= drive'[t[g].id].version
    <3>1. /\ t[g].id \in DOMAIN drive /\ t[g].version \in Nat
          /\ t[g].id = manifest[g].id
          /\ drive[t[g].id].file = g
          /\ t[g].version <= drive[t[g].id].version
      BY <1>3, <2>1 DEF Entries, TableFits
    <3>2. \A i \in DOMAIN drive : drive[i] \in Copy
      BY <1>3, ElementOfSeq
    <3>3. \A i \in DOMAIN drive' : drive'[i] \in Copy
      BY <1>6, ElementOfSeq
    <3>4. /\ drive[t[g].id].version \in Nat /\ drive'[t[g].id].version \in Nat
      BY <1>7, <3>1, <3>2, <3>3 DEF Copy
    <3>5. t[g].id = manifest'[g].id
      <4>1. CASE g = f
        BY <1>8, <2>1, <3>1, <4>1 DEF id, old
      <4>2. CASE g # f
        BY <1>8, <3>1, <4>2
      <4> QED BY <4>1, <4>2
    <3> QED BY <1>7, <3>1, <3>4, <3>5
  <2>2. /\ snapshot' = snapshot /\ rsnap' = rsnap
        /\ snapshot \in [Files -> Entries] /\ rsnap \in [Files -> Entries]
        /\ TableFits(snapshot) /\ TableFits(rsnap)
    BY <1>2 DEF IInv, TypeOK, DriveFits
  <2>3. TableFits(snapshot)' /\ TableFits(rsnap)'
    BY <2>1, <2>2 DEF TableFits
  <2> QED BY <1>2, <1>7, <1>10, <2>3 DEF IInv, DriveFits
<1>14. LoopFits'
  BY <1>2, <1>11 DEF IInv, LoopFits, Entry
<1> QED BY <1>13, <1>14, <1>12 DEF IInv

----------------------------------------------------------------------------
(* The steps of a restore.                                                 *)

\* It changes nothing of the backups.
LEMMA RestoreApart ==
  ASSUME IInv, UNCHANGED backup,
         rsnap' \in {rsnap, snapshot, [f \in Files |-> Untracked]}
  PROVE  /\ DriveFits'
         /\ keyFile' \in -1..made'
         /\ drive' \in Seq([file : Files, version : Nat \ {0}, key : 0..made'])
         /\ manifest' \in [Files -> Entries'] /\ snapshot' \in [Files -> Entries']
         /\ rsnap' \in [Files -> Entries']
         /\ \A f \in Files :
              manifest'[f].id # 0 => drive'[manifest'[f].id].file = f
         /\ bpc' \in [Backups -> {"off", "persist", "on"}]
         /\ bkey' \in [Backups -> 0..made']
<1>1. UNCHANGED <<keyFile, made, drive, manifest, snapshot, bpc, bkey>>
  BY DEF backup
<1>2. Entries' = Entries
  BY <1>1 DEF Entries
<1>3. TableFits(rsnap)'
  BY <1>1 DEF IInv, DriveFits, TableFits, Untracked
<1>4. DriveFits'
  BY <1>1, <1>3 DEF IInv, DriveFits, TableFits, Encrypted
<1>5. Len(drive) \in Nat
  BY LenProperties DEF IInv, TypeOK
<1>6. [f \in Files |-> Untracked] \in [Files -> Entries]
  BY <1>5 DEF Entries, Untracked
<1> QED BY <1>1, <1>2, <1>4, <1>6 DEF IInv, TypeOK

\* The index after one that is not the last.
LEMMA IndexGoesOn ==
  ASSUME NEW n \in Nat, NEW i \in 1..n, i # n
  PROVE  i + 1 \in 1..n /\ i + 1 \in 1..(n + 1)
OBVIOUS

\* The loop goes on to the next entry.
LEMMA NextFits ==
  ASSUME IInv, rpc \in {"file", "part"}, ToNext, UNCHANGED options
  PROVE  /\ LoopFits'
         /\ rpc' \in {"file", "git"} /\ fetched' = {}
         /\ index' \in 1..(Len(Order) + 1)
<1>1. /\ index \in 1..Len(Order) /\ Len(Order) \in Nat
      /\ DOMAIN Order = 1..Len(Order)
  BY FilesArePaths DEF IInv, LoopFits
<1>2. /\ index' = index + 1 /\ fetched' = {}
      /\ rpc' = IF index = Len(Order) THEN "git" ELSE "file"
  BY DEF ToNext
<1>3. /\ rpc' \in {"file", "git"} /\ index' \in 1..(Len(Order) + 1)
      /\ rpc' = "file" => index' \in DOMAIN Order
  <2>1. CASE index = Len(Order)
    BY <1>1, <1>2, <2>1
  <2>2. CASE index # Len(Order)
    <3>1. index + 1 \in 1..Len(Order) /\ index + 1 \in 1..(Len(Order) + 1)
      BY <1>1, <2>2, IndexGoesOn
    <3> QED BY <1>1, <1>2, <2>2, <3>1
  <2> QED BY <2>1, <2>2
<1>4. options' \in [force : BOOLEAN, decrypt : BOOLEAN]
  BY DEF IInv, LoopFits
<1> QED BY <1>2, <1>3, <1>4 DEF LoopFits

\* A copy that is on Drive, as a download gives it.
LEMMA CopyOnDrive ==
  ASSUME IInv, NEW f \in Files, rsnap[f].id # 0
  PROVE  LET c == drive[rsnap[f].id]
         IN  /\ c \in [file : Files, version : Nat, key : Nat]
             /\ c.file = f /\ c.version >= rsnap[f].version
             /\ c.version = manifest[f].version
             /\ c.key # 0 <=> f \in Secrets
<1>1. rsnap[f] \in Entries /\ Len(drive) \in Nat /\ made \in Nat
      /\ DOMAIN drive = 1..Len(drive)
      /\ drive \in Seq([file : Files, version : Nat \ {0}, key : 0..made])
  BY LenProperties DEF IInv, TypeOK, DriveFits
<1>2. rsnap[f].id \in DOMAIN drive /\ rsnap[f].version \in Nat
  BY <1>1 DEF Entries
<1>3. drive[rsnap[f].id] \in [file : Files, version : Nat \ {0}, key : 0..made]
  BY <1>1, <1>2, ElementOfSeq
<1>4. /\ drive[rsnap[f].id].file = f
      /\ rsnap[f].version <= drive[rsnap[f].id].version
      /\ drive[rsnap[f].id].version = manifest[f].version
      /\ drive[rsnap[f].id].key # 0 <=> f \in Secrets
  BY <1>2 DEF IInv, DriveFits, TableFits, Encrypted
<1> DEFINE c == drive[rsnap[f].id]
<1> HIDE DEF c
<1>5. /\ c \in [file : Files, version : Nat, key : Nat]
      /\ c.version \in Nat
  BY <1>1, <1>3 DEF c
<1> QED BY <1>2, <1>4, <1>5 DEF c

\* It starts, and gets its key.
LEMMA StartKeeps ==
  ASSUME IInv, StartRestore \/ LoadKey
  PROVE  IInv'
<1>1. UNCHANGED backup /\ rsnap' \in {rsnap, snapshot}
      /\ UNCHANGED <<output, git>>
  BY DEF StartRestore, LoadKey
<1>2. /\ rpc' \in {"key", "file"} /\ fetched' = {}
      /\ rkey' \in 0..made' /\ index' \in 1..(Len(Order) + 1)
      /\ repos' \subseteq DOMAIN Repos
      /\ errors' \subseteq Files \cup DOMAIN Repos \cup {<< >>}
      /\ LoopFits'
  <2>1. CASE StartRestore
    <3>1. Files # {} /\ 1 \in DOMAIN Order /\ made \in Nat /\ Len(Order) \in Nat
      BY <2>1, FilesArePaths DEF StartRestore, IInv, DriveFits
    <3>2. /\ rpc' = "key" /\ fetched' = {} /\ rkey' = 0 /\ index' = 1
          /\ repos' = DOMAIN Repos /\ errors' = {} /\ made' = made
          /\ options' \in [force : BOOLEAN, decrypt : BOOLEAN]
      BY <2>1 DEF StartRestore, backup
    <3> QED BY <3>1, <3>2, FilesArePaths DEF LoopFits
  <2>2. CASE LoadKey
    <3>1. /\ rpc = "key" /\ rpc' = "file" /\ made' = made
          /\ UNCHANGED <<options, index, fetched, repos>>
          /\ (rkey' = keyFile /\ keyFile > 0) \/ rkey' = 0
          /\ errors' \in {{<< >>}, {}}
      BY <2>2 DEF LoadKey, backup
    <3>2. rkey' \in 0..made'
      BY <3>1 DEF IInv, TypeOK, DriveFits
    <3> QED BY <3>1, <3>2 DEF IInv, TypeOK, LoopFits
  <2> QED BY <2>1, <2>2
<1>4. TypeOK'
  BY <1>1, <1>2, RestoreApart DEF IInv, TypeOK
<1> QED BY <1>1, <1>2, <1>4, RestoreApart DEF IInv

\* It skips an entry.
LEMMA SkipKeeps ==
  ASSUME IInv, SkipFile
  PROVE  IInv'
<1>1. /\ rpc = "file" /\ ToNext
      /\ UNCHANGED <<backup, options, rsnap, rkey, repos, errors, output, git>>
  BY DEF SkipFile
<1>2. made' = made
  BY <1>1 DEF backup
<1>3. TypeOK'
  BY <1>1, <1>2, NextFits, RestoreApart DEF IInv, TypeOK
<1> QED BY <1>1, <1>3, NextFits, RestoreApart DEF IInv

\* It downloads one.
LEMMA DownloadKeeps ==
  ASSUME IInv, Download
  PROVE  IInv'
<1>1. /\ rpc = "file" /\ rpc' = "part" /\ Entry.id # 0
      /\ fetched' = {Whole(drive[Entry.id])}
      /\ output' \in {output, Holds(output, Scratch, Partial)}
      /\ UNCHANGED <<backup, options, rsnap, rkey, index, repos, errors, git>>
  BY DEF Download
<1>2. made' = made /\ drive' = drive
  BY <1>1 DEF backup
<1>3. index \in DOMAIN Order /\ Order[index] \in Files
  BY <1>1, FilesArePaths DEF IInv, LoopFits
<1> DEFINE c == drive[Entry.id]
<1>4. /\ c \in [file : Files, version : Nat, key : Nat]
      /\ c.file = Order[index] /\ c.version >= Entry.version
      /\ c.version = manifest[Order[index]].version
      /\ c.key # 0 <=> Order[index] \in Secrets
  BY <1>1, <1>3, CopyOnDrive DEF Entry
<1>5. PICK w : w = Whole(c) /\ fetched' = {w}
  BY <1>1
<1> HIDE DEF c
<1>6. Entry' = Entry /\ manifest' = manifest
  BY <1>1 DEF Entry, backup
<1>7. LoopFits' /\ fetched' # {} /\ w \in Contents
  <2>1. /\ w \in Contents /\ w.file = c.file /\ w.key = c.key
        /\ w.version = c.version /\ w.mixed = FALSE
        /\ c.version \in Nat
    BY <1>4, <1>5 DEF Whole, Contents
  <2>2. FetchFits(w)'
    BY <1>1, <1>4, <1>6, <2>1 DEF FetchFits
  <2> QED BY <1>1, <1>3, <1>5, <1>6, <2>1, <2>2 DEF IInv, LoopFits
<1>8. ASSUME NEW p \in DOMAIN output'
      PROVE  output'[p] \in Contents
  <2>1. \A q \in DOMAIN output : output[q] \in Contents
    BY DEF IInv, TypeOK
  <2>2. Partial \in Contents
    BY DEF Partial, Contents
  <2>3. CASE output' = output
    BY <2>1, <2>3
  <2>4. CASE output' = Holds(output, Scratch, Partial)
    <3>1. /\ DOMAIN output' = DOMAIN output \cup {Scratch}
          /\ output'[Scratch] = Partial
          /\ \A q \in DOMAIN output \ {Scratch} : output'[q] = output[q]
      BY <2>4 DEF Holds
    <3> QED BY <2>1, <2>2, <3>1
  <2> QED BY <1>1, <2>3, <2>4
<1>9. TypeOK'
  BY <1>1, <1>2, <1>5, <1>7, <1>8, RestoreApart DEF IInv, TypeOK
<1> QED BY <1>1, <1>7, <1>9, RestoreApart DEF IInv

\* It puts one in its place, or counts it as failed.
LEMMA EndFileKeeps ==
  ASSUME IInv, Replace \/ FailFile
  PROVE  IInv'
<1>1. /\ rpc = "part" /\ ToNext
      /\ UNCHANGED <<backup, options, rsnap, rkey, repos, git>>
      /\ errors' \in {errors, errors \cup {Order[index]}}
  BY DEF Replace, FailFile
<1>2. made' = made
  BY <1>1 DEF backup
<1>3. index \in DOMAIN Order /\ Order[index] \in Files
      /\ \A c \in fetched : c \in Contents
  BY <1>1, FilesArePaths DEF IInv, TypeOK, LoopFits
<1>4. errors' \subseteq Files \cup DOMAIN Repos \cup {<< >>}
  BY <1>1, <1>3 DEF IInv, TypeOK
<1>5. ASSUME NEW p \in DOMAIN output'
      PROVE  output'[p] \in Contents
  <2>1. \A q \in DOMAIN output : output[q] \in Contents
    BY DEF IInv, TypeOK
  <2>2. \A q \in DOMAIN Without(Scratch) : Without(Scratch)[q] \in Contents
    BY <2>1, WithoutOne
  <2>3. CASE Replace
    <3>0. PICK d \in fetched :
            output' = Holds(Without(Scratch), Target,
                            IF Decrypts THEN [d EXCEPT !.key = 0] ELSE d)
      BY <2>3 DEF Replace
    <3> DEFINE c == IF Decrypts THEN [d EXCEPT !.key = 0] ELSE d
    <3>1. output' = Holds(Without(Scratch), Target, c)
      BY <3>0
    <3>2. c \in Contents
      BY <1>3 DEF Contents
    <3> HIDE DEF c
    <3> DEFINE out == Without(Scratch)
    <3>3. /\ \A q \in DOMAIN out : out[q] \in Contents
          /\ output' = Holds(out, Target, c)
      BY <2>2, <3>1
    <3> HIDE DEF out
    <3>4. /\ DOMAIN output' = DOMAIN out \cup {Target}
          /\ output'[Target] = c
          /\ \A q \in DOMAIN out \ {Target} : output'[q] = out[q]
      BY <3>3 DEF Holds
    <3> QED BY <3>2, <3>3, <3>4
  <2>4. CASE FailFile
    BY <2>2, <2>4 DEF FailFile
  <2> QED BY <2>3, <2>4
<1>6. TypeOK'
  BY <1>1, <1>2, <1>4, <1>5, NextFits, RestoreApart DEF IInv, TypeOK
<1> QED BY <1>1, <1>6, NextFits, RestoreApart DEF IInv

\* It populates the repositories, ends, or is stopped.
LEMMA RestKeeps ==
  ASSUME IInv,
         (\E r \in DOMAIN Repos : Populate(r)) \/ EndRestore \/ StopRestore
  PROVE  IInv'
<1>1. /\ UNCHANGED <<backup, output>>
      /\ rsnap' \in {rsnap, [f \in Files |-> Untracked]}
      /\ options' \in {options, NoOptions}
      /\ rpc' \in {"git", "done", "off"} /\ fetched' \in {fetched, {}}
      /\ rpc = "git" \/ fetched' = {}
      /\ rkey' \in {rkey, 0} /\ index' \in {index, 1}
      /\ repos' \subseteq repos
  BY DEF Populate, EndRestore, StopRestore
<1>2. /\ errors' \subseteq Files \cup DOMAIN Repos \cup {<< >>}
      /\ git' \in [DOMAIN Repos -> {"none", "begun", "whole"}]
  <2>1. /\ errors \subseteq Files \cup DOMAIN Repos \cup {<< >>}
        /\ git \in [DOMAIN Repos -> {"none", "begun", "whole"}]
    BY DEF IInv, TypeOK
  <2>2. ASSUME NEW r \in DOMAIN Repos, Populate(r)
        PROVE  /\ errors' \in {errors, errors \cup {r}}
               /\ \/ git' = git
                  \/ \E g \in {"none", "begun", "whole"} :
                       git' = [git EXCEPT ![r] = g]
    BY <2>2 DEF Populate, Leftovers
  <2>3. CASE \E r \in DOMAIN Repos : Populate(r)
    BY <2>1, <2>2, <2>3
  <2>4. CASE EndRestore \/ StopRestore
    BY <2>1, <2>4 DEF EndRestore, StopRestore
  <2> QED BY <2>3, <2>4
<1>3. made' = made /\ made \in Nat /\ Len(Order) \in Nat
  BY <1>1, FilesArePaths DEF backup, IInv, DriveFits
<1>4. fetched' = {}
  BY <1>1 DEF IInv, TypeOK
<1>5. LoopFits'
  <2>1. options' \in [force : BOOLEAN, decrypt : BOOLEAN]
    <3>1. NoOptions \in [force : BOOLEAN, decrypt : BOOLEAN]
      BY DEF NoOptions
    <3>2. options \in [force : BOOLEAN, decrypt : BOOLEAN]
      BY DEF IInv, LoopFits
    <3> QED BY <1>1, <3>1, <3>2
  <2> QED BY <1>1, <2>1 DEF LoopFits
<1>6. /\ rkey' \in 0..made' /\ index' \in 1..(Len(Order) + 1)
      /\ repos' \subseteq DOMAIN Repos
  BY <1>1, <1>3 DEF IInv, TypeOK
<1>7. TypeOK'
  BY <1>1, <1>2, <1>4, <1>6, RestoreApart DEF IInv, TypeOK
<1> QED BY <1>1, <1>5, <1>7, RestoreApart DEF IInv

\* Every step keeps the invariant.
LEMMA StepInv == IInv /\ [Next]_vars => IInv'
<1> SUFFICES ASSUME IInv, [Next]_vars PROVE IInv'
  OBVIOUS
<1>1. CASE UNCHANGED vars
  <2>1. UNCHANGED <<backup, restore, output, git>>
    BY <1>1 DEF vars
  <2>2. LoopFits'
    BY <2>1 DEF IInv, LoopFits, FetchFits, Entry, backup, restore
  <2>3. made' = made /\ rsnap' = rsnap
    BY <2>1 DEF backup, restore
  <2>4. TypeOK'
    BY <2>1, <2>3, RestoreApart DEF IInv, TypeOK, restore
  <2> QED BY <2>1, <2>2, <2>3, <2>4, RestoreApart DEF IInv
<1>2. CASE Next
  BY <1>2, KeyKeeps, EndKeeps, UploadKeeps, StartKeeps, SkipKeeps,
     DownloadKeeps, EndFileKeeps, RestKeeps DEF Next, RestoreStep
<1> QED BY <1>1, <1>2

(* Whatever is uploaded, published, killed, lost or repeated in between,   *)
(* every variable has its type, and a table names a copy of each file.     *)
THEOREM TypeCorrect == Spec => []TypeOK
<1>1. IInv => TypeOK
  BY DEF IInv
<1> QED BY <1>1, InitInv, StepInv, PTL DEF Spec

----------------------------------------------------------------------------
(* What bears a file's name is the whole of that file.                     *)

\* The name of a file that stays encrypted.
LEMMA EncPaths ==
  ASSUME NEW f \in Paths
  PROVE  /\ EncPath(f) \in Paths /\ Last(EncPath(f)) = "enc"
         /\ EncPath(f) = f \/ EncPath(f) = Append(f, "enc")
<1>1. "enc" \in Parts
  BY DEF Parts
<1> QED BY <1>1, AppendPart DEF EncPath

\* What the loop of a restore is at.
LEMMA AtEntry ==
  ASSUME IInv, rpc \in {"file", "part"}
  PROVE  /\ index \in DOMAIN Order /\ Order[index] \in Files
         /\ Order[index] \in Paths
         /\ Entry.id # 0 => (Encrypted(Entry.id) <=> Order[index] \in Secrets)
         /\ Target \in {Order[index], EncPath(Order[index])}
         /\ Entry.id # 0 => Target \in Targets
         /\ Scratch # Target
<1>1. /\ index \in DOMAIN Order /\ Order[index] \in Files
      /\ Order[index] \in Paths
  BY FilesArePaths DEF IInv, LoopFits
<1>2. Entry.id # 0 => (Encrypted(Entry.id) <=> Order[index] \in Secrets)
  BY <1>1, CopyOnDrive DEF Entry, Encrypted
<1>3. Target \in {Order[index], EncPath(Order[index])}
  BY DEF Target
<1>4. Target \in Paths
  BY <1>1, <1>3, EncPaths
<1>5. Entry.id # 0 => Target \in Targets
  BY <1>1, <1>2 DEF Target, Targets
<1>6. "part" \in Parts
  BY DEF Parts
<1> QED BY <1>1, <1>2, <1>3, <1>4, <1>5, <1>6, AppendPart DEF Scratch, Part

(* No file is to be restored under the name of another one's .part file.   *)
PartNamesFree == \A p \in Targets : Part(p) \notin Targets

\* The content a file is replaced by.
Restored(c) == IF Decrypts THEN [c EXCEPT !.key = 0] ELSE c

\* What may bear a target's name.
WholeAt(p, c) ==
  /\ c.file \in Files /\ (c.key # 0 => c.file \in Secrets)
  /\ p = IF c.key = 0 THEN c.file ELSE EncPath(c.file)
  /\ c.mixed => /\ c.key = 0 => c.file \notin Secrets
                /\ c.version < manifest[c.file].version

\* It is whole, and no older than the snapshot says.
LEMMA RestoredWhole ==
  ASSUME IInv, rpc = "part", NEW c \in fetched, Decrypts => Opens(c)
  PROVE  WholeAt(Target, Restored(c)) /\ Restored(c).version >= Entry.version
<1>1. /\ Entry.id # 0 /\ c \in Contents
      /\ c.file = Order[index] /\ c.version >= Entry.version
      /\ c.key # 0 <=> Order[index] \in Secrets
      /\ c.mixed => c.version < manifest[Order[index]].version
  BY DEF IInv, LoopFits, FetchFits
<1>2. /\ Encrypted(Entry.id) <=> Order[index] \in Secrets
      /\ Order[index] \in Files
  BY <1>1, AtEntry
<1>3. CASE Decrypts
  <2>1. Restored(c) = [c EXCEPT !.key = 0] /\ Target = Order[index] /\ ~c.mixed
    BY <1>3 DEF Restored, Target, Opens
  <2> DEFINE d == [c EXCEPT !.key = 0]
  <2>2. /\ d.key = 0 /\ d.file = c.file /\ d.mixed = c.mixed
        /\ d.version = c.version
    BY <1>1 DEF Contents
  <2>3. Restored(c) = d
    BY <2>1
  <2> HIDE DEF d
  <2> QED BY <1>1, <1>2, <2>1, <2>2, <2>3 DEF WholeAt
<1>4. CASE ~Decrypts
  <2>1. /\ Restored(c) = c
        /\ Target = IF Encrypted(Entry.id) THEN EncPath(Order[index])
                                           ELSE Order[index]
    BY <1>4 DEF Restored, Target
  <2> QED BY <1>1, <1>2, <2>1 DEF WholeAt
<1> QED BY <1>3, <1>4

\* The backups' versions only grow.
LEMMA VersionsGrow ==
  ASSUME IInv, [Next]_vars, NEW f \in Files
  PROVE  /\ manifest[f].version \in Nat /\ manifest'[f].version \in Nat
         /\ manifest'[f].version >= manifest[f].version
<1>1. manifest \in [Files -> Entries] /\ manifest[f].version \in Nat
  BY DEF IInv, TypeOK, Entries
<1>2. ASSUME NEW p \in Backups, NEW g \in Files, Upload(p, g)
      PROVE  manifest'[f].version \in Nat
             /\ manifest'[f].version >= manifest[f].version
  <2>1. PICK id : manifest' = [manifest EXCEPT ![g] =
                    [id |-> id, version |-> manifest[g].version + 1,
                     pruned |-> FALSE]]
    BY <1>2 DEF Upload
  <2>2. manifest'[f] = IF f = g THEN [id |-> id,
                                      version |-> manifest[g].version + 1,
                                      pruned |-> FALSE]
                                ELSE manifest[f]
    BY <1>1, <2>1
  <2> QED BY <1>1, <2>2
<1>3. ASSUME NEW p \in Backups, EndBackup(p)
      PROVE  manifest'[f].version = manifest[f].version
  <2>1. CASE manifest' = manifest
    BY <2>1
  <2>2. CASE \E g \in Files : manifest' = [manifest EXCEPT ![g].pruned = TRUE]
    <3>1. PICK g \in Files : manifest' = [manifest EXCEPT ![g].pruned = TRUE]
      BY <2>2
    <3> DEFINE e == [manifest[g] EXCEPT !.pruned = TRUE]
    <3>2. manifest' = [manifest EXCEPT ![g] = e] /\ manifest[g] \in Entries
      BY <1>1, <3>1
    <3>3. e.version = manifest[g].version
      BY <3>2 DEF Entries
    <3> HIDE DEF e
    <3> QED BY <1>1, <3>2, <3>3
  <2> QED BY <1>3, <2>1, <2>2 DEF EndBackup
<1>4. \/ manifest' = manifest
      \/ \E p \in Backups : EndBackup(p) \/ \E g \in Files : Upload(p, g)
  BY DEF Next, StartBackup, PersistKey, KillBackup, LoseKey, RestoreStep,
     StartRestore, LoadKey, SkipFile, Download, Replace, FailFile, Populate,
     EndRestore, StopRestore, backup, vars
<1> QED BY <1>1, <1>2, <1>3, <1>4

\* No step leaves a part of a file under its name.
LEMMA WholeStep ==
  ASSUME PartNamesFree
  PROVE  IInv /\ TargetsAreWhole /\ [Next]_vars => TargetsAreWhole'
<1> SUFFICES ASSUME IInv, TargetsAreWhole, [Next]_vars
             PROVE  TargetsAreWhole'
  OBVIOUS
<1>1. \A p \in DOMAIN output \cap Targets : WholeAt(p, output[p])
  BY DEF TargetsAreWhole, WholeAt
<1>2. SUFFICES ASSUME NEW p \in DOMAIN output' \cap Targets
               PROVE  WholeAt(p, output'[p])
  <2>1. ASSUME NEW p \in DOMAIN output' \cap Targets, WholeAt(p, output'[p])
        PROVE  WholeAt(p, output[p])'
    <3> DEFINE c == output'[p]
    <3>1. c.mixed => manifest'[c.file].version > c.version
      <4>1. ASSUME c.mixed
            PROVE  manifest'[c.file].version > c.version
        <5>1. c.file \in Files /\ c.version < manifest[c.file].version
          BY <2>1, <4>1 DEF WholeAt
        <5>2. c \in Contents /\ c.version \in Nat
          BY StepInv DEF IInv, TypeOK, Contents
        <5> QED BY <5>1, <5>2, VersionsGrow
      <4> QED BY <4>1
    <3> QED BY <2>1, <3>1 DEF WholeAt
  <2> QED BY <1>2, <2>1 DEF TargetsAreWhole, WholeAt
<1>3. CASE output' = output
  BY <1>1, <1>3
<1>4. CASE Download
  <2>1. CASE output' = Holds(output, Scratch, Partial)
    <3>1. Scratch \notin Targets
      BY <1>4, AtEntry DEF Download, PartNamesFree, Scratch
    <3>2. /\ DOMAIN output' = DOMAIN output \cup {Scratch}
          /\ \A q \in DOMAIN output \ {Scratch} : output'[q] = output[q]
      BY <2>1 DEF Holds
    <3> QED BY <1>1, <1>2, <3>1, <3>2
  <2> QED BY <1>3, <1>4, <2>1 DEF Download
<1>5. CASE Replace
  <2>1. PICK c \in fetched :
          /\ rpc = "part" /\ (Decrypts => Opens(c))
          /\ output' = Holds(Without(Scratch), Target, Restored(c))
    BY <1>5 DEF Replace, Restored
  <2>2. \/ p = Target /\ output'[p] = Restored(c)
        \/ p \in DOMAIN Without(Scratch) /\ output'[p] = Without(Scratch)[p]
    BY <1>2, <2>1 DEF Holds
  <2>3. WholeAt(Target, Restored(c))
    BY <2>1, RestoredWhole
  <2> QED BY <1>1, <1>2, <2>2, <2>3, WithoutOne
<1>6. CASE FailFile
  BY <1>1, <1>2, <1>6, WithoutOne DEF FailFile
<1>7. output' = output \/ Download \/ Replace \/ FailFile
  BY DEF Next, StartBackup, PersistKey, EndBackup, KillBackup, Upload, LoseKey,
     RestoreStep, StartRestore, LoadKey, SkipFile, Populate, EndRestore,
     StopRestore, vars
<1> QED BY <1>3, <1>4, <1>5, <1>6, <1>7

(* However often a restore was interrupted or failed, and whatever backups *)
(* went on meanwhile, what bears a target's name is a complete download of *)
(* that file, decrypted, or encrypted and named .enc, and a decrypted one  *)
(* is of one revision: if no target has the name of another's .part file.  *)
THEOREM TargetsWhole ==
  ASSUME PartNamesFree
  PROVE  Spec => []TargetsAreWhole
<1>1. Init => TargetsAreWhole
  BY DEF Init, TargetsAreWhole
<1>2. Spec => []IInv
  BY InitInv, StepInv, PTL DEF Spec
<1> QED BY <1>1, <1>2, WholeStep, PTL DEF Spec

----------------------------------------------------------------------------
(* A restore that reports no error has restored everything.                *)

(* No file has the name another one's encrypted copy is restored under:    *)
(* both would be written to one target, the later over the earlier.        *)
EncNamesFree == \A f \in Secrets : EncPath(f) \in Files => EncPath(f) = f

Wanted(f) ==
  IF f \in Secrets /\ ~options.decrypt THEN EncPath(f) ELSE f

(* The snapshot's copy of a file, or a newer one, is where it is wanted; an*)
(* older one too if the target was there and need not be overwritten.      *)
Settled(f) ==
  rsnap[f].id # 0 /\ ~rsnap[f].pruned =>
    /\ Wanted(f) \in DOMAIN output
    /\ options.force => output[Wanted(f)].version >= rsnap[f].version

(* While nothing has failed, the key is there when it is asked for, and    *)
(* each entry the loop has left behind is settled.                         *)
ProgressFits ==
  /\ rpc \in {"file", "part"} =>
       /\ rkey # 0 => options.decrypt
       /\ errors = {} /\ options.decrypt =>
            \A f \in Secrets : rsnap[f].id # 0 => rkey # 0
  /\ rpc \in {"file", "part"} /\ errors = {} =>
       \A i \in DOMAIN Order : i < index => Settled(Order[i])
  /\ rpc \in {"git", "done"} /\ errors = {} =>
       \A i \in DOMAIN Order : Settled(Order[i])

\* A file is wanted at a target, and that is nobody's .part file.
LEMMA ScratchApart ==
  ASSUME PartNamesFree, NEW i \in DOMAIN Order, NEW p \in Targets
  PROVE  Wanted(Order[i]) # Part(p)
BY FilesArePaths DEF PartNamesFree, Wanted, Targets

\* Two files are wanted in two places.
LEMMA WantedApart ==
  ASSUME EncNamesFree, NEW i \in DOMAIN Order, NEW j \in DOMAIN Order, i < j
  PROVE  Wanted(Order[i]) # Wanted(Order[j])
<1>1. /\ Order[i] \in Paths /\ Order[j] \in Paths
      /\ Order[i] \in Files /\ Order[j] \in Files
  BY FilesArePaths
<1>2. Order[i] # Order[j]
  BY OrderAssumption, FilesArePaths
<1>3. ASSUME EncPath(Order[i]) = EncPath(Order[j]),
             Order[i] \in Secrets, Order[j] \in Secrets
      PROVE  FALSE
  <2>1. EncPath(Order[i]) # Order[i] /\ EncPath(Order[j]) # Order[j]
    BY <1>1, <1>2, <1>3 DEF EncNamesFree
  <2>2. Append(Order[i], "enc") = Append(Order[j], "enc")
    BY <1>1, <1>3, <2>1, EncPaths
  <2>3. "enc" \in Parts
    BY DEF Parts
  <2> QED BY <1>1, <1>2, <2>2, <2>3, AppendOnce
<1> QED BY <1>1, <1>2, <1>3 DEF Wanted, EncNamesFree

\* The steps of the backups are out of its sight.
LEMMA ProgressApart ==
  ASSUME ProgressFits,
         UNCHANGED <<rpc, options, rsnap, rkey, index, errors, output>>
  PROVE  ProgressFits'
BY DEF ProgressFits, Settled, Wanted

\* The key is asked for if an entry needs it.
LEMMA LoadProgress ==
  ASSUME IInv, LoadKey
  PROVE  ProgressFits'
<1>1. /\ rpc = "key" /\ rpc' = "file" /\ UNCHANGED <<rsnap, options, index>>
      /\ index = 1
  BY DEF LoadKey, IInv, LoopFits
<1>2. rkey' # 0 => options.decrypt
  BY DEF LoadKey
<1>3. ASSUME errors' = {}, options.decrypt, NEW f \in Secrets, rsnap[f].id # 0
      PROVE  rkey' # 0
  <2>1. f \in Files /\ Encrypted(rsnap[f].id)
    BY <1>3, SecretsAssumption, CopyOnDrive DEF Encrypted
  <2>2. keyFile > 0
    <3>1. keyFile \in Int
      BY DEF IInv, TypeOK, DriveFits
    <3>2. keyFile <= 0 => errors' = {<< >>}
      BY <1>3, <2>1 DEF LoadKey
    <3>3. << >> \in {<< >>}
      OBVIOUS
    <3> QED BY <1>3, <3>1, <3>2, <3>3
  <2>3. rkey' = keyFile
    BY <1>3, <2>1, <2>2 DEF LoadKey
  <2> QED BY <2>2, <2>3
<1>4. \A i \in DOMAIN Order : ~(i < 1)
  BY FilesArePaths
<1> QED BY <1>1, <1>2, <1>3, <1>4 DEF ProgressFits

\* While nothing has failed, an entry goes where it is wanted.
LEMMA AtWanted ==
  ASSUME IInv, ProgressFits, rpc \in {"file", "part"}, errors = {},
         Entry.id # 0
  PROVE  Target = Wanted(Order[index])
<1>1. /\ index \in DOMAIN Order
      /\ Encrypted(Entry.id) <=> Order[index] \in Secrets
  BY AtEntry
<1>2. /\ rkey # 0 => options.decrypt
      /\ options.decrypt /\ Order[index] \in Secrets => rkey # 0
  BY DEF ProgressFits, Entry
<1> QED BY <1>1, <1>2 DEF Target, Decrypts, Wanted

\* The loop goes on when the entry it is at is settled.
LEMMA NextProgress ==
  ASSUME IInv, ProgressFits, rpc \in {"file", "part"}, ToNext,
         UNCHANGED <<options, rsnap, rkey>>,
         errors' = {} => errors = {},
         errors' = {} =>
           \A i \in DOMAIN Order : i <= index => Settled(Order[i])'
  PROVE  ProgressFits'
<1>1. /\ index \in 1..Len(Order) /\ Len(Order) \in Nat
      /\ DOMAIN Order = 1..Len(Order)
  BY FilesArePaths DEF IInv, LoopFits
<1>2. /\ index' = index + 1
      /\ rpc' = IF index = Len(Order) THEN "git" ELSE "file"
  BY DEF ToNext
<1>3. \A i \in DOMAIN Order : i < index + 1 => i <= index
  BY <1>1
<1>4. index = Len(Order) => \A i \in DOMAIN Order : i <= index
  BY <1>1
<1> QED BY <1>1, <1>2, <1>3, <1>4 DEF ProgressFits

\* An entry is skipped that is pruned, untracked or there.
LEMMA SkipProgress ==
  ASSUME IInv, ProgressFits, SkipFile
  PROVE  ProgressFits'
<1>1. /\ rpc = "file" /\ ToNext
      /\ UNCHANGED <<options, rsnap, rkey, errors, output>>
  BY DEF SkipFile
<1>2. ASSUME errors = {}
      PROVE  Settled(Order[index])
  <2>1. CASE Entry.id = 0 \/ Entry.pruned
    BY <2>1 DEF Settled, Entry
  <2>2. CASE Entry.id # 0 /\ Present /\ ~options.force
    <3>1. Target = Wanted(Order[index])
      BY <1>1, <1>2, <2>2, AtWanted
    <3> QED BY <2>2, <3>1 DEF Settled, Present
  <2> QED BY <2>1, <2>2 DEF SkipFile
<1>3. \A f \in Files : Settled(f)' <=> Settled(f)
  BY <1>1 DEF Settled, Wanted
<1>4. ASSUME errors = {}, NEW i \in DOMAIN Order, i <= index
      PROVE  Settled(Order[i])'
  <2>1. i < index \/ i = index
    BY <1>1, <1>4, FilesArePaths DEF IInv, LoopFits
  <2>2. Settled(Order[i])
    BY <1>1, <1>2, <1>4, <2>1 DEF ProgressFits
  <2> QED BY <1>3, <2>2, FilesArePaths
<1> QED BY <1>1, <1>4, NextProgress

\* What a download begins with is no file's.
LEMMA DownloadProgress ==
  ASSUME IInv, ProgressFits, PartNamesFree, Download
  PROVE  ProgressFits'
<1>1. /\ rpc = "file" /\ rpc' = "part" /\ Entry.id # 0
      /\ UNCHANGED <<options, rsnap, rkey, index, errors>>
      /\ output' \in {output, Holds(output, Scratch, Partial)}
  BY DEF Download
<1>2. /\ DOMAIN output \subseteq DOMAIN output'
      /\ \A p \in DOMAIN output \ {Scratch} : output'[p] = output[p]
  <2>1. CASE output' = Holds(output, Scratch, Partial)
    BY <2>1 DEF Holds
  <2> QED BY <1>1, <2>1
<1>3. ASSUME NEW i \in DOMAIN Order, i < index, Settled(Order[i])
      PROVE  Settled(Order[i])'
  <2>1. Wanted(Order[i])' = Wanted(Order[i])
    BY <1>1 DEF Wanted
  <2>2. Wanted(Order[i]) # Scratch
    BY <1>1, <1>3, AtEntry, ScratchApart DEF Scratch
  <2> QED BY <1>1, <1>2, <1>3, <2>1, <2>2 DEF Settled
<1> QED BY <1>1, <1>3 DEF ProgressFits

\* A file is put in its place, and nothing settled is touched.
LEMMA ReplaceProgress ==
  ASSUME IInv, ProgressFits, EncNamesFree, PartNamesFree, Replace
  PROVE  ProgressFits'
<1>1. PICK c \in fetched :
        /\ rpc = "part" /\ ToNext
        /\ UNCHANGED <<options, rsnap, rkey, errors>>
        /\ Decrypts => Opens(c)
        /\ output' = Holds(Without(Scratch), Target, Restored(c))
  BY DEF Replace, Restored
<1>2. /\ DOMAIN output' = (DOMAIN output \ {Scratch}) \cup {Target}
      /\ output'[Target] = Restored(c)
      /\ \A p \in DOMAIN output \ {Scratch, Target} : output'[p] = output[p]
  <2> DEFINE out == Without(Scratch)
  <2>1. /\ DOMAIN out = DOMAIN output \ {Scratch}
        /\ \A p \in DOMAIN output \ {Scratch} : out[p] = output[p]
        /\ output' = Holds(out, Target, Restored(c))
    BY <1>1, WithoutOne
  <2> HIDE DEF out
  <2> QED BY <2>1 DEF Holds
<1>3. Entry.id # 0 /\ index \in DOMAIN Order
  BY <1>1 DEF IInv, LoopFits
<1>4. ASSUME errors = {}, NEW i \in DOMAIN Order, i < index,
             Settled(Order[i])
      PROVE  Settled(Order[i])'
  <2>1. Wanted(Order[i])' = Wanted(Order[i])
    BY <1>1 DEF Wanted
  <2>2. Wanted(Order[i]) # Scratch
    BY <1>1, <1>3, <1>4, AtEntry, ScratchApart DEF Scratch
  <2>3. Wanted(Order[i]) # Target
    <3>1. Target = Wanted(Order[index])
      BY <1>1, <1>3, <1>4, AtWanted
    <3> QED BY <1>3, <1>4, <3>1, WantedApart
  <2> QED BY <1>1, <1>2, <1>4, <2>1, <2>2, <2>3 DEF Settled
<1>5. ASSUME errors = {}, NEW i \in DOMAIN Order, i = index
      PROVE  Settled(Order[i])'
  <2>1. Wanted(Order[i])' = Wanted(Order[i])
    BY <1>1 DEF Wanted
  <2>2. Target = Wanted(Order[i])
    BY <1>1, <1>3, <1>5, AtWanted
  <2>3. Restored(c).version >= rsnap[Order[i]].version
    BY <1>1, <1>5, RestoredWhole DEF Entry
  <2> QED BY <1>1, <1>2, <2>1, <2>2, <2>3 DEF Settled
<1>6. ASSUME errors = {}, NEW i \in DOMAIN Order, i <= index
      PROVE  Settled(Order[i])'
  <2>1. i < index \/ i = index
    BY <1>3, <1>6, FilesArePaths
  <2>2. i < index => Settled(Order[i])
    BY <1>1, <1>6 DEF ProgressFits
  <2> QED BY <1>4, <1>5, <1>6, <2>1, <2>2
<1> QED BY <1>1, <1>6, NextProgress

\* Every step keeps it.
LEMMA ProgressStep ==
  ASSUME IInv, ProgressFits, EncNamesFree, PartNamesFree, [Next]_vars
  PROVE  ProgressFits'
<1>1. CASE \/ LoseKey \/ UNCHANGED vars
           \/ \E p \in Backups :
                \/ StartBackup(p) \/ PersistKey(p) \/ EndBackup(p)
                \/ KillBackup(p) \/ \E f \in Files : Upload(p, f)
  BY <1>1, ProgressApart DEF LoseKey, StartBackup, PersistKey, EndBackup,
     KillBackup, Upload, restore, vars
<1>2. CASE StartRestore
  BY <1>2 DEF StartRestore, ProgressFits
<1>3. CASE FailFile
  <2>1. /\ rpc = "part" /\ ToNext /\ UNCHANGED <<options, rsnap, rkey>>
        /\ errors' # {}
    BY <1>3 DEF FailFile
  <2> QED BY <2>1, NextProgress
<1>4. CASE \E r \in DOMAIN Repos : Populate(r)
  <2>1. /\ rpc = "git" /\ rpc' = "git" /\ UNCHANGED <<options, rsnap, output>>
        /\ errors' = {} => errors = {}
    BY <1>4 DEF Populate
  <2> QED BY <2>1 DEF ProgressFits, Settled, Wanted
<1>5. CASE EndRestore
  <2>1. /\ rpc = "git" /\ rpc' = "done"
        /\ UNCHANGED <<options, rsnap, output, errors>>
    BY <1>5 DEF EndRestore
  <2> QED BY <2>1 DEF ProgressFits, Settled, Wanted
<1>6. CASE StopRestore
  BY <1>6 DEF StopRestore, ProgressFits
<1> QED BY <1>1, <1>2, <1>3, <1>4, <1>5, <1>6, LoadProgress, SkipProgress,
           DownloadProgress, ReplaceProgress DEF Next, RestoreStep

\* A target holds the file that is wanted there.
LEMMA WantedFile ==
  ASSUME EncNamesFree, TargetsAreWhole, NEW f \in Files,
         Wanted(f) \in DOMAIN output
  PROVE  output[Wanted(f)].file = f
<1> DEFINE c == output[Wanted(f)]
           g == c.file
<1> SUFFICES f = g
  OBVIOUS
<1>1. /\ g \in Files /\ (c.key # 0 => g \in Secrets)
      /\ Wanted(f) = IF c.key = 0 THEN g ELSE EncPath(g)
  BY DEF TargetsAreWhole, Targets, Wanted
<1> HIDE DEF c, g
<1>2. f \in Paths /\ g \in Paths
  BY <1>1, FilesArePaths
<1>3. CASE Wanted(f) = f
  BY <1>1, <1>3 DEF EncNamesFree
<1>4. CASE Wanted(f) = EncPath(f) /\ f \in Secrets /\ c.key = 0
  BY <1>1, <1>4 DEF EncNamesFree
<1>5. CASE Wanted(f) = EncPath(f) /\ f \in Secrets /\ c.key # 0
  <2>1. EncPath(f) = EncPath(g) /\ g \in Secrets
    BY <1>1, <1>5
  <2>2. CASE EncPath(f) = f \/ EncPath(g) = g
    BY <1>1, <1>5, <2>1, <2>2 DEF EncNamesFree
  <2>3. CASE EncPath(f) # f /\ EncPath(g) # g
    <3>1. Append(f, "enc") = Append(g, "enc")
      BY <1>2, <2>1, <2>3, EncPaths
    <3>2. "enc" \in Parts
      BY DEF Parts
    <3> QED BY <1>2, <3>1, <3>2, AppendOnce
  <2> QED BY <2>2, <2>3
<1> QED BY <1>3, <1>4, <1>5 DEF Wanted

\* At the end everything is settled.
LEMMA ProgressEnds ==
  ASSUME EncNamesFree
  PROVE  IInv /\ ProgressFits /\ TargetsAreWhole => OkMeansRestored
<1> SUFFICES ASSUME IInv, ProgressFits, TargetsAreWhole, rpc = "done",
                    errors = {}, NEW f \in Files,
                    rsnap[f].id # 0, ~rsnap[f].pruned
             PROVE  LET target == IF /\ rsnap[f].id # 0 /\ Encrypted(rsnap[f].id)
                                     /\ ~options.decrypt
                                  THEN EncPath(f) ELSE f
                    IN  /\ target \in DOMAIN output
                        /\ output[target].file = f
                        /\ options.force =>
                             output[target].version >= rsnap[f].version
  BY DEF OkMeansRestored
<1>1. Encrypted(rsnap[f].id) <=> f \in Secrets
  BY CopyOnDrive DEF Encrypted
<1>2. PICK i \in DOMAIN Order : f = Order[i]
  BY FilesArePaths
<1>3. Settled(f)
  BY <1>2 DEF ProgressFits
<1>4. output[Wanted(f)].file = f
  BY <1>3, WantedFile DEF Settled
<1> QED BY <1>1, <1>3, <1>4 DEF Settled, Wanted

(* If no file has the name under which the encrypted copy of another is    *)
(* restored, or that of the .part file of one, a restore that reports no   *)
(* error has put a complete download of every file of its snapshot where   *)
(* it was asked for, and with --force no part of it is older.              *)
THEOREM CleanRestoreIsComplete ==
  ASSUME EncNamesFree, PartNamesFree
  PROVE  Spec => []OkMeansRestored
<1>1. Init => ProgressFits
  BY DEF Init, ProgressFits
<1>2. IInv /\ ProgressFits /\ [Next]_vars => (IInv /\ ProgressFits)'
  BY StepInv, ProgressStep
<1>3. Spec => []TargetsAreWhole
  BY TargetsWhole
<1>4. IInv /\ ProgressFits /\ TargetsAreWhole => OkMeansRestored
  BY ProgressEnds
<1> QED BY <1>1, <1>2, <1>3, <1>4, InitInv, PTL DEF Spec

----------------------------------------------------------------------------
(* The key in the key file opens the secrets.                              *)

(* No two backups generate a key at the same time: load_or_generate_key    *)
(* takes no lock between looking for the file and putting one there.       *)
OneGenerates ==
  \A p, q \in Backups : bpc[p] = "persist" /\ bpc[q] = "persist" => p = q

(* Until the key file is lost: a backup that generates a key found none,   *)
(* a backup that uploads has the one in the file, and so do the copies.    *)
KeyFits ==
  /\ left \in [{"upload", "prune", "fault", "stop", "loss"} -> Nat]
  /\ left.loss <= LossMax
  /\ left.loss = LossMax =>
       /\ keyFile >= 0
       /\ \A p \in Backups :
            /\ bpc[p] = "persist" => keyFile = 0 /\ bkey[p] > 0
            /\ bpc[p] = "on" => keyFile = bkey[p] /\ keyFile > 0
       /\ \A i \in DOMAIN drive : Encrypted(i) => drive[i].key = keyFile

\* What is left of a bound when some of it, or none, is spent.
LEMMA SpendLess ==
  ASSUME KeyFits,
         NEW b \in {"upload", "prune", "fault", "stop", "loss"},
         Spend(b) \/ UNCHANGED left
  PROVE  /\ left' \in [{"upload", "prune", "fault", "stop", "loss"} -> Nat]
         /\ left'.loss <= left.loss
         /\ Spend(b) /\ b = "loss" => left'.loss < left.loss
BY DEF KeyFits, Spend

\* A restore leaves it.
LEMMA KeyApart ==
  ASSUME KeyFits, UNCHANGED backup,
         Spend("fault") \/ Spend("stop") \/ UNCHANGED left
  PROVE  KeyFits'
<1>1. UNCHANGED <<keyFile, drive, bpc, bkey>>
  BY DEF backup
<1>2. /\ left' \in [{"upload", "prune", "fault", "stop", "loss"} -> Nat]
      /\ left'.loss <= left.loss
  BY SpendLess
<1>3. LossMax \in Nat /\ left.loss \in Nat /\ left'.loss \in Nat
  BY <1>2, BoundsAssumption DEF KeyFits
<1> QED BY <1>1, <1>2, <1>3 DEF KeyFits, Encrypted

\* An upload puts one copy on Drive, under the key of its backup.
LEMMA UploadedCopy ==
  ASSUME IInv, NEW p \in Backups, NEW f \in Files, Upload(p, f)
  PROVE  \E k \in KeyFor(p, f), id \in Nat :
           /\ drive'[id].key = k
           /\ \A i \in DOMAIN drive \ {id} : drive'[i] = drive[i]
           /\ \A i \in DOMAIN drive' : i \in DOMAIN drive \/ i = id
<1> DEFINE Copy == [file : Files, version : Nat \ {0}, key : 0..made]
           old == manifest[f].id
<1>1. PICK k \in KeyFor(p, f) :
        LET new == [file |-> f, version |-> manifest[f].version + 1, key |-> k]
        IN drive' = IF old = 0 THEN Append(drive, new)
                    ELSE [drive EXCEPT ![old] = new]
  BY DEF Upload
<1> DEFINE new == [file |-> f, version |-> manifest[f].version + 1, key |-> k]
<1>2. /\ old \in 0..Len(drive) /\ Len(drive) \in Nat
      /\ drive \in Seq(Copy) /\ DOMAIN drive = 1..Len(drive)
      /\ manifest[f].version \in Nat /\ k \in 0..made
  <2>1. drive \in Seq(Copy) /\ manifest[f] \in Entries
    BY DEF IInv, TypeOK
  <2>2. Len(drive) \in Nat /\ DOMAIN drive = 1..Len(drive)
    BY <2>1, LenProperties
  <2>3. k \in 0..made
    BY DEF KeyFor, IInv, TypeOK, DriveFits
  <2> QED BY <2>1, <2>2, <2>3 DEF Entries
<1>3. new \in Copy /\ new.key = k
  BY <1>2
<1>4. CASE old = 0
  <2>1. drive' = Append(drive, new)
    BY <1>1, <1>4
  <2> HIDE DEF new, Copy, old
  <2>2. /\ drive' \in Seq(Copy) /\ Len(drive') = Len(drive) + 1
        /\ \A i \in 1..Len(drive) : drive'[i] = drive[i]
        /\ drive'[Len(drive) + 1] = new
    BY <1>2, <1>3, <2>1, AppendProperties
  <2>3. DOMAIN drive' = 1..Len(drive')
    BY <2>2, LenProperties
  <2>4. Len(drive) + 1 \in Nat /\ \A i \in DOMAIN drive' :
          i \in DOMAIN drive \/ i = Len(drive) + 1
    BY <1>2, <2>2, <2>3
  <2> QED BY <1>2, <1>3, <2>2, <2>4
<1>5. CASE old # 0
  <2>1. drive' = [drive EXCEPT ![old] = new] /\ old \in DOMAIN drive
        /\ old \in Nat
    BY <1>1, <1>2, <1>5
  <2> HIDE DEF new, Copy, old
  <2> QED BY <1>3, <2>1
<1> QED BY <1>4, <1>5

\* So does a backup.
LEMMA KeyStep ==
  ASSUME IInv, KeyFits, OneGenerates, [Next]_vars
  PROVE  KeyFits'
<1>0. /\ LossMax \in Nat /\ left.loss \in Nat /\ made \in Nat
      /\ bkey \in [Backups -> 0..made]
      /\ bpc \in [Backups -> {"off", "persist", "on"}]
  BY BoundsAssumption DEF KeyFits, IInv, TypeOK, DriveFits
<1>1. ASSUME NEW p \in Backups, StartBackup(p)
      PROVE  KeyFits'
  <2>1. UNCHANGED <<keyFile, drive, left>>
    BY <1>1 DEF StartBackup
  <2>2. ASSUME NEW q \in Backups, left.loss = LossMax
        PROVE  /\ bpc'[q] = "persist" => keyFile = 0 /\ bkey'[q] > 0
               /\ bpc'[q] = "on" => keyFile = bkey'[q] /\ keyFile > 0
    <3>1. CASE q # p
      BY <1>0, <1>1, <2>2, <3>1 DEF StartBackup, KeyFits
    <3>2. CASE q = p /\ keyFile = 0
      BY <1>0, <1>1, <2>2, <3>2 DEF StartBackup, KeyFits
    <3>3. CASE q = p /\ keyFile # 0
      <4>1. keyFile >= 0 /\ keyFile \in -1..made
        BY <2>2 DEF KeyFits, IInv, TypeOK
      <4> QED BY <1>0, <1>1, <2>2, <3>3, <4>1 DEF StartBackup
    <3> QED BY <3>1, <3>2, <3>3
  <2> QED BY <2>1, <2>2 DEF KeyFits, Encrypted
<1>2. ASSUME NEW p \in Backups, PersistKey(p)
      PROVE  KeyFits'
  <2>1. /\ bpc[p] = "persist" /\ keyFile' = bkey[p]
        /\ bpc' = [bpc EXCEPT ![p] = "on"]
        /\ UNCHANGED <<drive, left, bkey>>
    BY <1>2 DEF PersistKey
  <2>2. ASSUME left.loss = LossMax
        PROVE  /\ keyFile' > 0
               /\ \A i \in DOMAIN drive : ~Encrypted(i)
    BY <1>0, <2>1, <2>2 DEF KeyFits, Encrypted
  <2>3. ASSUME NEW q \in Backups, left.loss = LossMax
        PROVE  /\ bpc'[q] # "persist"
               /\ bpc'[q] = "on" => keyFile' = bkey[q] /\ keyFile' > 0
    <3>1. CASE q = p
      BY <1>0, <2>1, <2>2, <2>3, <3>1
    <3>2. CASE q # p
      <4>1. bpc'[q] = bpc[q] /\ keyFile = 0
        BY <1>0, <2>1, <2>3, <3>2 DEF KeyFits
      <4> QED BY <2>1, <2>3, <3>2, <4>1 DEF KeyFits, OneGenerates
    <3> QED BY <3>1, <3>2
  <2> QED BY <1>0, <2>1, <2>2, <2>3 DEF KeyFits, Encrypted
<1>3. ASSUME NEW p \in Backups, EndBackup(p) \/ KillBackup(p)
      PROVE  KeyFits'
  <2>1. /\ UNCHANGED <<keyFile, drive>>
        /\ bpc' = [bpc EXCEPT ![p] = "off"] /\ bkey' = [bkey EXCEPT ![p] = 0]
        /\ Spend("prune") \/ Spend("stop") \/ UNCHANGED left
    BY <1>3 DEF EndBackup, KillBackup
  <2>2. /\ left' \in [{"upload", "prune", "fault", "stop", "loss"} -> Nat]
        /\ left'.loss <= left.loss
    BY <2>1, SpendLess
  <2>3. left'.loss \in Nat
    BY <2>2
  <2>4. \A q \in Backups :
          bpc'[q] # "off" => bpc'[q] = bpc[q] /\ bkey'[q] = bkey[q]
    BY <1>0, <2>1
  <2> QED BY <1>0, <2>1, <2>2, <2>3, <2>4 DEF KeyFits, Encrypted
<1>4. ASSUME NEW p \in Backups, NEW f \in Files, Upload(p, f)
      PROVE  KeyFits'
  <2>1. /\ bpc[p] = "on" /\ UNCHANGED <<keyFile, bpc, bkey>>
        /\ left' \in [{"upload", "prune", "fault", "stop", "loss"} -> Nat]
        /\ left'.loss <= left.loss
    BY <1>4, SpendLess DEF Upload
  <2>2. left'.loss \in Nat
    BY <2>1
  <2>3. ASSUME left.loss = LossMax, NEW i \in DOMAIN drive', Encrypted(i)'
        PROVE  drive'[i].key = keyFile
    <3>1. PICK k \in KeyFor(p, f), id \in Nat :
            /\ drive'[id].key = k
            /\ i \in DOMAIN drive \ {id} => drive'[i] = drive[i]
            /\ i \in DOMAIN drive \/ i = id
      BY <1>4, UploadedCopy
    <3>2. CASE i = id
      BY <2>1, <2>3, <3>1, <3>2 DEF KeyFor, KeyFits, Encrypted
    <3>3. CASE i # id
      BY <2>3, <3>1, <3>3 DEF KeyFits, Encrypted
    <3> QED BY <3>2, <3>3
  <2> QED BY <1>0, <2>1, <2>2, <2>3 DEF KeyFits
<1>5. CASE LoseKey
  <2>1. left' \in [{"upload", "prune", "fault", "stop", "loss"} -> Nat]
        /\ left'.loss < left.loss
    BY <1>5, SpendLess DEF LoseKey
  <2>2. left'.loss \in Nat
    BY <2>1
  <2> QED BY <1>0, <2>1, <2>2 DEF KeyFits
<1>6. CASE RestoreStep \/ StopRestore \/ UNCHANGED vars
  <2>1. UNCHANGED backup /\ (Spend("fault") \/ Spend("stop") \/ UNCHANGED left)
    BY <1>6 DEF RestoreStep, StartRestore, LoadKey, SkipFile, Download, Replace,
       FailFile, Populate, EndRestore, StopRestore, vars
  <2> QED BY <2>1, KeyApart
<1> QED BY <1>1, <1>2, <1>3, <1>4, <1>5, <1>6 DEF Next

(* As long as no two backups generate a key at the same time and the key   *)
(* file is neither lost nor spoilt, the key in it opens every encrypted    *)
(* copy on Drive, whichever backups are killed.                            *)
THEOREM KeyOpensSecrets == Spec /\ []OneGenerates => []SecretsReadable
<1>1. Init => KeyFits
  BY BoundsAssumption DEF Init, KeyFits, Encrypted
<1>2. IInv /\ KeyFits /\ OneGenerates /\ [Next]_vars => (IInv /\ KeyFits)'
  BY StepInv, KeyStep
<1>3. KeyFits => SecretsReadable
  BY DEF KeyFits, SecretsReadable
<1> QED BY <1>1, <1>2, <1>3, InitInv, PTL DEF Spec

(* One backup process at a time, as the timers start it, does not need     *)
(* that assumption.                                                        *)
THEOREM OneBackupKeepsKey ==
  ASSUME \A p, q \in Backups : p = q
  PROVE  Spec => []SecretsReadable
<1>1. OneGenerates
  BY DEF OneGenerates
<1>2. Spec => []OneGenerates
  BY <1>1, PTL
<1> QED BY <1>2, KeyOpensSecrets, PTL
=============================================================================
