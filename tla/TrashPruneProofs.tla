-------------------------- MODULE TrashPruneProofs --------------------------
(***************************************************************************)
(* Proofs about TrashPrune, for any files, folders, kinds, workers and     *)
(* faults: what a prune leaves alone, what it takes a key out for, and     *)
(* that it deals with every target.                                        *)
(***************************************************************************)
EXTENDS TrashPrune, FiniteSetTheorems, SequenceTheorems, TLAPS

Paths == Seq(DOMAIN Fold)

----------------------------------------------------------------------------
(* Sequences.                                                              *)

\* A function on 1..n is a sequence of its values.
LEMMA IsSeq ==
  ASSUME NEW n \in Nat, NEW S, NEW s \in [1..n -> S]
  PROVE  s \in Seq(S) /\ Len(s) = n /\ DOMAIN s = 1..n
OBVIOUS

\* The elements of a concatenation are those of its parts.
LEMMA RangeConcat ==
  ASSUME NEW S, NEW s \in Seq(S), NEW t \in Seq(S)
  PROVE  s \o t \in Seq(S) /\ Range(s \o t) = Range(s) \cup Range(t)
<1> DEFINE u == s \o t
<1>1. /\ u \in Seq(S) /\ Len(u) = Len(s) + Len(t)
      /\ \A i \in 1..(Len(s) + Len(t)) : u[i] = IF i <= Len(s) THEN s[i] ELSE t[i - Len(s)]
  BY ConcatProperties
<1> HIDE DEF u
<1>2. /\ Len(s) \in Nat /\ Len(t) \in Nat
      /\ DOMAIN s = 1..Len(s) /\ DOMAIN t = 1..Len(t) /\ DOMAIN u = 1..Len(u)
  BY <1>1, LenProperties
<1>3. \A i \in DOMAIN s : u[i] = s[i] /\ i \in DOMAIN u
  BY <1>1, <1>2
<1>4. ASSUME NEW j \in DOMAIN t PROVE \E i \in DOMAIN u : u[i] = t[j]
  <2>1. Len(s) + j \in DOMAIN u /\ ~(Len(s) + j <= Len(s)) /\ Len(s) + j - Len(s) = j
    BY <1>1, <1>2
  <2>2. u[Len(s) + j] = t[j]
    BY <1>1, <1>2, <2>1
  <2> QED BY <2>1, <2>2
<1>5. ASSUME NEW i \in DOMAIN u PROVE u[i] \in Range(s) \cup Range(t)
  <2>1. CASE i <= Len(s)
    BY <1>1, <1>2, <2>1 DEF Range
  <2>2. CASE ~(i <= Len(s))
    <3>1. i - Len(s) \in DOMAIN t /\ u[i] = t[i - Len(s)]
      BY <1>1, <1>2, <2>2
    <3> QED BY <3>1 DEF Range
  <2> QED BY <2>1, <2>2
<1>6. Range(u) \subseteq Range(s) \cup Range(t)
  BY <1>5 DEF Range
<1>7. Range(s) \subseteq Range(u)
  BY <1>3 DEF Range
<1>8. Range(t) \subseteq Range(u)
  BY <1>4 DEF Range
<1>9. u \in Seq(S) /\ Range(u) = Range(s) \cup Range(t)
  BY <1>1, <1>6, <1>7, <1>8
<1> QED BY <1>9 DEF u

\* InOrder puts a set in a sequence, each element once for each of its places.
LEMMA InOrderFact ==
  ASSUME NEW S \in SUBSET Range(Order)
  PROVE  InOrder[S] \in Seq(S) /\ Range(InOrder[S]) = S
<1> DEFINE places == {i \in DOMAIN Order : Order[i] \in S}
           Below(i) == {j \in places : j <= i}
           rank == [i \in places |-> Cardinality(Below(i))]
           n == Cardinality(places)
           At(m) == CHOOSE i \in places : Cardinality(Below(i)) = m
           sorted == [m \in 1..n |-> Order[At(m)]]
<1>0. Order \in Seq(Seq(DOMAIN Fold))
  BY KeysAssumption
<1>1. IsFiniteSet(places) /\ n \in Nat /\ places \subseteq Nat
  <2>1. DOMAIN Order = 1..Len(Order) /\ Len(Order) \in Nat
    BY <1>0, LenProperties
  <2>2. IsFiniteSet(1..Len(Order))
    BY <2>1, FS_Interval
  <2> QED BY <2>1, <2>2, FS_Subset, FS_CardinalityType
<1>2. ASSUME NEW i \in places
      PROVE  /\ IsFiniteSet(Below(i)) /\ Cardinality(Below(i)) \in 1..n
             /\ i \in Below(i)
  <2>1. IsFiniteSet(Below(i)) /\ Cardinality(Below(i)) <= n /\ Cardinality(Below(i)) \in Nat
    BY <1>1, FS_Subset, FS_CardinalityType
  <2>2. i \in Below(i)
    BY <1>1
  <2>3. Cardinality(Below(i)) # 0
    BY <2>1, <2>2, FS_EmptySet
  <2> QED BY <1>1, <2>1, <2>2, <2>3
<1>3. ASSUME NEW i \in places, NEW j \in places, i < j
      PROVE  Cardinality(Below(i)) < Cardinality(Below(j))
  <2>1. Below(i) \subseteq Below(j) /\ j \notin Below(i) /\ j \in Below(j)
    BY <1>1, <1>3
  <2>2. IsFiniteSet(Below(j))
    BY <1>2
  <2> HIDE DEF Below
  <2> QED BY <2>1, <2>2, FS_Subset, FS_CardinalityType
<1>4. rank \in Injection(places, 1..n)
  <2>1. rank \in [places -> 1..n]
    BY <1>2
  <2>2. ASSUME NEW i \in places, NEW j \in places, i # j PROVE rank[i] # rank[j]
    <3>1. i < j \/ j < i
      BY <1>1, <2>2
    <3>2. Cardinality(Below(i)) # Cardinality(Below(j))
      <4>1. Cardinality(Below(i)) \in Nat /\ Cardinality(Below(j)) \in Nat
        BY <1>2, FS_CardinalityType
      <4> QED BY <1>3, <3>1, <4>1
    <3> QED BY <3>2
  <2> QED BY <2>1, <2>2 DEF Injection, IsInjective
<1>5. rank \in Surjection(places, 1..n)
  <2>1. IsFiniteSet(1..n) /\ Cardinality(1..n) = n
    BY <1>1, FS_Interval
  <2> QED BY <1>4, <2>1, FS_Injection
<1>6. ASSUME NEW m \in 1..n PROVE At(m) \in places /\ Cardinality(Below(At(m))) = m
  <2>1. \E i \in places : rank[i] = m
    BY <1>5 DEF Surjection
  <2>2. \E i \in places : Cardinality(Below(i)) = m
    BY <2>1
  <2> QED BY <2>2
<1>7. ASSUME NEW i \in places PROVE At(Cardinality(Below(i))) = i
  <2>1. Cardinality(Below(i)) \in 1..n
    BY <1>2
  <2>2. LET k == At(Cardinality(Below(i))) IN k \in places /\ Cardinality(Below(k)) = Cardinality(Below(i))
    BY <1>6, <2>1
  <2> QED BY <1>1, <1>2, <1>3, <2>2
<1>8. InOrder[S] = sorted
  BY Zenon DEF InOrder
<1>9. sorted \in [1..n -> S]
  BY <1>6
<1>10. sorted \in Seq(S) /\ DOMAIN sorted = 1..n
  BY <1>1, <1>9, IsSeq
<1>11. ASSUME NEW x \in S PROVE \E m \in 1..n : sorted[m] = x
  <2>1. PICK i \in places : Order[i] = x
    BY DEF Range
  <2>2. Cardinality(Below(i)) \in 1..n
    BY <1>2
  <2> QED BY <1>7, <2>1, <2>2
<1> HIDE DEF sorted
<1> QED BY <1>8, <1>9, <1>10, <1>11 DEF Range

\* The jobs made of a set of paths in order are those of its elements.
LEMMA MapInOrder ==
  ASSUME NEW S \in SUBSET Range(Order), NEW g, DOMAIN g = S
  PROVE  LET jobs == [i \in DOMAIN InOrder[S] |-> g[InOrder[S][i]]]
         IN  jobs \in Seq(Range(g)) /\ Range(jobs) = Range(g)
<1> DEFINE q == InOrder[S]
           jobs == [i \in DOMAIN q |-> g[q[i]]]
<1>1. q \in Seq(S) /\ Range(q) = S
  BY InOrderFact
<1> HIDE DEF q
<1>2. DOMAIN q = 1..Len(q) /\ Len(q) \in Nat /\ \A i \in DOMAIN q : q[i] \in S
  BY <1>1, LenProperties, ElementOfSeq
<1>3. jobs \in [1..Len(q) -> Range(g)]
  BY <1>2 DEF Range
<1>4. jobs \in Seq(Range(g))
  BY <1>2, <1>3, IsSeq
<1>5. Range(jobs) \subseteq Range(g)
  BY <1>2 DEF Range
<1>6. ASSUME NEW x \in S PROVE g[x] \in Range(jobs)
  <2>1. PICK i \in DOMAIN q : q[i] = x
    BY <1>1 DEF Range
  <2>2. jobs[i] = g[x] /\ i \in DOMAIN jobs
    BY <2>1
  <2> HIDE DEF jobs
  <2> QED BY <2>2 DEF Range
<1>7. Range(g) \subseteq Range(jobs)
  BY <1>6 DEF Range
<1>8. jobs \in Seq(Range(g)) /\ Range(jobs) = Range(g)
  BY <1>4, <1>5, <1>7
<1> QED BY <1>8 DEF q

----------------------------------------------------------------------------
(* Paths.                                                                  *)

\* The directories above a path, element by element.
LEMMA AboveFact ==
  ASSUME NEW S, NEW k \in Seq(S), NEW p
  PROVE  p \in Above(k) <=> /\ p \in Seq(S) /\ Len(p) \in 1..(Len(k) - 1)
                            /\ \A i \in 1..Len(p) : p[i] = k[i]
<1>0. Len(k) \in Nat
  BY LenProperties
<1>1. ASSUME NEW n \in 1..(Len(k) - 1)
      PROVE  /\ SubSeq(k, 1, n) \in Seq(S) /\ Len(SubSeq(k, 1, n)) = n
             /\ \A i \in 1..n : SubSeq(k, 1, n)[i] = k[i]
  <2>1. n \in Nat /\ n >= 1 /\ \A i \in 1..n : k[i] \in S
    BY <1>0, ElementOfSeq
  <2>2. /\ SubSeq(k, 1, n) \in Seq(S)
        /\ Len(SubSeq(k, 1, n)) = IF 1 <= n THEN n - 1 + 1 ELSE 0
        /\ \A i \in 1..(n - 1 + 1) : SubSeq(k, 1, n)[i] = k[1 + i - 1]
    BY <2>1, SubSeqProperties
  <2> QED BY <2>1, <2>2
<1>2. ASSUME p \in Above(k)
      PROVE  /\ p \in Seq(S) /\ Len(p) \in 1..(Len(k) - 1)
             /\ \A i \in 1..Len(p) : p[i] = k[i]
  <2>1. PICK n \in 1..(Len(k) - 1) : p = SubSeq(k, 1, n)
    BY <1>2 DEF Above
  <2> QED BY <1>1, <2>1
<1>3. ASSUME p \in Seq(S), Len(p) \in 1..(Len(k) - 1), \A i \in 1..Len(p) : p[i] = k[i]
      PROVE  p \in Above(k)
  <2>1. p = SubSeq(k, 1, Len(p))
    BY <1>1, <1>3, SeqEqual
  <2> QED BY <1>3, <2>1 DEF Above
<1> QED BY <1>2, <1>3

\* Of two directories above one path the shallower is above the deeper, and what is
\* above a directory is above all that is in it.
LEMMA AboveOrder ==
  ASSUME NEW S, NEW k \in Seq(S), NEW p \in Above(k)
  PROVE  /\ p \in Seq(S)
         /\ \A q \in Above(k) : Len(q) < Len(p) => q \in Above(p)
         /\ \A q \in Above(p) : q \in Above(k)
<1>1. /\ p \in Seq(S) /\ Len(p) \in 1..(Len(k) - 1) /\ Len(k) \in Nat
      /\ \A i \in 1..Len(p) : p[i] = k[i]
  BY AboveFact, LenProperties
<1>2. ASSUME NEW q \in Above(k), Len(q) < Len(p) PROVE q \in Above(p)
  <2>1. q \in Seq(S) /\ Len(q) \in 1..(Len(k) - 1) /\ \A i \in 1..Len(q) : q[i] = k[i]
    BY AboveFact
  <2>2. Len(q) \in 1..(Len(p) - 1) /\ \A i \in 1..Len(q) : q[i] = p[i]
    BY <1>1, <1>2, <2>1
  <2> QED BY <1>1, <2>1, <2>2, AboveFact
<1>3. ASSUME NEW q \in Above(p) PROVE q \in Above(k)
  <2>1. q \in Seq(S) /\ Len(q) \in 1..(Len(p) - 1) /\ \A i \in 1..Len(q) : q[i] = p[i]
    BY <1>1, AboveFact
  <2>2. Len(q) \in 1..(Len(k) - 1) /\ \A i \in 1..Len(q) : q[i] = k[i]
    BY <1>1, <2>1
  <2> QED BY <2>1, <2>2, AboveFact
<1> QED BY <1>1, <1>2, <1>3

\* Folding a path folds its names and nothing else.
LEMMA FoldedFact ==
  ASSUME NEW p \in Paths
  PROVE  /\ Folded(p) \in Seq(Range(Fold)) /\ Len(Folded(p)) = Len(p)
         /\ \A i \in 1..Len(p) : Folded(p)[i] = Fold[p[i]]
<1>1. Len(p) \in Nat /\ DOMAIN p = 1..Len(p) /\ \A i \in 1..Len(p) : p[i] \in DOMAIN Fold
  BY LenProperties, ElementOfSeq DEF Paths
<1>2. Folded(p) = [i \in 1..Len(p) |-> Fold[p[i]]]
  BY <1>1 DEF Folded
<1>3. Folded(p) \in [1..Len(p) -> Range(Fold)]
  BY <1>1, <1>2 DEF Range
<1> QED BY <1>1, <1>2, <1>3, IsSeq

LEMMA AboveFolded ==
  ASSUME NEW k \in Paths, NEW p \in Above(k)
  PROVE  Folded(p) \in Above(Folded(k))
<1>1. /\ p \in Paths /\ Len(p) \in 1..(Len(k) - 1) /\ Len(k) \in Nat
      /\ \A i \in 1..Len(p) : p[i] = k[i]
  BY AboveFact, LenProperties DEF Paths
<1>2. /\ Folded(p) \in Seq(Range(Fold)) /\ Len(Folded(p)) = Len(p)
      /\ \A i \in 1..Len(p) : Folded(p)[i] = Fold[p[i]]
  BY <1>1, FoldedFact
<1>3. /\ Folded(k) \in Seq(Range(Fold)) /\ Len(Folded(k)) = Len(k)
      /\ \A i \in 1..Len(k) : Folded(k)[i] = Fold[k[i]]
  BY FoldedFact
<1>4. /\ Len(Folded(p)) \in 1..(Len(Folded(k)) - 1)
      /\ \A i \in 1..Len(Folded(p)) : Folded(p)[i] = Folded(k)[i]
  BY <1>1, <1>2, <1>3
<1> QED BY <1>2, <1>3, <1>4, AboveFact

\* Keys and the directories above them.
LEMMA KeyPaths ==
  ASSUME NEW k \in Keys
  PROVE  /\ k \in Paths /\ k \in Range(Order)
         /\ \A p \in Above(k) : p \in Paths /\ p \in Range(Order) /\ p \in Dirs
         /\ Front(k) # << >> => Front(k) \in Above(k)
<1>1. \A p \in Range(Order) : p \in Paths
  <2>1. Order \in Seq(Paths)
    BY KeysAssumption DEF Paths
  <2>2. DOMAIN Order = 1..Len(Order) /\ \A i \in 1..Len(Order) : Order[i] \in Paths
    BY <2>1, ElementOfSeq, LenProperties
  <2> QED BY <2>2 DEF Range
<1>2. k \in Paths /\ k \in Range(Order) /\ Above(k) \subseteq Range(Order) /\ k # << >>
  BY <1>1, KeysAssumption
<1>3. \A p \in Above(k) : p \in Dirs
  BY DEF Dirs
<1>4. ASSUME Front(k) # << >> PROVE Front(k) \in Above(k)
  <2>1. Len(k) \in Nat /\ k \in Seq(DOMAIN Fold)
    BY <1>2, LenProperties DEF Paths
  <2>2. ~(Len(k) - 1 < 1)
    BY <1>4, <2>1, SubSeqEmpty DEF Front
  <2> QED BY <2>1, <2>2 DEF Above, Front
<1> QED BY <1>1, <1>2, <1>3, <1>4

\* No folder is a file, and a file is that of one key.
LEMMA ItemFact ==
  ASSUME NEW k \in Keys
  PROVE  /\ \A p, n : Item(k) # <<p, n>>
         /\ \A j \in Keys : Item(j) = Item(k) => j = k
BY DEF Item

----------------------------------------------------------------------------
(* The inductive invariant.                                                *)

\* What no stage of this run may take.
Wanted(k) == kind[k] \in {"kept", "protected"}
             \/ (kind[k] = "excluded" /\ "excluded" \notin Range(stages))
Unwanted == {k \in Keys : ~Wanted(k)}

\* A folder job is above all of its keys, has the id of a folder of its path, and no
\* wanted path goes through it, whatever its case.
FolderFits(job) ==
  /\ \E j \in Keys : Front(j) = job.path /\ job.id = ParentId(j)
  /\ \A k \in job.keys : job.path \in Above(k)
  /\ \A k \in Keys : Wanted(k) => Folded(job.path) \notin Above(Folded(k))
FileFits(job) == \E k \in Keys : job.id = Item(k) /\ job.keys = {k}
Jobs ==
  {job \in [path : Range(Order), id : Items, keys : SUBSET Unwanted, folder : BOOLEAN] :
     job.keys # {} /\ IF job.folder THEN FolderFits(job) ELSE FileFits(job)}

\* The recorded ids are those of folders of the paths they are recorded for.
Fit(ids) == \A p \in DOMAIN ids : \E k \in Keys : Front(k) = p /\ ids[p] = ParentId(k)

StageLists == {<<"missing", "excluded">>, <<"missing">>, <<"excluded">>}
Types ==
  /\ kind \in [Keys -> AllKinds] /\ copy \in [Keys -> Nat]
  /\ stages \in StageLists /\ stage \in StageLists \cup {<< >>}
  /\ Range(stage) \subseteq Range(stages)
  /\ trashed \subseteq Items /\ mem \subseteq disk /\ disk \subseteq Keys
  /\ pc \in {"group", "trash", "ended"}
  /\ targets \subseteq Keys /\ failed \subseteq Keys
  /\ pending \in Seq(Jobs) /\ retry \in Seq(Jobs)
  /\ outcome \in [DOMAIN pending -> {"queued", "done", "refused", "error"}]
  /\ applied \in 0..Len(pending)
  /\ Fit(known)
  /\ left \in [{"fault", "stop"} -> Nat] /\ left.fault <= FaultMax

WantedStay == \A k \in Keys : Wanted(k) => k \in mem

\* What an outcome says of its job.
Outcomes ==
  \A i \in DOMAIN pending :
    /\ outcome[i] = "done" => pending[i].id \in trashed
    /\ outcome[i] = "refused" => pending[i].folder
    /\ outcome[i] = "error" => left.fault < FaultMax
FailedFits == left.fault = FaultMax => \A k \in failed : kind[k] = "unnamed"

\* The keys of the jobs whose outcome is still to be applied, or to be retried.
Waiting ==
  {k \in Keys : \/ \E i \in DOMAIN pending : i > applied /\ k \in pending[i].keys
                \/ \E job \in Range(retry) : k \in job.keys}
Settled ==
  /\ \A s \in Range(stages) \ Range(stage) : Targets(s) \subseteq failed
  /\ pc = "trash" => stage # << >> /\ Targets(Head(stage)) \subseteq failed \cup Waiting
  /\ pc = "ended" => stage = << >>

IInv ==
  /\ Types
  /\ WantedStay /\ KeptStays
  /\ Outcomes /\ FailedFits
  /\ DroppedIsTrashed
  /\ Settled

----------------------------------------------------------------------------
(* The jobs.                                                               *)

\* While the world stands, a job that fits goes on fitting.
LEMMA JobsStay ==
  ASSUME UNCHANGED world
  PROVE  /\ Jobs' = Jobs /\ Items' = Items /\ Unwanted' = Unwanted
         /\ \A k \in Keys : Wanted(k)' <=> Wanted(k)
<1>1. kind' = kind /\ copy' = copy /\ stages' = stages
  BY DEF world
<1>2. \A k \in Keys : Wanted(k)' <=> Wanted(k)
  BY <1>1 DEF Wanted
<1>3. Items' = Items /\ Unwanted' = Unwanted
  BY <1>1, <1>2 DEF Items, Unwanted, Item, DriveFolders
<1>4. \A job : FolderFits(job)' <=> FolderFits(job)
  BY <1>1, <1>2 DEF FolderFits, ParentId
<1>5. \A job : FileFits(job)' <=> FileFits(job)
  BY <1>1 DEF FileFits, Item
<1> QED BY <1>2, <1>3, <1>4, <1>5 DEF Jobs

\* The ids recorded for the files of a set are those of the folders they are in.
LEMMA IdsFit ==
  ASSUME NEW S \in SUBSET Keys, NEW ids \in IdsOf(S)
  PROVE  Fit(ids)
BY DEF IdsOf, Fit

\* What is asked of a folder for a job of it to fit.
LEMMA FolderJobFits ==
  ASSUME copy \in [Keys -> Nat],
         NEW ids, Fit(ids), NEW p \in DOMAIN ids,
         NEW K \in SUBSET Unwanted, K # {}, \A k \in K : p \in Above(k),
         \A k \in Keys : Wanted(k) => Folded(p) \notin Above(Folded(k))
  PROVE  FolderJob(p, ids[p], K) \in Jobs
<1> DEFINE job == FolderJob(p, ids[p], K)
<1>1. PICK j \in Keys : Front(j) = p /\ ids[p] = ParentId(j)
  BY DEF Fit
<1>2. p \in Range(Order) /\ p \in Dirs
  BY KeyPaths DEF Unwanted
<1>3. ids[p] \in Items
  BY <1>1, <1>2 DEF Items, DriveFolders, ParentId, Range
<1>4. job = [path |-> p, id |-> ids[p], keys |-> K, folder |-> TRUE]
  BY DEF FolderJob
<1>5. /\ job \in [path : Range(Order), id : Items, keys : SUBSET Unwanted, folder : BOOLEAN]
      /\ job.path = p /\ job.id = ids[p] /\ job.keys = K /\ job.folder
  BY <1>2, <1>3, <1>4
<1> HIDE DEF job
<1>6. FolderFits(job)
  BY <1>1, <1>5 DEF FolderFits
<1>7. job \in Jobs
  BY <1>5, <1>6 DEF Jobs
<1> QED BY <1>7 DEF job

\* The file jobs of unwanted keys fit, and are about all that have an id.
LEMMA FileJobsFit ==
  ASSUME NEW S \in SUBSET Unwanted
  PROVE  /\ FileJobs(S) \in Seq(Jobs)
         /\ \A k \in S : kind[k] # "unnamed" => \E job \in Range(FileJobs(S)) : k \in job.keys
<1> DEFINE U == {k \in S : kind[k] # "unnamed"}
           g == [k \in U |-> FileJob(k)]
           jobs == [i \in DOMAIN InOrder[U] |-> g[InOrder[U][i]]]
<1>1. U \in SUBSET Range(Order) /\ DOMAIN g = U
  BY KeyPaths DEF Unwanted
<1>2. jobs \in Seq(Range(g)) /\ Range(jobs) = Range(g)
  <2> HIDE DEF U, g
  <2> QED BY <1>1, MapInOrder
<1>3. \A i \in DOMAIN InOrder[U] : InOrder[U][i] \in U
  BY <1>1, InOrderFact, LenProperties, ElementOfSeq
<1>4. FileJobs(S) = jobs
  BY <1>3 DEF FileJobs
<1>5. ASSUME NEW k \in U PROVE FileJob(k) \in Jobs /\ k \in FileJob(k).keys
  <2> DEFINE job == FileJob(k)
  <2>1. job = [path |-> k, id |-> Item(k), keys |-> {k}, folder |-> FALSE]
    BY DEF FileJob
  <2>2. k \in Range(Order) /\ k \in Keys /\ k \in Unwanted /\ Item(k) \in Items
    BY KeyPaths DEF Items, Unwanted
  <2>3. /\ job \in [path : Range(Order), id : Items, keys : SUBSET Unwanted, folder : BOOLEAN]
        /\ job.id = Item(k) /\ job.keys = {k} /\ ~job.folder
    BY <2>1, <2>2
  <2> HIDE DEF job
  <2>4. job \in Jobs /\ k \in job.keys
    BY <2>2, <2>3 DEF Jobs, FileFits
  <2> QED BY <2>4 DEF job
<1>6. Range(g) \subseteq Jobs
  BY <1>5 DEF Range
<1>7. ASSUME NEW k \in S, kind[k] # "unnamed" PROVE \E job \in Range(g) : k \in job.keys
  BY <1>5, <1>7 DEF Range
<1> HIDE DEF jobs, g
<1> QED BY <1>2, <1>4, <1>6, <1>7

\* The folder jobs of a set of directories, each about its own keys.
JobsOf(U, ids, under) ==
  [i \in DOMAIN InOrder[U] |-> FolderJob(InOrder[U][i], ids[InOrder[U][i]], under[InOrder[U][i]])]

\* They fit if each of them does.
LEMMA FolderJobsFit ==
  ASSUME NEW U, NEW ids, NEW under,
         copy \in [Keys -> Nat], Fit(ids), U \subseteq DOMAIN ids,
         \A p \in U : /\ under[p] \in SUBSET Unwanted /\ under[p] # {}
                      /\ \A k \in under[p] : p \in Above(k)
                      /\ \A k \in Keys : Wanted(k) => Folded(p) \notin Above(Folded(k))
  PROVE  /\ JobsOf(U, ids, under) \in Seq(Jobs)
         /\ \A p \in U : \E job \in Range(JobsOf(U, ids, under)) : job.keys = under[p]
<1> DEFINE g == [p \in U |-> FolderJob(p, ids[p], under[p])]
           jobs == [i \in DOMAIN InOrder[U] |-> g[InOrder[U][i]]]
<1>1. U \in SUBSET Range(Order) /\ DOMAIN g = U
  BY KeyPaths DEF Unwanted
<1>2. jobs \in Seq(Range(g)) /\ Range(jobs) = Range(g)
  <2> HIDE DEF g
  <2> QED BY <1>1, MapInOrder
<1>3. \A i \in DOMAIN InOrder[U] : InOrder[U][i] \in U
  BY <1>1, InOrderFact, LenProperties, ElementOfSeq
<1>4. jobs = JobsOf(U, ids, under)
  BY <1>3 DEF JobsOf
<1>5. ASSUME NEW p \in U PROVE g[p] \in Jobs /\ g[p].keys = under[p]
  <2>1. FolderJob(p, ids[p], under[p]) \in Jobs
    BY FolderJobFits
  <2>2. FolderJob(p, ids[p], under[p]).keys = under[p]
    BY DEF FolderJob
  <2> QED BY <2>1, <2>2
<1>6. Range(g) \subseteq Jobs
  BY <1>1, <1>5 DEF Range
<1>7. \A p \in U : \E job \in Range(g) : job.keys = under[p]
  BY <1>1, <1>5 DEF Range
<1>8. jobs \in Seq(Jobs) /\ \A p \in U : \E job \in Range(jobs) : job.keys = under[p]
  <2> HIDE DEF jobs, g
  <2> QED BY <1>2, <1>6, <1>7
<1> QED BY <1>4, <1>8

\* What the stages aim at is in the manifest and not wanted.
LEMMA TargetsUnwanted ==
  ASSUME Types, NEW s \in Range(stages)
  PROVE  s \in {"missing", "excluded"} /\ Targets(s) \subseteq mem /\ Targets(s) \subseteq Unwanted
<1>1. s \in {"missing", "excluded"}
  <2>1. Range(<<"missing", "excluded">>) = {"missing", "excluded"}
        /\ Range(<<"missing">>) = {"missing"} /\ Range(<<"excluded">>) = {"excluded"}
    BY DEF Range
  <2> QED BY <2>1 DEF Types, StageLists
<1>2. mem \subseteq Keys
  BY DEF Types
<1>3. \A k \in Targets(s) : k \in mem /\ ~Wanted(k)
  BY <1>1 DEF Targets, Wanted, Gone
<1> QED BY <1>1, <1>2, <1>3 DEF Unwanted, Targets

\* A stage's first round of jobs fits, and is about all of its targets but those it
\* counts as failed.
LEMMA GroupJobs ==
  ASSUME Types, WantedStay, NEW s \in Range(stages),
         NEW ids \in IdsOf({k \in mem : k \in Targets(s) \/ kind[k] \in Marked})
  PROVE  LET T == Targets(s)
             dirs == Trashable(T, ids)
             singles == {k \in T : FolderFor(k, dirs) = {}}
             jobs == FolderJobs(T, dirs, ids) \o FileJobs(singles)
         IN  /\ jobs \in Seq(Jobs)
             /\ \A k \in T : \/ k \in singles /\ kind[k] = "unnamed"
                             \/ \E job \in Range(jobs) : k \in job.keys
<1> DEFINE T == Targets(s)
           dirs == Trashable(T, ids)
           singles == {k \in T : FolderFor(k, dirs) = {}}
           U == UNION {FolderFor(k, dirs) : k \in T}
           Under(p) == {k \in mem : p \in FolderFor(k, dirs)
                                    /\ (k \in T \/ kind[k] \in Marked)}
           under == [p \in U |-> Under(p)]
           folders == JobsOf(U, ids, under)
<1>1. T \subseteq mem /\ T \subseteq Unwanted /\ mem \subseteq Keys /\ copy \in [Keys -> Nat]
  BY TargetsUnwanted DEF Types
<1>2. Fit(ids)
  BY <1>1, IdsFit
<1>3. dirs \subseteq DOMAIN ids /\ \A p \in dirs : Folded(p) \notin KeepDirs(T)
  BY DEF Trashable
<1>4. ASSUME NEW k \in Keys, Wanted(k) PROVE k \in mem \ T /\ kind[k] \notin Marked
  BY <1>1, <1>4 DEF WantedStay, Wanted, Marked, Unwanted
<1>5. ASSUME NEW p \in dirs, NEW k \in Keys, Wanted(k)
      PROVE  Folded(p) \notin Above(Folded(k))
  BY <1>3, <1>4, <1>5 DEF KeepDirs
<1>6. ASSUME NEW k, NEW p \in FolderFor(k, dirs) PROVE p \in dirs /\ p \in Above(k)
  BY DEF FolderFor
<1>7. ASSUME NEW p, NEW k \in Under(p) PROVE k \in Unwanted /\ p \in Above(k)
  <2>1. kind[k] \in Marked => ~Wanted(k)
    BY DEF Marked, Wanted
  <2> QED BY <1>1, <1>6, <2>1 DEF Unwanted
<1>8. ASSUME NEW p \in U PROVE p \in dirs /\ \E k \in T : k \in Under(p)
  BY <1>1, <1>6
<1>9. U \subseteq DOMAIN ids
  BY <1>3, <1>8
<1>10. \A p \in U : /\ under[p] \in SUBSET Unwanted /\ under[p] # {}
                    /\ \A k \in under[p] : p \in Above(k)
                    /\ \A k \in Keys : Wanted(k) => Folded(p) \notin Above(Folded(k))
  <2> HIDE DEF Under, U, dirs
  <2> QED BY <1>5, <1>7, <1>8
<1>11. folders \in Seq(Jobs) /\ \A p \in U : \E job \in Range(folders) : job.keys = under[p]
  <2> HIDE DEF U, under
  <2> QED BY <1>1, <1>2, <1>9, <1>10, FolderJobsFit
<1>12. U \subseteq Range(Order) /\ \A i \in DOMAIN InOrder[U] : InOrder[U][i] \in U
  <2>1. U \subseteq Range(Order)
    BY <1>1, <1>6, KeyPaths
  <2> HIDE DEF U
  <2> QED BY <2>1, InOrderFact, LenProperties, ElementOfSeq
<1>13. FolderJobs(T, dirs, ids) = folders
  <2>1. \A i \in DOMAIN InOrder[U] : under[InOrder[U][i]] = Under(InOrder[U][i])
    BY <1>12
  <2> HIDE DEF T, dirs
  <2> QED BY <2>1 DEF FolderJobs, JobsOf
<1>14. /\ FileJobs(singles) \in Seq(Jobs)
       /\ \A k \in singles : kind[k] # "unnamed" => \E job \in Range(FileJobs(singles)) : k \in job.keys
  BY <1>1, FileJobsFit
<1>15. /\ folders \o FileJobs(singles) \in Seq(Jobs)
       /\ Range(folders \o FileJobs(singles)) = Range(folders) \cup Range(FileJobs(singles))
  <2> HIDE DEF folders, singles
  <2> QED BY <1>11, <1>14, RangeConcat
<1>16. ASSUME NEW k \in T, k \notin singles PROVE \E job \in Range(folders) : k \in job.keys
  <2>1. PICK p \in FolderFor(k, dirs) : TRUE
    BY <1>16
  <2>2. p \in U /\ k \in under[p]
    BY <1>1
  <2> QED BY <1>11, <2>2
<1> HIDE DEF folders, singles, T, dirs
<1>17. /\ folders \o FileJobs(singles) \in Seq(Jobs)
       /\ \A k \in T : \/ k \in singles /\ kind[k] = "unnamed"
                       \/ \E job \in Range(folders \o FileJobs(singles)) : k \in job.keys
  BY <1>14, <1>15, <1>16
<1> QED BY <1>13, <1>17 DEF singles, T, dirs

\* A refused folder job is split into jobs that fit and are about all of its keys but
\* those that count as failed.
LEMMA SplitJobsFit ==
  ASSUME Types, NEW job \in Jobs, job.folder, NEW ids, Fit(ids)
  PROVE  /\ SplitJobs(job, ids) \in Seq(Jobs)
         /\ \A k \in job.keys :
              \/ kind[k] = "unnamed" /\ Pieces(job, k, ids) = {}
              \/ \E j \in Range(SplitJobs(job, ids)) : k \in j.keys
<1> DEFINE singles == {k \in job.keys : Pieces(job, k, ids) = {}}
           U == UNION {Pieces(job, k, ids) : k \in job.keys}
           Under(p) == {k \in job.keys : p \in Pieces(job, k, ids)}
           under == [p \in U |-> Under(p)]
           folders == JobsOf(U, ids, under)
<1>1. job.keys \subseteq Unwanted /\ FolderFits(job) /\ copy \in [Keys -> Nat]
  BY DEF Jobs, Types
<1>2. ASSUME NEW k \in job.keys, NEW p \in Pieces(job, k, ids)
      PROVE  p \in Above(k) /\ p \in DOMAIN ids /\ Len(p) > Len(job.path)
  BY DEF Pieces
<1>3. ASSUME NEW k \in job.keys, NEW p \in Pieces(job, k, ids), NEW w \in Keys, Wanted(w)
      PROVE  Folded(p) \notin Above(Folded(w))
  <2>1. k \in Paths /\ w \in Paths /\ p \in Paths /\ p \in Above(k) /\ job.path \in Above(k)
    BY <1>1, <1>2, KeyPaths DEF FolderFits, Unwanted
  <2>2. job.path \in Paths /\ Len(job.path) < Len(p)
    <3>1. job.path \in Paths
      BY <2>1, AboveFact DEF Paths
    <3> QED BY <1>2, <2>1, <3>1, LenProperties DEF Paths
  <2>3. job.path \in Above(p)
    BY <2>1, <2>2, AboveOrder DEF Paths
  <2>4. Folded(job.path) \in Above(Folded(p))
    BY <2>1, <2>3, AboveFolded
  <2>5. Folded(w) \in Seq(Range(Fold))
    BY <2>1, FoldedFact
  <2>6. Folded(p) \in Above(Folded(w)) => Folded(job.path) \in Above(Folded(w))
    BY <2>4, <2>5, AboveOrder
  <2> QED BY <1>1, <1>3, <2>6 DEF FolderFits
<1>4. U \subseteq DOMAIN ids
  BY <1>2
<1>5. \A p \in U : /\ under[p] \in SUBSET Unwanted /\ under[p] # {}
                   /\ \A k \in under[p] : p \in Above(k)
                   /\ \A k \in Keys : Wanted(k) => Folded(p) \notin Above(Folded(k))
  BY <1>1, <1>2, <1>3
<1>6. folders \in Seq(Jobs) /\ \A p \in U : \E j \in Range(folders) : j.keys = under[p]
  <2> HIDE DEF U, under
  <2> QED BY <1>1, <1>4, <1>5, FolderJobsFit
<1>7. U \subseteq Range(Order) /\ \A i \in DOMAIN InOrder[U] : InOrder[U][i] \in U
  <2>1. U \subseteq Range(Order)
    BY <1>1, <1>2, KeyPaths DEF Unwanted
  <2> HIDE DEF U
  <2> QED BY <2>1, InOrderFact, LenProperties, ElementOfSeq
<1>8. /\ FileJobs(singles) \in Seq(Jobs)
      /\ \A k \in singles : kind[k] # "unnamed" => \E j \in Range(FileJobs(singles)) : k \in j.keys
  BY <1>1, FileJobsFit
<1>9. /\ FileJobs(singles) \o folders \in Seq(Jobs)
      /\ Range(FileJobs(singles) \o folders) = Range(folders) \cup Range(FileJobs(singles))
  <2> HIDE DEF folders, singles
  <2> QED BY <1>6, <1>8, RangeConcat
<1>10. SplitJobs(job, ids) = FileJobs(singles) \o folders
  <2>1. \A i \in DOMAIN InOrder[U] : under[InOrder[U][i]] = Under(InOrder[U][i])
    BY <1>7
  <2> QED BY <2>1 DEF SplitJobs, JobsOf
<1>11. ASSUME NEW k \in job.keys, k \notin singles PROVE \E j \in Range(folders) : k \in j.keys
  <2>1. PICK p \in Pieces(job, k, ids) : TRUE
    BY <1>11
  <2>2. p \in U /\ k \in under[p]
    OBVIOUS
  <2> QED BY <1>6, <2>2
<1>12. ASSUME NEW k \in job.keys
       PROVE  \/ kind[k] = "unnamed" /\ k \in singles
              \/ \E j \in Range(FileJobs(singles) \o folders) : k \in j.keys
  <2> HIDE DEF folders, singles
  <2> QED BY <1>8, <1>9, <1>11
<1> HIDE DEF folders
<1> QED BY <1>9, <1>10, <1>12

----------------------------------------------------------------------------
(* The steps.                                                              *)

\* No job takes anything along that is wanted.
LEMMA JobIsSafe ==
  ASSUME NEW job \in Jobs, NEW k \in Keys, Wanted(k)
  PROVE  job.id \notin {Item(k)} \cup Around(k)
<1>1. CASE job.folder
  <2>1. FolderFits(job)
    BY <1>1 DEF Jobs
  <2>2. PICK j \in Keys : Front(j) = job.path /\ job.id = ParentId(j)
    BY <2>1 DEF FolderFits
  <2>3. job.id = <<Folded(job.path), copy[j]>>
    BY <2>2 DEF ParentId
  <2>4. ASSUME NEW p \in Above(k) PROVE job.id # <<Folded(p), copy[k]>>
    <3>1. Folded(p) \in Above(Folded(k))
      BY KeyPaths, AboveFolded
    <3>2. Folded(p) # Folded(job.path)
      BY <2>1, <3>1 DEF FolderFits
    <3> QED BY <2>3, <3>2
  <2> QED BY <2>3, <2>4, ItemFact DEF Around
<1>2. CASE ~job.folder
  <2>1. PICK j \in Keys : job.id = Item(j) /\ job.keys = {j}
    BY <1>2 DEF Jobs, FileFits
  <2>2. j # k
    BY <2>1 DEF Jobs, Unwanted
  <2> QED BY <2>1, <2>2, ItemFact DEF Around
<1> QED BY <1>1, <1>2

\* A job that was done took the copies of its keys along.
LEMMA JobTakes ==
  ASSUME NEW job \in Jobs, job.id \in trashed, NEW k \in job.keys, ~HasTwin(k)
  PROVE  ~IsLive(k)
<1>1. CASE job.folder
  <2>1. FolderFits(job) /\ k \in Keys
    BY <1>1 DEF Jobs, Unwanted
  <2>2. PICK j \in Keys : Front(j) = job.path /\ job.id = ParentId(j)
    BY <2>1 DEF FolderFits
  <2>3. job.path \in Above(k) /\ job.id = <<Folded(job.path), copy[j]>>
    BY <2>1, <2>2 DEF FolderFits, ParentId
  <2>4. job.path \in Above(j)
    <3>1. job.path # << >>
      <4>1. k \in Seq(DOMAIN Fold)
        BY <2>1, KeyPaths DEF Paths
      <4>2. Len(job.path) \in 1..(Len(k) - 1)
        BY <2>3, <4>1, AboveFact
      <4> QED BY <4>2
    <3> QED BY <2>2, <3>1, KeyPaths
  <2>5. copy[j] = copy[k]
    <3>1. <<Folded(job.path), copy[j]>> \in Around(j) /\ <<Folded(job.path), copy[k]>> \in Around(k)
      BY <2>3, <2>4 DEF Around
    <3>2. /\ Folded(job.path) \in {f[1] : f \in Around(j)}
          /\ Folded(job.path) \in {f[1] : f \in Around(k)}
      <4>1. <<Folded(job.path), copy[j]>>[1] = Folded(job.path)
            /\ <<Folded(job.path), copy[k]>>[1] = Folded(job.path)
        OBVIOUS
      <4> HIDE DEF Folded
      <4> QED BY <3>1, <4>1
    <3>3. {f[1] : f \in Around(j)} \cap {f[1] : f \in Around(k)} # {}
      BY <3>2
    <3> QED BY <3>3 DEF HasTwin
  <2>6. job.id \in Around(k)
    BY <2>3, <2>5 DEF Around
  <2> QED BY <2>6 DEF IsLive
<1>2. CASE ~job.folder
  <2>1. job.id = Item(k)
    BY <1>2 DEF Jobs, FileFits
  <2> QED BY <2>1 DEF IsLive
<1> QED BY <1>1, <1>2

LEMMA InitInv == Init => IInv
<1> SUFFICES ASSUME Init PROVE IInv
  OBVIOUS
<1>1. copy \in [Keys -> Nat]
  <2>1. UNION Range(Copies) \subseteq Nat
    BY CopiesAssumption DEF Range
  <2> QED BY <2>1 DEF Init
<1>2. mem = {k \in Keys : kind[k] # "untracked"} /\ disk = mem
  BY DEF Init
<1>3. Types
  <2>1. << >> \in Seq(Jobs) /\ Len(<< >>) = 0 /\ DOMAIN << >> = {} /\ 0 \in 0..0
    OBVIOUS
  <2>2. kind \in [Keys -> AllKinds]
    BY DEF Init
  <2>3. outcome \in [DOMAIN pending -> {"queued", "done", "refused", "error"}]
    BY <2>1 DEF Init
  <2>4. left \in [{"fault", "stop"} -> Nat] /\ left.fault <= FaultMax
    BY BoundsAssumption DEF Init
  <2>5. stages \in StageLists /\ stage = stages
    BY DEF Init, StageLists
  <2>6. Fit(known)
    BY DEF Init, Fit
  <2>7. pc \in {"group", "trash", "ended"} /\ trashed \subseteq Items
        /\ targets \subseteq Keys /\ failed \subseteq Keys /\ pending = << >> /\ retry = << >>
        /\ applied = 0
    BY DEF Init
  <2> QED BY <1>1, <1>2, <2>1, <2>2, <2>3, <2>4, <2>5, <2>6, <2>7 DEF Types
<1>4. WantedStay
  BY <1>2 DEF WantedStay, Wanted
<1>5. KeptStays
  BY DEF Init, KeptStays, IsLive
<1>6. Outcomes /\ FailedFits
  BY DEF Init, Outcomes, FailedFits
<1>7. DroppedIsTrashed
  BY <1>2 DEF DroppedIsTrashed
<1>8. Settled
  BY DEF Init, Settled
<1> QED BY <1>3, <1>4, <1>5, <1>6, <1>7, <1>8 DEF IInv

\* Submitted jobs are all queued, and all of their keys wait.
LEMMA SubmitFits ==
  ASSUME NEW jobs \in Seq(Jobs), Submit(jobs)
  PROVE  /\ pending' = jobs /\ retry' = << >> /\ retry' \in Seq(Jobs)
         /\ outcome' \in [DOMAIN pending' -> {"queued", "done", "refused", "error"}]
         /\ applied' \in 0..Len(pending')
         /\ \A i \in DOMAIN pending' : outcome'[i] = "queued"
         /\ \A job \in Range(jobs) : job.keys \subseteq Waiting'
<1>1. pending' = jobs /\ outcome' = [i \in DOMAIN jobs |-> "queued"] /\ applied' = 0 /\ retry' = << >>
  BY DEF Submit
<1>2. Len(jobs) \in Nat /\ DOMAIN jobs = 1..Len(jobs)
  BY LenProperties
<1>3. ASSUME NEW job \in Range(jobs) PROVE job.keys \subseteq Waiting'
  <2>1. PICK i \in DOMAIN jobs : jobs[i] = job
    BY DEF Range
  <2>2. i > 0 /\ job \in Jobs
    BY <1>2, <2>1, ElementOfSeq
  <2>3. job.keys \subseteq Keys
    BY <2>2 DEF Jobs, Unwanted
  <2> QED BY <1>1, <2>1, <2>2, <2>3 DEF Waiting
<1> QED BY <1>1, <1>2, <1>3

\* What only the world, the manifest and Drive's trash decide.
LEMMA SameTrash ==
  ASSUME IInv, UNCHANGED world, trashed' = trashed, mem \subseteq mem'
  PROVE  WantedStay' /\ KeptStays' /\ DroppedIsTrashed'
<1>1. kind' = kind /\ copy' = copy /\ stages' = stages
  BY DEF world
<1>2. \A k \in Keys : (IsLive(k)' <=> IsLive(k)) /\ (HasTwin(k)' <=> HasTwin(k)) /\ (Wanted(k)' <=> Wanted(k))
  BY <1>1 DEF IsLive, HasTwin, Item, Around, Wanted
<1>3. WantedStay'
  BY <1>2 DEF IInv, WantedStay
<1>4. KeptStays'
  BY <1>1, <1>2 DEF IInv, KeptStays
<1>5. DroppedIsTrashed'
  BY <1>1, <1>2 DEF IInv, DroppedIsTrashed
<1> QED BY <1>3, <1>4, <1>5

LEMMA GroupInv ==
  ASSUME IInv, Group
  PROVE  IInv'
<1> DEFINE s == Head(stage)
           T == Targets(s)
<1>1. /\ pc = "group" /\ stage # << >> /\ pc' = "trash" /\ known' = << >>
      /\ UNCHANGED <<world, trashed, mem, disk, stage, left>>
  BY DEF Group
<1>2. Types /\ WantedStay /\ Settled /\ FailedFits
  BY DEF IInv
<1>3. s \in Range(stage) /\ s \in Range(stages)
  <2>1. stage \in StageLists
    BY <1>1, <1>2 DEF Types
  <2>2. s \in Range(stage)
    BY <2>1 DEF StageLists, Range
  <2> QED BY <1>2, <2>2 DEF Types
<1>4. PICK ids \in IdsOf({k \in mem : k \in T \/ kind[k] \in Marked}) :
        LET dirs == Trashable(T, ids)
            singles == {k \in T : FolderFor(k, dirs) = {}}
        IN  /\ targets' = T
            /\ Submit(FolderJobs(T, dirs, ids) \o FileJobs(singles))
            /\ failed' = failed \cup {k \in singles : kind[k] = "unnamed"}
  BY DEF Group
<1> DEFINE dirs == Trashable(T, ids)
           singles == {k \in T : FolderFor(k, dirs) = {}}
           jobs == FolderJobs(T, dirs, ids) \o FileJobs(singles)
<1>5. /\ jobs \in Seq(Jobs)
      /\ \A k \in T : \/ k \in singles /\ kind[k] = "unnamed"
                      \/ \E job \in Range(jobs) : k \in job.keys
  <2> HIDE DEF s
  <2> QED BY <1>2, <1>3, <1>4, GroupJobs
<1>6. /\ targets' = T /\ Submit(jobs)
      /\ failed' = failed \cup {k \in singles : kind[k] = "unnamed"}
  BY <1>4
<1>7. T \subseteq mem /\ singles \subseteq T
  BY <1>2, <1>3, TargetsUnwanted
<1> HIDE DEF jobs, singles
<1>8. /\ pending' = jobs /\ retry' \in Seq(Jobs)
      /\ outcome' \in [DOMAIN pending' -> {"queued", "done", "refused", "error"}]
      /\ applied' \in 0..Len(pending')
      /\ \A i \in DOMAIN pending' : outcome'[i] = "queued"
      /\ \A job \in Range(jobs) : job.keys \subseteq Waiting'
  BY <1>5, <1>6, SubmitFits
<1>9. /\ kind' = kind /\ copy' = copy /\ stages' = stages
      /\ stage' = stage /\ trashed' = trashed /\ mem' = mem /\ disk' = disk /\ left' = left
      /\ Jobs' = Jobs /\ Items' = Items
  BY <1>1, JobsStay DEF world
<1>10. Types'
  <2>1. targets' \subseteq Keys /\ failed' \subseteq Keys
    BY <1>2, <1>6, <1>7 DEF Types
  <2>2. Fit(known)'
    BY <1>1 DEF Fit
  <2>3. pending' \in Seq(Jobs') /\ retry' \in Seq(Jobs')
    BY <1>5, <1>8, <1>9
  <2> QED BY <1>1, <1>2, <1>8, <1>9, <2>1, <2>2, <2>3 DEF Types
<1>11. WantedStay' /\ KeptStays' /\ DroppedIsTrashed'
  BY <1>1, <1>9, SameTrash
<1>12. Outcomes' /\ FailedFits'
  BY <1>2, <1>6, <1>8, <1>9 DEF Outcomes, FailedFits
<1>13. Settled'
  <2>1. \A r : Targets(r)' = Targets(r)
    BY <1>9 DEF Targets
  <2>2. T \subseteq failed' \cup Waiting'
    BY <1>5, <1>6, <1>8
  <2>3. failed \subseteq failed'
    BY <1>6
  <2>4. Targets(Head(stage))' = T
    BY <1>9 DEF Targets
  <2> HIDE DEF T
  <2> QED BY <1>1, <1>2, <1>9, <2>1, <2>2, <2>3, <2>4 DEF Settled
<1> QED BY <1>10, <1>11, <1>12, <1>13 DEF IInv

LEMMA CallInv ==
  ASSUME IInv, NEW i \in DOMAIN outcome, Call(i)
  PROVE  IInv'
<1>1. /\ pc = "trash" /\ outcome[i] = "queued"
      /\ UNCHANGED <<world, mem, disk, pc, stage, targets, pending, applied, retry,
                     known, failed>>
  BY DEF Call
<1>2. Types /\ WantedStay /\ Settled /\ FailedFits /\ Outcomes /\ KeptStays /\ DroppedIsTrashed
  BY DEF IInv
<1>3. i \in DOMAIN pending /\ pending[i] \in Jobs
  <2>1. DOMAIN pending = 1..Len(pending) /\ DOMAIN outcome = DOMAIN pending
    BY <1>2, LenProperties DEF Types
  <2> QED BY <1>2, <2>1, ElementOfSeq DEF Types
<1>4. trashed' = trashed \/ trashed' = trashed \cup {pending[i].id}
  BY DEF Call
<1>5. \/ left' = left
      \/ left' = [left EXCEPT !["fault"] = @ - 1] /\ left["fault"] > 0
  BY DEF Call, Spend
<1>6. \E o \in {"done", "refused", "error"} :
        /\ outcome' = [outcome EXCEPT ![i] = o]
        /\ o = "done" => pending[i].id \in trashed'
        /\ o = "refused" => pending[i].folder
        /\ o = "error" => left' = [left EXCEPT !["fault"] = @ - 1] /\ left["fault"] > 0
  BY DEF Call, Refuses, Spend
<1>7. /\ kind' = kind /\ copy' = copy /\ stages' = stages /\ stage' = stage /\ pc' = pc
      /\ mem' = mem /\ disk' = disk /\ pending' = pending /\ applied' = applied
      /\ retry' = retry /\ known' = known /\ failed' = failed /\ targets' = targets
      /\ Jobs' = Jobs /\ Items' = Items
      /\ \A k \in Keys : Wanted(k)' <=> Wanted(k)
  BY <1>1, JobsStay DEF world
<1>8. /\ left' \in [{"fault", "stop"} -> Nat] /\ left'.fault <= left.fault
      /\ left'.fault \in Nat /\ left.fault \in Nat /\ left.fault <= FaultMax
      /\ left' = left \/ left'.fault < left.fault
  BY <1>2, <1>5 DEF Types
<1>9. FaultMax \in Nat
  BY BoundsAssumption
<1>10. Types'
  <2>1. trashed' \subseteq Items
    BY <1>2, <1>3, <1>4 DEF Types, Jobs
  <2>2. outcome' \in [DOMAIN pending -> {"queued", "done", "refused", "error"}]
    BY <1>2, <1>6 DEF Types
  <2>3. Fit(known)'
    BY <1>2, <1>7 DEF Types, Fit, ParentId
  <2> QED BY <1>2, <1>7, <1>8, <1>9, <2>1, <2>2, <2>3 DEF Types
<1>11. WantedStay'
  BY <1>2, <1>7 DEF WantedStay
<1>12. KeptStays'
  <2>1. ASSUME NEW k \in Keys, Wanted(k)
        PROVE  ({Item(k)} \cup Around(k)) \cap trashed' = {}
    <3>1. ({Item(k)} \cup Around(k)) \cap trashed = {}
      BY <1>2, <2>1 DEF KeptStays, Wanted, IsLive
    <3> QED BY <1>3, <1>4, <2>1, <3>1, JobIsSafe
  <2>2. ASSUME NEW k \in Keys, Wanted(k) PROVE IsLive(k)'
    BY <1>7, <2>1, <2>2 DEF IsLive, Item, Around
  <2> QED BY <1>7, <2>2 DEF KeptStays, Wanted
<1>13. DroppedIsTrashed'
  <2>1. trashed \subseteq trashed'
    BY <1>4
  <2>2. ASSUME NEW k \in Keys, ~IsLive(k) PROVE ~IsLive(k)'
    BY <1>7, <2>1, <2>2 DEF IsLive, Item, Around
  <2>3. ASSUME NEW k \in Keys PROVE HasTwin(k)' <=> HasTwin(k)
    BY <1>7 DEF HasTwin, Around
  <2> QED BY <1>2, <1>7, <2>2, <2>3 DEF DroppedIsTrashed
<1>14. Outcomes' /\ FailedFits'
  <2>1. PICK o \in {"done", "refused", "error"} :
          /\ outcome' = [outcome EXCEPT ![i] = o]
          /\ o = "done" => pending[i].id \in trashed'
          /\ o = "refused" => pending[i].folder
          /\ o = "error" => left'.fault < left.fault
    <3>1. ASSUME left' = [left EXCEPT !["fault"] = @ - 1] PROVE left'.fault < left.fault
      BY <1>2, <3>1 DEF Types
    <3> QED BY <1>6, <3>1
  <2>2. outcome'[i] = o /\ \A j \in DOMAIN pending : j # i => outcome'[j] = outcome[j]
    BY <1>2, <1>3, <2>1 DEF Types
  <2>3. trashed \subseteq trashed'
    BY <1>4
  <2>4. ASSUME NEW j \in DOMAIN pending
        PROVE  /\ outcome'[j] = "done" => pending[j].id \in trashed'
               /\ outcome'[j] = "refused" => pending[j].folder
               /\ outcome'[j] = "error" => left'.fault < FaultMax
    <3>1. CASE j = i
      BY <1>8, <1>9, <2>1, <2>2, <3>1
    <3>2. CASE j # i
      BY <1>2, <1>8, <1>9, <2>2, <2>3, <3>2 DEF Outcomes
    <3> QED BY <3>1, <3>2
  <2>5. Outcomes'
    BY <1>7, <2>4 DEF Outcomes
  <2>6. FailedFits'
    BY <1>2, <1>7, <1>8, <1>9 DEF FailedFits
  <2> QED BY <2>5, <2>6
<1>15. Settled'
  <2>1. \A r : Targets(r)' = Targets(r)
    BY <1>7 DEF Targets
  <2>2. Waiting' = Waiting
    BY <1>7 DEF Waiting
  <2> QED BY <1>2, <1>7, <2>1, <2>2 DEF Settled
<1> QED BY <1>10, <1>11, <1>12, <1>13, <1>14, <1>15 DEF IInv

\* Applying an outcome leaves everything but the manifest and the lists as they are.
LEMMA ApplyFrame ==
  ASSUME IInv, Apply
  PROVE  /\ applied + 1 \in DOMAIN pending /\ pending[applied + 1] \in Jobs
         /\ applied' = applied + 1 /\ applied' \in 0..Len(pending) /\ pc = "trash"
         /\ UNCHANGED <<world, trashed, pc, stage, targets, pending, outcome, left>>
         /\ Jobs' = Jobs /\ Items' = Items
         /\ Outcomes'
         /\ \A k \in pending[applied + 1].keys : k \in Keys /\ ~Wanted(k)
<1>1. /\ pc = "trash" /\ applied < Len(pending) /\ applied' = applied + 1
      /\ UNCHANGED <<world, trashed, pc, stage, targets, pending, outcome, left>>
  BY DEF Apply
<1>2. /\ applied \in 0..Len(pending) /\ pending \in Seq(Jobs) /\ Outcomes
      /\ Len(pending) \in Nat /\ DOMAIN pending = 1..Len(pending)
  BY LenProperties DEF IInv, Types
<1>3. applied + 1 \in DOMAIN pending /\ pending[applied + 1] \in Jobs
  BY <1>1, <1>2, ElementOfSeq
<1>4. applied' \in 0..Len(pending)
  BY <1>1, <1>2
<1>5. Outcomes'
  BY <1>1, <1>2 DEF Outcomes
<1> QED BY <1>1, <1>3, <1>4, <1>5, JobsStay DEF Jobs, Unwanted

\* Of the keys that waited, only those of the applied job may not any more.
LEMMA ApplyWaiting ==
  ASSUME IInv, Apply, Range(retry) \subseteq Range(retry')
  PROVE  Waiting \subseteq Waiting' \cup pending[applied + 1].keys
<1>1. applied' = applied + 1 /\ pending' = pending /\ applied \in Nat
  BY ApplyFrame DEF IInv, Types
<1>2. /\ DOMAIN pending \subseteq Nat
      /\ \A i \in DOMAIN pending : i > applied => i > applied + 1 \/ i = applied + 1
  <2>1. DOMAIN pending = 1..Len(pending)
    BY LenProperties DEF IInv, Types
  <2> QED BY <1>1, <2>1
<1> QED BY <1>1, <1>2 DEF Waiting

LEMMA ApplyInv ==
  ASSUME IInv, Apply
  PROVE  IInv'
<1> DEFINE i == applied + 1
           job == pending[i]
<1>1. /\ i \in DOMAIN pending /\ job \in Jobs
      /\ applied' = i /\ applied' \in 0..Len(pending) /\ pc = "trash"
      /\ UNCHANGED <<world, trashed, pc, stage, targets, pending, outcome, left>>
      /\ Jobs' = Jobs /\ Items' = Items /\ Outcomes'
      /\ \A k \in job.keys : k \in Keys /\ ~Wanted(k)
  BY ApplyFrame
<1>2. Types /\ WantedStay /\ Settled /\ FailedFits /\ Outcomes /\ KeptStays /\ DroppedIsTrashed
  BY DEF IInv
<1>3. \/ /\ outcome[i] = "done"
         /\ mem' = mem \ job.keys /\ disk' \in {disk, mem'}
         /\ UNCHANGED <<retry, known, failed>>
      \/ /\ outcome[i] = "refused"
         /\ known' \in IF known = << >> THEN IdsOf(mem) ELSE {known}
         /\ retry' = retry \o SplitJobs(job, known')
         /\ failed' = failed \cup {k \in job.keys :
                                     /\ kind[k] = "unnamed"
                                     /\ Pieces(job, k, known') = {}}
         /\ UNCHANGED <<mem, disk>>
      \/ /\ outcome[i] = "error"
         /\ failed' = failed \cup job.keys
         /\ UNCHANGED <<mem, disk, retry, known>>
  BY DEF Apply, IsDone
<1> HIDE DEF job, i
<1>4. /\ kind' = kind /\ copy' = copy /\ stages' = stages /\ stage' = stage /\ pc' = pc
      /\ trashed' = trashed /\ targets' = targets /\ pending' = pending
      /\ outcome' = outcome /\ left' = left
  BY <1>1 DEF world
<1>5. CASE /\ outcome[i] = "done"
           /\ mem' = mem \ job.keys /\ disk' \in {disk, mem'}
           /\ UNCHANGED <<retry, known, failed>>
  <2>1. Types'
    <3>1. mem' \subseteq disk' /\ disk' \subseteq Keys
      BY <1>2, <1>5 DEF Types
    <3>2. Fit(known)'
      BY <1>2, <1>4, <1>5 DEF Types, Fit, ParentId
    <3> QED BY <1>1, <1>2, <1>4, <1>5, <3>1, <3>2 DEF Types
  <2>2. WantedStay'
    BY <1>1, <1>2, <1>4, <1>5 DEF WantedStay, Wanted
  <2>3. \A k \in Keys : (IsLive(k)' <=> IsLive(k)) /\ (HasTwin(k)' <=> HasTwin(k))
    BY <1>4 DEF IsLive, HasTwin, Item, Around
  <2>4. KeptStays'
    BY <1>2, <1>4, <2>3 DEF KeptStays
  <2>5. DroppedIsTrashed'
    <3>1. job.id \in trashed
      BY <1>1, <1>2, <1>5 DEF Outcomes, job
    <3>2. \A k \in job.keys : ~HasTwin(k) => ~IsLive(k)
      BY <1>1, <3>1, JobTakes
    <3> QED BY <1>2, <1>4, <1>5, <2>3, <3>2 DEF DroppedIsTrashed
  <2>6. FailedFits'
    BY <1>2, <1>4, <1>5 DEF FailedFits
  <2>7. Settled'
    <3>1. \A s : Targets(s)' = Targets(s) \ job.keys
      BY <1>4, <1>5 DEF Targets
    <3>2. Waiting \subseteq Waiting' \cup job.keys
      BY <1>5, ApplyWaiting DEF job, i
    <3>3. Targets(Head(stage))' = Targets(Head(stage)) \ job.keys
      BY <1>4, <3>1
    <3> QED BY <1>1, <1>2, <1>4, <1>5, <3>1, <3>2, <3>3 DEF Settled
  <2> QED BY <1>1, <2>1, <2>2, <2>4, <2>5, <2>6, <2>7 DEF IInv
<1>6. CASE /\ outcome[i] = "refused"
           /\ known' \in IF known = << >> THEN IdsOf(mem) ELSE {known}
           /\ retry' = retry \o SplitJobs(job, known')
           /\ failed' = failed \cup {k \in job.keys :
                                       /\ kind[k] = "unnamed"
                                       /\ Pieces(job, k, known') = {}}
           /\ UNCHANGED <<mem, disk>>
  <2>1. Fit(known') /\ Fit(known)'
    <3>1. Fit(known')
      BY <1>2, <1>6, IdsFit DEF Types
    <3> QED BY <1>4, <3>1 DEF Fit, ParentId
  <2>2. job.folder
    BY <1>1, <1>2, <1>6 DEF Outcomes, job
  <2>3. /\ SplitJobs(job, known') \in Seq(Jobs)
        /\ \A k \in job.keys :
             \/ kind[k] = "unnamed" /\ Pieces(job, k, known') = {}
             \/ \E j \in Range(SplitJobs(job, known')) : k \in j.keys
    BY <1>1, <1>2, <2>1, <2>2, SplitJobsFit
  <2>4. /\ retry' \in Seq(Jobs)
        /\ Range(retry') = Range(retry) \cup Range(SplitJobs(job, known'))
    BY <1>2, <1>6, <2>3, RangeConcat DEF Types
  <2>5. Types'
    <3>1. failed' \subseteq Keys
      BY <1>1, <1>2, <1>6 DEF Types
    <3> QED BY <1>1, <1>2, <1>4, <1>6, <2>1, <2>4, <3>1 DEF Types
  <2>6. WantedStay' /\ KeptStays' /\ DroppedIsTrashed'
    BY <1>1, <1>4, <1>6, SameTrash
  <2>7. FailedFits'
    BY <1>2, <1>4, <1>6 DEF FailedFits
  <2>8. Settled'
    <3>1. \A s : Targets(s)' = Targets(s)
      BY <1>4, <1>6 DEF Targets
    <3>2. Waiting \subseteq Waiting' \cup job.keys
      BY <2>4, ApplyWaiting DEF job, i
    <3>3. job.keys \subseteq failed' \cup Waiting'
      <4>1. \A j \in Range(retry') : j.keys \subseteq Waiting'
        <5>1. \A j \in Range(retry') : j \in Jobs
          BY <2>4, LenProperties, ElementOfSeq DEF Range
        <5> QED BY <5>1 DEF Waiting, Jobs, Unwanted
      <4>2. Range(SplitJobs(job, known')) \subseteq Range(retry')
        BY <2>4
      <4> QED BY <1>6, <2>3, <4>1, <4>2
    <3>4. Targets(Head(stage))' = Targets(Head(stage))
      BY <1>4, <3>1
    <3>5. failed \subseteq failed'
      BY <1>6
    <3> QED BY <1>1, <1>2, <1>4, <3>1, <3>2, <3>3, <3>4, <3>5 DEF Settled
  <2> QED BY <1>1, <2>5, <2>6, <2>7, <2>8 DEF IInv
<1>7. CASE /\ outcome[i] = "error"
           /\ failed' = failed \cup job.keys
           /\ UNCHANGED <<mem, disk, retry, known>>
  <2>1. Types'
    <3>1. failed' \subseteq Keys
      BY <1>1, <1>2, <1>7 DEF Types
    <3>2. Fit(known)'
      BY <1>2, <1>4, <1>7 DEF Types, Fit, ParentId
    <3> QED BY <1>1, <1>2, <1>4, <1>7, <3>1, <3>2 DEF Types
  <2>2. WantedStay' /\ KeptStays' /\ DroppedIsTrashed'
    BY <1>1, <1>4, <1>7, SameTrash
  <2>3. FailedFits'
    <3>1. left.fault < FaultMax /\ left.fault \in Nat
      BY <1>1, <1>2, <1>7 DEF Outcomes, Types
    <3> QED BY <1>4, <3>1, BoundsAssumption DEF FailedFits
  <2>4. Settled'
    <3>1. \A s : Targets(s)' = Targets(s)
      BY <1>4, <1>7 DEF Targets
    <3>2. Waiting \subseteq Waiting' \cup job.keys
      BY <1>7, ApplyWaiting DEF job, i
    <3>3. Targets(Head(stage))' = Targets(Head(stage))
      BY <1>4, <3>1
    <3> QED BY <1>1, <1>2, <1>4, <1>7, <3>1, <3>2, <3>3 DEF Settled
  <2> QED BY <1>1, <2>1, <2>2, <2>3, <2>4 DEF IInv
<1> QED BY <1>3, <1>5, <1>6, <1>7

LEMMA RetryInv ==
  ASSUME IInv, Retry
  PROVE  IInv'
<1>1. /\ pc = "trash" /\ applied = Len(pending) /\ Submit(retry)
      /\ UNCHANGED <<world, trashed, mem, disk, pc, stage, targets, known, failed, left>>
  BY DEF Retry
<1>2. Types /\ Settled /\ FailedFits
  BY DEF IInv
<1>3. /\ kind' = kind /\ copy' = copy /\ stages' = stages /\ stage' = stage /\ pc' = pc
      /\ trashed' = trashed /\ mem' = mem /\ disk' = disk /\ targets' = targets
      /\ known' = known /\ failed' = failed /\ left' = left
      /\ Jobs' = Jobs /\ Items' = Items
  BY <1>1, JobsStay DEF world
<1>4. /\ pending' = retry /\ retry' \in Seq(Jobs)
      /\ outcome' \in [DOMAIN pending' -> {"queued", "done", "refused", "error"}]
      /\ applied' \in 0..Len(pending')
      /\ \A i \in DOMAIN pending' : outcome'[i] = "queued"
      /\ \A job \in Range(retry) : job.keys \subseteq Waiting'
  BY <1>1, <1>2, SubmitFits DEF Types
<1>5. Types'
  <2>1. Fit(known)'
    BY <1>2, <1>3 DEF Types, Fit, ParentId
  <2> QED BY <1>2, <1>3, <1>4, <2>1 DEF Types
<1>6. WantedStay' /\ KeptStays' /\ DroppedIsTrashed'
  BY <1>1, <1>3, SameTrash
<1>7. Outcomes' /\ FailedFits'
  BY <1>2, <1>3, <1>4 DEF Outcomes, FailedFits
<1>8. Settled'
  <2>1. \A s : Targets(s)' = Targets(s)
    BY <1>3 DEF Targets
  <2>2. Waiting \subseteq Waiting'
    <3>1. DOMAIN pending = 1..Len(pending)
      BY <1>2, LenProperties DEF Types
    <3>2. \A i \in DOMAIN pending : ~(i > applied)
      BY <1>1, <1>2, <3>1 DEF Types
    <3>3. \A k \in Waiting : \E job \in Range(retry) : k \in job.keys
      BY <3>2 DEF Waiting
    <3> QED BY <1>4, <3>3
  <2>3. Targets(Head(stage))' = Targets(Head(stage))
    BY <1>3, <2>1
  <2> QED BY <1>1, <1>2, <1>3, <2>1, <2>2, <2>3 DEF Settled
<1> QED BY <1>5, <1>6, <1>7, <1>8 DEF IInv

\* What the steps that only move on leave alone.
LEMMA SameJobs ==
  ASSUME IInv, UNCHANGED <<world, trashed, work, failed, left>>
  PROVE  /\ Outcomes' /\ FailedFits' /\ Jobs' = Jobs /\ Items' = Items /\ Fit(known)'
         /\ kind' = kind /\ copy' = copy /\ stages' = stages
         /\ targets' = targets /\ pending' = pending /\ outcome' = outcome
         /\ applied' = applied /\ retry' = retry /\ known' = known
<1>1. /\ kind' = kind /\ copy' = copy /\ stages' = stages
      /\ targets' = targets /\ pending' = pending /\ outcome' = outcome
      /\ applied' = applied /\ retry' = retry /\ known' = known
  BY DEF world, work
<1>2. Outcomes' /\ FailedFits'
  BY <1>1 DEF IInv, Outcomes, FailedFits
<1>3. Fit(known)'
  BY <1>1 DEF IInv, Types, Fit, ParentId
<1> QED BY <1>1, <1>2, <1>3, JobsStay

LEMMA EndStageInv ==
  ASSUME IInv, EndStage
  PROVE  IInv'
<1>1. /\ pc = "trash" /\ applied = Len(pending) /\ retry = << >>
      /\ pc' = "group" /\ stage' = Tail(stage)
      /\ UNCHANGED <<world, trashed, mem, disk, work, failed, left>>
  BY DEF EndStage
<1>2. Types /\ Settled
  BY DEF IInv
<1>3. /\ Outcomes' /\ FailedFits' /\ Jobs' = Jobs /\ Items' = Items /\ Fit(known)'
      /\ kind' = kind /\ copy' = copy /\ stages' = stages
      /\ targets' = targets /\ pending' = pending /\ outcome' = outcome
      /\ applied' = applied /\ retry' = retry
  BY <1>1, SameJobs
<1>4. /\ stage' \in StageLists \cup {<< >>} /\ Range(stage') \subseteq Range(stage)
      /\ Range(stage) \ Range(stage') \subseteq {Head(stage)}
  <2>1. stage \in StageLists
    BY <1>1, <1>2 DEF Types, Settled
  <2>2. CASE stage = <<"missing", "excluded">>
    <3>1. stage' = <<"excluded">> /\ Head(stage) = "missing"
      BY <1>1, <2>2
    <3>2. Range(stage) = {"missing", "excluded"} /\ Range(stage') = {"excluded"}
      BY <2>2, <3>1 DEF Range
    <3> QED BY <3>1, <3>2 DEF StageLists
  <2>3. CASE stage = <<"missing">> \/ stage = <<"excluded">>
    <3>1. stage' = << >>
      BY <1>1, <2>3
    <3>2. Range(stage) = {Head(stage)} /\ Range(stage') = {}
      BY <2>3, <3>1 DEF Range
    <3> QED BY <3>1, <3>2
  <2> QED BY <2>1, <2>2, <2>3 DEF StageLists
<1>5. Types'
  BY <1>1, <1>2, <1>3, <1>4 DEF Types
<1>6. WantedStay' /\ KeptStays' /\ DroppedIsTrashed'
  BY <1>1, SameTrash
<1>7. Settled'
  <2>1. \A s : Targets(s)' = Targets(s)
    BY <1>1, <1>3 DEF Targets
  <2>2. Waiting = {}
    <3>1. DOMAIN pending = 1..Len(pending)
      BY <1>2, LenProperties DEF Types
    <3>2. {i \in DOMAIN pending : i > applied} = {} /\ Range(retry) = {}
      BY <1>1, <1>2, <3>1 DEF Types, Range
    <3> QED BY <3>2 DEF Waiting
  <2>3. Targets(Head(stage)) \subseteq failed
    BY <1>1, <1>2, <2>2 DEF Settled
  <2>4. ASSUME NEW s \in Range(stages) \ Range(stage') PROVE Targets(s) \subseteq failed
    <3>1. s \notin Range(stage) \/ s = Head(stage)
      BY <1>4
    <3> QED BY <1>2, <2>3, <3>1 DEF Settled
  <2> QED BY <1>1, <1>3, <2>1, <2>4 DEF Settled
<1> QED BY <1>3, <1>5, <1>6, <1>7 DEF IInv

LEMMA EndRunInv ==
  ASSUME IInv, EndRun
  PROVE  IInv'
<1>1. /\ pc = "group" /\ stage = << >> /\ pc' = "ended" /\ disk' = mem
      /\ UNCHANGED <<world, trashed, mem, stage, work, failed, left>>
  BY DEF EndRun
<1>2. Types /\ Settled
  BY DEF IInv
<1>3. /\ Outcomes' /\ FailedFits' /\ Jobs' = Jobs /\ Items' = Items /\ Fit(known)'
      /\ kind' = kind /\ copy' = copy /\ stages' = stages
      /\ targets' = targets /\ pending' = pending /\ outcome' = outcome
      /\ applied' = applied /\ retry' = retry
  BY <1>1, SameJobs
<1>4. Types'
  BY <1>1, <1>2, <1>3 DEF Types
<1>5. WantedStay' /\ KeptStays' /\ DroppedIsTrashed'
  BY <1>1, SameTrash
<1>6. Settled'
  <2>1. \A s : Targets(s)' = Targets(s)
    BY <1>1, <1>3 DEF Targets
  <2> QED BY <1>1, <1>2, <1>3, <2>1 DEF Settled
<1> QED BY <1>3, <1>4, <1>5, <1>6 DEF IInv

LEMMA NextRunInv ==
  ASSUME IInv, NextRun
  PROVE  IInv'
<1>1. /\ Spend("stop") /\ mem' = disk /\ pc' = "group" /\ stage' = stages
      /\ targets' = {} /\ Submit(<< >>) /\ known' = << >> /\ failed' = {}
      /\ UNCHANGED <<world, trashed, disk>>
  BY DEF NextRun
<1>2. Types
  BY DEF IInv
<1>3. /\ kind' = kind /\ copy' = copy /\ stages' = stages /\ trashed' = trashed /\ disk' = disk
      /\ Jobs' = Jobs /\ Items' = Items
  BY <1>1, JobsStay DEF world
<1>4. /\ pending' = << >> /\ retry' \in Seq(Jobs) /\ << >> \in Seq(Jobs)
      /\ outcome' \in [DOMAIN pending' -> {"queued", "done", "refused", "error"}]
      /\ applied' \in 0..Len(pending')
  <2>1. << >> \in Seq(Jobs)
    OBVIOUS
  <2> QED BY <1>1, <2>1, SubmitFits
<1>5. left' \in [{"fault", "stop"} -> Nat] /\ left'.fault <= FaultMax
  BY <1>1, <1>2 DEF Spend, Types
<1>6. Types'
  <2>1. Fit(known)'
    BY <1>1 DEF Fit
  <2> QED BY <1>1, <1>2, <1>3, <1>4, <1>5, <2>1 DEF Types
<1>7. WantedStay' /\ KeptStays' /\ DroppedIsTrashed'
  <2>1. mem \subseteq mem'
    BY <1>1, <1>2 DEF Types
  <2> QED BY <1>1, <1>3, <2>1, SameTrash
<1>8. Outcomes' /\ FailedFits'
  BY <1>1, <1>4 DEF Outcomes, FailedFits
<1>9. Settled'
  BY <1>1, <1>3 DEF Settled
<1> QED BY <1>6, <1>7, <1>8, <1>9 DEF IInv

LEMMA StutterInv ==
  ASSUME IInv, UNCHANGED vars
  PROVE  IInv'
<1>1. /\ UNCHANGED <<world, trashed, work, failed, left>>
      /\ mem' = mem /\ disk' = disk /\ pc' = pc /\ stage' = stage
      /\ trashed' = trashed /\ failed' = failed /\ left' = left
  BY DEF vars
<1>2. /\ Outcomes' /\ FailedFits' /\ Jobs' = Jobs /\ Items' = Items /\ Fit(known)'
      /\ kind' = kind /\ copy' = copy /\ stages' = stages
      /\ targets' = targets /\ pending' = pending /\ outcome' = outcome
      /\ applied' = applied /\ retry' = retry
  BY <1>1, SameJobs
<1>3. Types'
  BY <1>1, <1>2 DEF IInv, Types
<1>4. WantedStay' /\ KeptStays' /\ DroppedIsTrashed'
  BY <1>1, SameTrash
<1>5. Settled'
  <2>1. (\A s : Targets(s)' = Targets(s)) /\ Waiting' = Waiting
    BY <1>1, <1>2 DEF Targets, Waiting
  <2> QED BY <1>1, <1>2, <2>1 DEF IInv, Settled
<1> QED BY <1>2, <1>3, <1>4, <1>5 DEF IInv

\* The invariant holds in every state of the specification.
THEOREM Invariance == Spec => []IInv
<1>1. Init => IInv
  BY InitInv
<1>2. IInv /\ [Next]_vars => IInv'
  <2> SUFFICES ASSUME IInv, [Next]_vars PROVE IInv'
    OBVIOUS
  <2>1. CASE Group    BY <2>1, GroupInv
  <2>2. CASE \E i \in DOMAIN outcome : Call(i)    BY <2>2, CallInv
  <2>3. CASE Apply    BY <2>3, ApplyInv
  <2>4. CASE Retry    BY <2>4, RetryInv
  <2>5. CASE EndStage    BY <2>5, EndStageInv
  <2>6. CASE EndRun    BY <2>6, EndRunInv
  <2>7. CASE NextRun    BY <2>7, NextRunInv
  <2>8. CASE UNCHANGED vars    BY <2>8, StutterInv
  <2> QED
    BY <2>1, <2>2, <2>3, <2>4, <2>5, <2>6, <2>7, <2>8 DEF Next, Step
<1> QED
  BY <1>1, <1>2, PTL DEF Spec

----------------------------------------------------------------------------
(* What follows.                                                           *)

\* The variables keep their types: jobs are about keys of the manifest and items on
\* Drive (_trash_manifest_entries).
THEOREM TypeCorrect == Spec => []TypeOK
<1>1. IInv => TypeOK
  <2> SUFFICES ASSUME IInv PROVE TypeOK
    OBVIOUS
  <2>1. ASSUME NEW i \in DOMAIN pending
        PROVE  /\ pending[i].id \in Items
               /\ pending[i].keys # {} /\ pending[i].keys \subseteq Keys
    <3>1. pending[i] \in Jobs
      BY LenProperties, ElementOfSeq DEF IInv, Types
    <3> QED BY <3>1 DEF Jobs, Unwanted
  <2> QED BY <2>1 DEF IInv, Types, TypeOK
<1> QED BY <1>1, Invariance, PTL

\* Whatever is split, fails, crashes or is repeated, no prune trashes a Drive copy of
\* something the backup keeps and has never marked as pruned, nor a folder around it.
THEOREM KeptStay == Spec => []KeptStays
<1>1. IInv => KeptStays
  BY DEF IInv
<1> QED BY <1>1, Invariance, PTL

\* A key leaves the manifest only after its copy was trashed, by itself or with a
\* folder around it.
THEOREM DroppedAreTrashed == Spec => []DroppedIsTrashed
<1>1. IInv => DroppedIsTrashed
  BY DEF IInv
<1> QED BY <1>1, Invariance, PTL

\* When a prune ends, each of its targets has left the manifest or counts as failed,
\* and without failed calls only the ones with no recorded id do.
THEOREM TargetsSettled == Spec => []TargetsAreSettled
<1>1. IInv => TargetsAreSettled
  <2> SUFFICES ASSUME IInv, pc = "ended"
               PROVE  /\ \A k \in mem : k \in UNION {Targets(s) : s \in Range(stages)} => k \in failed
                      /\ left.fault = FaultMax => \A k \in failed : kind[k] = "unnamed"
    BY DEF TargetsAreSettled
  <2>1. stage = << >> /\ Range(stage) = {}
    BY DEF IInv, Settled, Range
  <2>2. \A s \in Range(stages) : Targets(s) \subseteq failed
    BY <2>1 DEF IInv, Settled
  <2> QED BY <2>2 DEF IInv, FailedFits
<1> QED BY <1>1, Invariance, PTL

=============================================================================
