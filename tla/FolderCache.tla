----------------------------- MODULE FolderCache -----------------------------
(***************************************************************************)
(* DriveAPI.get_or_create_folder and ensure_folder_path, called by the     *)
(* upload workers and the main thread at once: double-checked locking over *)
(* a cache of folder ids, a Drive search and a create that is repeated     *)
(* when its answer is lost.  A cache lives as long as its process.         *)
(***************************************************************************)
EXTENDS Naturals, Sequences, FiniteSets

CONSTANTS
  Threads,     \* the main thread and the upload workers
  Paths,       \* the folder paths they ask for, sequences of names
  Fold,        \* [name -> the name as Drive compares it], without case
  None,        \* no thread
  MaxRetries,  \* max_retries of DriveAPI
  FaultMax,    \* bound: failed calls and lost answers
  TrashMax,    \* bound: folders the owner trashes in the Drive UI
  RunMax,      \* bound: processes
  AskMax       \* bound: paths asked for

(* The names that occur in a path.                                         *)
PathNames == UNION {{p[i] : i \in DOMAIN p} : p \in Paths}

ASSUME PathsAssumption == Paths \subseteq Seq(PathNames) \ {<< >>}
ASSUME FoldAssumption == PathNames \subseteq DOMAIN Fold
ASSUME ThreadsAssumption == None \notin Threads
ASSUME MaxRetriesAssumption == MaxRetries \in Nat \ {0}
ASSUME BoundsAssumption == {FaultMax, TrashMax, RunMax, AskMax} \subseteq Nat

VARIABLES
  folders,  \* every folder ever created, its index being its id
  cache,    \* _folder_cache: key -> id, on the keys it has
  locks,    \* _folder_locks: key -> lock object, on the keys it has
  made,     \* how many lock objects there are
  table,    \* the thread that holds _folder_cache_lock
  holds,    \* the lock object each thread holds, 0 for none
  pc,       \* where each thread is
  todo,     \* the path parts each thread has yet to resolve
  at,       \* the folder it has got to, 0 for the root
  lock,     \* its local variable `lock'
  tries,    \* the attempts _execute_with_retry has made
  left      \* what is left of the bounds

vars == <<folders, cache, locks, made, table, holds, pc, todo, at, lock,
          tries, left>>

\* Mutant: folders are told apart by their name alone.
KeyByName(t) == <<Head(todo[t]), 0>>
Key(t) == <<Head(todo[t]), at[t]>>
KeyOf(i) == <<folders[i].name, folders[i].parent>>
\* What Drive compares of a key; the cache and the table of locks tell spellings
\* apart.
Folded(k) == <<Fold[k[1]], k[2]>>
Live(k) == {i \in DOMAIN folders : Folded(KeyOf(i)) = Folded(k) /\ folders[i].live}
Add(f, k, v) == [x \in DOMAIN f \cup {k} |-> IF x = k THEN v ELSE f[x]]
Empty == [k \in {} |-> 0]

Spend(kind) == left[kind] > 0 /\ left' = [left EXCEPT ![kind] = @ - 1]
GoTo(t, label) == pc' = [pc EXCEPT ![t] = label]

Init ==
  /\ folders = << >>
  /\ cache = Empty /\ locks = Empty /\ made = 0
  /\ table = None
  /\ holds = [t \in Threads |-> 0]
  /\ pc = [t \in Threads |-> "idle"]
  /\ todo = [t \in Threads |-> << >>]
  /\ at = [t \in Threads |-> 0]
  /\ lock = [t \in Threads |-> 0]
  /\ tries = [t \in Threads |-> 0]
  /\ left = [fault |-> FaultMax, trash |-> TrashMax, run |-> RunMax,
             ask |-> AskMax]

(* ensure_folder_path, from the profile's root folder.                     *)
Ask(t) ==
  /\ pc[t] = "idle"
  /\ Spend("ask")
  /\ \E p \in Paths : todo' = [todo EXCEPT ![t] = p]
  /\ at' = [at EXCEPT ![t] = 0]
  /\ GoTo(t, "fast")
  /\ UNCHANGED <<folders, cache, locks, made, table, holds, lock, tries>>

(* One part is resolved: on to the next one, or done.                      *)
Return(t, id) ==
  /\ at' = [at EXCEPT ![t] = id]
  /\ todo' = [todo EXCEPT ![t] = Tail(@)]
  /\ GoTo(t, IF Len(todo[t]) = 1 THEN "idle" ELSE "fast")

FastPath(t) ==
  /\ pc[t] = "fast"
  /\ IF Key(t) \in DOMAIN cache
     THEN Return(t, cache[Key(t)])
     ELSE GoTo(t, "table") /\ UNCHANGED <<todo, at>>
  /\ UNCHANGED <<folders, cache, locks, made, table, holds, lock, tries, left>>

\* Mutant: the table of locks is used without its own lock.
TakeTableAlways(t) ==
  /\ pc[t] = "table"
  /\ table' = t
  /\ GoTo(t, "get")
  /\ UNCHANGED <<folders, cache, locks, made, holds, todo, at, lock, tries,
                 left>>
TakeTable(t) ==
  /\ pc[t] = "table" /\ table = None
  /\ table' = t
  /\ GoTo(t, "get")
  /\ UNCHANGED <<folders, cache, locks, made, holds, todo, at, lock, tries,
                 left>>

GetLock(t) ==
  /\ pc[t] = "get"
  /\ IF Key(t) \in DOMAIN locks
     THEN /\ lock' = [lock EXCEPT ![t] = locks[Key(t)]]
          /\ table' = None
          /\ GoTo(t, "lock")
     ELSE GoTo(t, "make") /\ UNCHANGED <<lock, table>>
  /\ UNCHANGED <<folders, cache, locks, made, holds, todo, at, tries, left>>

MakeLock(t) ==
  /\ pc[t] = "make"
  /\ made' = made + 1
  /\ lock' = [lock EXCEPT ![t] = made + 1]
  /\ locks' = Add(locks, Key(t), made + 1)
  /\ table' = None
  /\ GoTo(t, "lock")
  /\ UNCHANGED <<folders, cache, holds, todo, at, tries, left>>

Acquire(t) ==
  /\ pc[t] = "lock"
  /\ \A u \in Threads : holds[u] # lock[t]
  /\ holds' = [holds EXCEPT ![t] = lock[t]]
  /\ GoTo(t, "recheck")
  /\ UNCHANGED <<folders, cache, locks, made, table, todo, at, lock, tries,
                 left>>

\* Mutant: the cache is not looked at again under the lock.
RecheckNothing(t) ==
  /\ pc[t] = "recheck"
  /\ tries' = [tries EXCEPT ![t] = 0]
  /\ GoTo(t, "list")
  /\ UNCHANGED <<folders, cache, locks, made, table, holds, todo, at, lock,
                 left>>
Recheck(t) ==
  /\ pc[t] = "recheck"
  /\ tries' = [tries EXCEPT ![t] = 0]
  /\ IF Key(t) \in DOMAIN cache
     THEN /\ Return(t, cache[Key(t)])
          /\ holds' = [holds EXCEPT ![t] = 0]
     ELSE GoTo(t, "list") /\ UNCHANGED <<todo, at, holds>>
  /\ UNCHANGED <<folders, cache, locks, made, table, lock, left>>

\* Mutant: the lock is not released when the call fails for good.
FailKeepingLock(t) ==
  /\ Spend("fault")
  /\ tries' = [tries EXCEPT ![t] = 0]
  /\ GoTo(t, "idle")
  /\ todo' = [todo EXCEPT ![t] = << >>]
  /\ at' = [at EXCEPT ![t] = 0]
  /\ UNCHANGED holds

(* An attempt fails: repeat it, or give up and leave the lock.  The caller *)
(* counts the file as failed.                                              *)
Fail(t) ==
  /\ Spend("fault")
  /\ IF tries[t] < MaxRetries - 1
     THEN /\ tries' = [tries EXCEPT ![t] = @ + 1]
          /\ UNCHANGED <<pc, holds, todo, at>>
     ELSE /\ tries' = [tries EXCEPT ![t] = 0]
          /\ GoTo(t, "idle")
          /\ holds' = [holds EXCEPT ![t] = 0]
          /\ todo' = [todo EXCEPT ![t] = << >>]
          /\ at' = [at EXCEPT ![t] = 0]

\* Mutant: the id of the parent is cached.
StoreParent(t, id) ==
  /\ cache' = Add(cache, Key(t), at[t])
  /\ Return(t, id)
  /\ holds' = [holds EXCEPT ![t] = 0]
  /\ tries' = [tries EXCEPT ![t] = 0]

(* The id goes into the cache, the lock is released.                       *)
Store(t, id) ==
  /\ cache' = Add(cache, Key(t), id)
  /\ Return(t, id)
  /\ holds' = [holds EXCEPT ![t] = 0]
  /\ tries' = [tries EXCEPT ![t] = 0]

(* files().list, and files[0] of what it finds, whose spelling nobody      *)
(* looks at.                                                               *)
List(t) ==
  /\ pc[t] = "list"
  /\ \/ \E i \in Live(Key(t)) : Store(t, i) /\ UNCHANGED left
     \/ /\ Live(Key(t)) = {}
        /\ GoTo(t, "create")
        /\ tries' = [tries EXCEPT ![t] = 0]
        /\ UNCHANGED <<cache, todo, at, holds, left>>
     \/ Fail(t) /\ UNCHANGED cache
  /\ UNCHANGED <<folders, locks, made, table, lock>>

Folder(t, answered) ==
  [name |-> Head(todo[t]), parent |-> at[t], live |-> TRUE,
   answered |-> answered]

(* files().create: it takes effect, fails, or takes effect and its answer  *)
(* is lost, which looks like a failure.                                    *)
Create(t) ==
  /\ pc[t] = "create"
  /\ \/ /\ folders' = Append(folders, Folder(t, TRUE))
        /\ Store(t, Len(folders) + 1)
        /\ UNCHANGED left
     \/ /\ folders' \in {folders, Append(folders, Folder(t, FALSE))}
        /\ Fail(t)
        /\ UNCHANGED cache
  /\ UNCHANGED <<locks, made, table, lock>>

(* The owner trashes a folder; a new process starts with an empty cache.   *)
Trash(i) ==
  /\ Spend("trash")
  /\ folders[i].live
  /\ folders' = [folders EXCEPT ![i].live = FALSE]
  /\ UNCHANGED <<cache, locks, made, table, holds, pc, todo, at, lock, tries>>

NewProcess ==
  /\ Spend("run")
  /\ cache' = Empty /\ locks' = Empty
  /\ table' = None
  /\ holds' = [t \in Threads |-> 0]
  /\ pc' = [t \in Threads |-> "idle"]
  /\ todo' = [t \in Threads |-> << >>]
  /\ at' = [t \in Threads |-> 0]
  /\ lock' = [t \in Threads |-> 0]
  /\ tries' = [t \in Threads |-> 0]
  /\ UNCHANGED <<folders, made>>

Step(t) ==
  \/ FastPath(t) \/ TakeTable(t) \/ GetLock(t) \/ MakeLock(t)
  \/ Acquire(t) \/ Recheck(t) \/ List(t) \/ Create(t)

Next ==
  \/ \E t \in Threads : Ask(t) \/ Step(t)
  \/ \E i \in DOMAIN folders : Trash(i)
  \/ NewProcess

Spec == Init /\ [][Next]_vars
FairSpec == Spec /\ \A t \in Threads : WF_vars(Step(t))

----------------------------------------------------------------------------
Labels == {"idle", "fast", "table", "get", "make", "lock", "recheck", "list",
           "create"}

TypeOK ==
  /\ folders \in Seq([name : PathNames, parent : Nat, live : BOOLEAN,
                      answered : BOOLEAN])
  /\ made \in Nat
  /\ DOMAIN cache \subseteq PathNames \X Nat
  /\ DOMAIN locks \subseteq PathNames \X Nat
  /\ \A k \in DOMAIN cache : cache[k] \in DOMAIN folders
  /\ \A k \in DOMAIN locks : locks[k] \in 1..made
  /\ table \in Threads \cup {None}
  /\ holds \in [Threads -> 0..made]
  /\ pc \in [Threads -> Labels]
  /\ todo \in [Threads -> Seq(PathNames)]
  /\ at \in [Threads -> Nat]
  /\ lock \in [Threads -> 0..made]
  /\ tries \in [Threads -> Nat]
  /\ left \in [{"fault", "trash", "run", "ask"} -> Nat]

(* Two threads that need one folder at once do not both create it: of the  *)
(* live folders of one name and parent at most one had its creation        *)
(* answered.  The others are creates whose answer was lost and which       *)
(* _execute_with_retry repeated.  Two spellings of a name have two locks,  *)
(* and may get a folder each when they are asked for at once.              *)
NoSecondFolder ==
  \A i, j \in DOMAIN folders :
    /\ KeyOf(i) = KeyOf(j)
    /\ folders[i].live /\ folders[j].live
    /\ folders[i].answered /\ folders[j].answered
    => i = j

(* What is cached is the folder that was asked for, but for the case of    *)
(* its name, whichever thread put it there: a thread that works under one  *)
(* id never lands in another tree.                                         *)
CacheIsRight ==
  \A k \in DOMAIN cache : Folded(KeyOf(cache[k])) = Folded(k)

(* Within one process all threads get the same id for a folder, also after *)
(* duplicates have come up or the folder has been trashed: the files of a  *)
(* run are never spread over two folders of one name.                      *)
OneIdPerProcess ==
  [][\A k \in DOMAIN cache :
       k \in DOMAIN cache' => cache'[k] = cache[k]]_vars

(* Every request for a path ends: neither lock is left locked on any way   *)
(* out, nor do the two kinds of locks wait for one another.                *)
AsksEnd == \A t \in Threads : pc[t] # "idle" ~> pc[t] = "idle"
=============================================================================
