-------------------------- MODULE FolderCacheProofs --------------------------
(***************************************************************************)
(* Proofs about FolderCache, for any threads, paths and number of faults:  *)
(* the two kinds of locks let one thread at a time look for and create a   *)
(* folder, and so the cache never changes its mind and no folder is made   *)
(* twice.                                                                  *)
(***************************************************************************)
EXTENDS FolderCache, SequenceTheorems, TLAPS

(* Where a thread has its folder's lock object at hand, and where it holds *)
(* it.                                                                     *)
Critical == {"recheck", "list", "create"}
Locking == {"lock"} \cup Critical

(* A thread at work has a part of a path to resolve.                       *)
Busy == \A t \in Threads : pc[t] # "idle" => todo[t] # << >>

(* A thread in the table of locks holds the table's lock, and is about to  *)
(* make an object only for a folder that has none.                         *)
TableHeld ==
  \A t \in Threads :
    /\ pc[t] \in {"get", "make"} => table = t
    /\ pc[t] = "make" => Key(t) \notin DOMAIN locks

(* No two folders share a lock object, and the object a thread has at hand *)
(* is that of the folder it is after.                                      *)
LocksDiffer ==
  \A k, l \in DOMAIN locks : locks[k] = locks[l] => k = l
LocksAreKeyed ==
  \A t \in Threads :
    pc[t] \in Locking => Key(t) \in DOMAIN locks /\ lock[t] = locks[Key(t)]

(* Who is past the lock holds it, and nobody else does.                    *)
Holding == \A t \in Threads : pc[t] \in Critical => holds[t] = lock[t]
OneHolder ==
  \A t, u \in Threads : holds[t] # 0 /\ holds[t] = holds[u] => t = u

LockInv ==
  Busy /\ TableHeld /\ LocksDiffer /\ LocksAreKeyed /\ Holding /\ OneHolder

(* What a thread asks Drive for is not in the cache, and what it is about  *)
(* to create is not there with its creation answered.                      *)
Uncached ==
  \A t \in Threads : pc[t] \in {"list", "create"} => Key(t) \notin DOMAIN cache
CreateFresh ==
  \A t \in Threads :
    pc[t] = "create" =>
      \A i \in DOMAIN folders :
        ~(KeyOf(i) = Key(t) /\ folders[i].live /\ folders[i].answered)

FolderInv == Uncached /\ CreateFresh /\ NoSecondFolder /\ CacheIsRight

IInv == TypeOK /\ LockInv /\ FolderInv

----------------------------------------------------------------------------
(* Facts about the operators.                                              *)

\* Adding a key to a function leaves its other values as they were.
LEMMA AddDomain ==
  ASSUME NEW f, NEW k, NEW v
  PROVE  /\ DOMAIN Add(f, k, v) = DOMAIN f \cup {k}
         /\ Add(f, k, v)[k] = v
         /\ \A x \in DOMAIN f : x # k => Add(f, k, v)[x] = f[x]
BY DEF Add

(* A busy thread asks for a name of a path, and resolving it leaves a      *)
(* proper rest.                                                            *)
LEMMA KeyType ==
  ASSUME TypeOK, NEW t \in Threads, todo[t] # << >>
  PROVE  /\ Head(todo[t]) \in PathNames
         /\ at[t] \in Nat
         /\ Key(t) \in PathNames \X Nat
         /\ Tail(todo[t]) \in Seq(PathNames)
<1>1. todo[t] \in Seq(PathNames) /\ at[t] \in Nat
  BY DEF TypeOK
<1>2. Head(todo[t]) \in PathNames /\ Tail(todo[t]) \in Seq(PathNames)
  BY <1>1
<1> QED BY <1>1, <1>2 DEF Key

\* A path of more than one part has a rest.
LEMMA TailNotEmpty ==
  ASSUME NEW S, NEW s \in Seq(S), s # << >>, Len(s) # 1
  PROVE  Tail(s) # << >>
<1>1. Len(s) \in Nat /\ Len(s) # 0
  OBVIOUS
<1>2. Len(Tail(s)) = Len(s) - 1
  BY <1>1
<1>3. Len(Tail(s)) # 0
  BY <1>1, <1>2
<1>4. Len(<< >>) = 0
  OBVIOUS
<1> QED BY <1>3, <1>4, Zenon

(* To have resolved a part is to have another one or to be idle.           *)
LEMMA ReturnType ==
  ASSUME TypeOK, NEW t \in Threads, todo[t] # << >>, NEW id \in Nat, Return(t, id)
  PROVE  /\ at' \in [Threads -> Nat]
         /\ todo' \in [Threads -> Seq(PathNames)]
         /\ pc' \in [Threads -> Labels]
         /\ pc'[t] \in {"idle", "fast"}
         /\ pc'[t] # "idle" => todo'[t] # << >>
         /\ \A u \in Threads \ {t} :
              at'[u] = at[u] /\ todo'[u] = todo[u] /\ pc'[u] = pc[u]
<1>1. Tail(todo[t]) \in Seq(PathNames)
  BY KeyType
<1>2. at \in [Threads -> Nat] /\ todo \in [Threads -> Seq(PathNames)]
      /\ pc \in [Threads -> Labels]
  BY DEF TypeOK
<1>3. Len(todo[t]) # 1 => Tail(todo[t]) # << >>
  BY <1>2, TailNotEmpty
<1> QED BY <1>1, <1>2, <1>3 DEF Return, GoTo, Labels

\* Nothing is locked, cached or created at the start.
LEMMA InitInv == Init => IInv
<1> SUFFICES ASSUME Init PROVE IInv
  OBVIOUS
<1>1. TypeOK
  BY BoundsAssumption DEF Init, TypeOK, Empty, Labels
<1>2. LockInv
  BY DEF Init, LockInv, Busy, TableHeld, LocksDiffer, LocksAreKeyed, Holding,
         OneHolder, Empty, Locking, Critical
<1>3. Uncached /\ CreateFresh /\ NoSecondFolder /\ CacheIsRight
  BY DEF Init, Uncached, CreateFresh, NoSecondFolder, CacheIsRight, Empty
<1> QED BY <1>1, <1>2, <1>3 DEF IInv, FolderInv

----------------------------------------------------------------------------
(* Types.                                                                  *)

\* Spending from a bound leaves the bounds natural numbers.
LEMMA SpendType ==
  ASSUME TypeOK, NEW kind \in {"fault", "trash", "run", "ask"}, Spend(kind)
  PROVE  left' \in [{"fault", "trash", "run", "ask"} -> Nat]
<1>1. left \in [{"fault", "trash", "run", "ask"} -> Nat]
  BY DEF TypeOK
<1>2. left[kind] - 1 \in Nat
  BY <1>1 DEF Spend
<1> QED BY <1>1, <1>2 DEF Spend

\* A failed attempt keeps the types, repeated or given up.
LEMMA FailType ==
  ASSUME TypeOK, NEW t \in Threads, Fail(t)
  PROVE  /\ left' \in [{"fault", "trash", "run", "ask"} -> Nat]
         /\ tries' \in [Threads -> Nat]
         /\ pc' \in [Threads -> Labels]
         /\ holds' \in [Threads -> 0..made]
         /\ todo' \in [Threads -> Seq(PathNames)]
         /\ at' \in [Threads -> Nat]
<1>1. left' \in [{"fault", "trash", "run", "ask"} -> Nat]
  BY SpendType DEF Fail
<1>2. /\ tries \in [Threads -> Nat] /\ pc \in [Threads -> Labels]
      /\ holds \in [Threads -> 0..made] /\ made \in Nat
      /\ todo \in [Threads -> Seq(PathNames)] /\ at \in [Threads -> Nat]
  BY DEF TypeOK
<1>3. << >> \in Seq(PathNames) /\ "idle" \in Labels /\ 0 \in 0..made
  BY <1>2 DEF Labels
<1>4. CASE tries[t] < MaxRetries - 1
  <2>1. tries' = [tries EXCEPT ![t] = tries[t] + 1]
        /\ UNCHANGED <<pc, holds, todo, at>>
    BY <1>4 DEF Fail
  <2>2. tries' \in [Threads -> Nat]
    BY <2>1, <1>2
  <2> QED BY <2>1, <2>2, <1>1, <1>2
<1>5. CASE ~(tries[t] < MaxRetries - 1)
  <2>1. /\ tries' = [tries EXCEPT ![t] = 0]
        /\ pc' = [pc EXCEPT ![t] = "idle"]
        /\ holds' = [holds EXCEPT ![t] = 0]
        /\ todo' = [todo EXCEPT ![t] = << >>]
        /\ at' = [at EXCEPT ![t] = 0]
    BY <1>5 DEF Fail, GoTo
  <2> QED BY <2>1, <1>1, <1>2, <1>3
<1> QED BY <1>4, <1>5

(* A folder that is found or made is cached under its key.                 *)
LEMMA StoreType ==
  ASSUME TypeOK, NEW t \in Threads, todo[t] # << >>,
         NEW id \in Nat, id \in DOMAIN folders', DOMAIN folders \subseteq DOMAIN folders',
         Store(t, id)
  PROVE  /\ DOMAIN cache' \subseteq PathNames \X Nat
         /\ \A k \in DOMAIN cache' : cache'[k] \in DOMAIN folders'
         /\ at' \in [Threads -> Nat]
         /\ todo' \in [Threads -> Seq(PathNames)]
         /\ pc' \in [Threads -> Labels]
         /\ holds' \in [Threads -> 0..made]
         /\ tries' \in [Threads -> Nat]
<1>1. Return(t, id) /\ cache' = Add(cache, Key(t), id)
  BY DEF Store
<1>2. Key(t) \in PathNames \X Nat
  BY KeyType
<1>3. DOMAIN cache' = DOMAIN cache \cup {Key(t)} /\ cache'[Key(t)] = id
      /\ \A x \in DOMAIN cache : x # Key(t) => cache'[x] = cache[x]
  BY <1>1 DEF Add
<1>4. DOMAIN cache \subseteq PathNames \X Nat
      /\ \A k \in DOMAIN cache : cache[k] \in DOMAIN folders
  BY DEF TypeOK
<1>5. holds' \in [Threads -> 0..made] /\ tries' \in [Threads -> Nat]
  BY DEF Store, TypeOK
<1> QED BY <1>1, <1>2, <1>3, <1>4, <1>5, ReturnType

\* A create appends the folder that was asked for and leaves the others.
LEMMA FolderType ==
  ASSUME TypeOK, NEW t \in Threads, todo[t] # << >>, NEW b \in BOOLEAN
  PROVE  LET more == Append(folders, Folder(t, b))
         IN  /\ more \in Seq([name : PathNames, parent : Nat, live : BOOLEAN,
                              answered : BOOLEAN])
             /\ DOMAIN more = DOMAIN folders \cup {Len(folders) + 1}
             /\ more[Len(folders) + 1] = Folder(t, b)
             /\ \A i \in DOMAIN folders : more[i] = folders[i]
             /\ Len(folders) + 1 \in Nat /\ Len(folders) + 1 \notin DOMAIN folders
<1> DEFINE R == [name : PathNames, parent : Nat, live : BOOLEAN,
                 answered : BOOLEAN]
<1>1. folders \in Seq(R)
  BY DEF TypeOK
<1>2. Folder(t, b) \in R
  BY KeyType DEF Folder
<1> QED BY <1>1, <1>2

\* A cached id is a number.
LEMMA CacheType ==
  ASSUME TypeOK, NEW k \in DOMAIN cache
  PROVE  cache[k] \in Nat
<1>1. folders \in Seq([name : PathNames, parent : Nat, live : BOOLEAN,
                       answered : BOOLEAN])
  BY DEF TypeOK
<1>2. DOMAIN folders \subseteq Nat
  BY <1>1
<1> QED BY <1>2 DEF TypeOK

\* A folder a search finds has the key it was searched for, but for case.
LEMMA LiveType ==
  ASSUME TypeOK, NEW k, NEW i \in Live(k)
  PROVE  i \in Nat /\ i \in DOMAIN folders /\ Folded(KeyOf(i)) = Folded(k)
<1>1. i \in DOMAIN folders /\ Folded(KeyOf(i)) = Folded(k)
  BY Zenon DEF Live
<1>2. folders \in Seq([name : PathNames, parent : Nat, live : BOOLEAN,
                       answered : BOOLEAN])
  BY DEF TypeOK
<1>3. DOMAIN folders \subseteq Nat
  BY <1>2
<1> QED BY <1>1, <1>3

(* Trashing a folder changes nothing else of it, and no other folder.      *)
LEMMA TrashType ==
  ASSUME TypeOK, NEW i \in DOMAIN folders, Trash(i)
  PROVE  /\ folders' \in Seq([name : PathNames, parent : Nat, live : BOOLEAN,
                              answered : BOOLEAN])
         /\ DOMAIN folders' = DOMAIN folders
         /\ \A j \in DOMAIN folders : KeyOf(j)' = KeyOf(j)
         /\ \A j \in DOMAIN folders : folders'[j].live => folders[j].live
         /\ \A j \in DOMAIN folders : folders'[j].answered = folders[j].answered
<1> DEFINE R == [name : PathNames, parent : Nat, live : BOOLEAN,
                 answered : BOOLEAN]
           new == [folders[i] EXCEPT !.live = FALSE]
<1>1. folders \in Seq(R)
  BY DEF TypeOK
<1>2. folders[i] \in R /\ DOMAIN folders = 1 .. Len(folders)
  BY <1>1, ElementOfSeq, LenProperties
<1>3. /\ new \in R /\ new.name = folders[i].name /\ new.parent = folders[i].parent
      /\ new.live = FALSE /\ new.answered = folders[i].answered
  BY <1>2
<1>4. folders' = [folders EXCEPT ![i] = new]
  BY DEF Trash
<1> HIDE DEF new
<1>5. folders' \in Seq(R) /\ DOMAIN folders' = DOMAIN folders
  BY <1>1, <1>2, <1>3, <1>4, ExceptSeq, LenProperties
<1>6. \A j \in DOMAIN folders :
        folders'[j] = IF j = i THEN new ELSE folders[j]
  BY <1>4
<1> QED BY <1>3, <1>5, <1>6 DEF KeyOf

\* Every step keeps TypeOK, action by action.
LEMMA TypeStep ==
  ASSUME TypeOK, Busy, [Next]_vars
  PROVE  TypeOK'
<1> USE DEF GoTo
<1> DEFINE R == [name : PathNames, parent : Nat, live : BOOLEAN,
                 answered : BOOLEAN]
<1>1. ASSUME NEW t \in Threads, Ask(t) PROVE TypeOK'
  <2>1. left' \in [{"fault", "trash", "run", "ask"} -> Nat]
    BY <1>1, SpendType DEF Ask
  <2>2. todo' \in [Threads -> Seq(PathNames)]
    BY <1>1, PathsAssumption DEF Ask, TypeOK
  <2> QED BY <1>1, <2>1, <2>2 DEF Ask, TypeOK, Labels
<1>2. ASSUME NEW t \in Threads, FastPath(t) PROVE TypeOK'
  <2>1. todo[t] # << >>
    BY <1>2 DEF FastPath, Busy
  <2>2. CASE Key(t) \in DOMAIN cache
    <3>1. Return(t, cache[Key(t)])
      BY <1>2, <2>2 DEF FastPath
    <3>2. cache[Key(t)] \in Nat
      BY <2>2, CacheType
    <3>3. /\ at' \in [Threads -> Nat] /\ todo' \in [Threads -> Seq(PathNames)]
          /\ pc' \in [Threads -> Labels]
      BY <2>1, <3>1, <3>2, ReturnType
    <3> QED BY <1>2, <3>3 DEF FastPath, TypeOK
  <2>3. CASE Key(t) \notin DOMAIN cache
    BY <1>2, <2>3 DEF FastPath, TypeOK, Labels
  <2> QED BY <2>2, <2>3
<1>3. ASSUME NEW t \in Threads, TakeTable(t) PROVE TypeOK'
  BY <1>3 DEF TakeTable, TypeOK, Labels
<1>4. ASSUME NEW t \in Threads, GetLock(t) PROVE TypeOK'
  <2>1. CASE Key(t) \in DOMAIN locks
    <3>1. locks[Key(t)] \in 0..made
      BY <2>1 DEF TypeOK
    <3> QED BY <1>4, <2>1, <3>1 DEF GetLock, TypeOK, Labels
  <2>2. CASE Key(t) \notin DOMAIN locks
    BY <1>4, <2>2 DEF GetLock, TypeOK, Labels
  <2> QED BY <2>1, <2>2
<1>5. ASSUME NEW t \in Threads, MakeLock(t) PROVE TypeOK'
  <2>1. Key(t) \in PathNames \X Nat
    BY <1>5, KeyType DEF MakeLock, Busy
  <2>2. DOMAIN locks' = DOMAIN locks \cup {Key(t)}
        /\ \A k \in DOMAIN locks' : locks'[k] \in 1..(made + 1)
    BY <1>5 DEF MakeLock, Add, TypeOK
  <2>3. made + 1 \in Nat /\ made' = made + 1
        /\ \A n \in 0..made : n \in 0..(made + 1)
        /\ made + 1 \in 0..(made + 1)
    BY <1>5 DEF MakeLock, TypeOK
  <2> HIDE DEF R
  <2>4. /\ holds' = holds /\ holds \in [Threads -> 0..made]
        /\ lock' = [lock EXCEPT ![t] = made + 1] /\ lock \in [Threads -> 0..made]
    BY <1>5 DEF MakeLock, TypeOK
  <2>5. holds \in [Threads -> 0..(made + 1)] /\ lock \in [Threads -> 0..(made + 1)]
    BY <2>3, <2>4, Zenon
  <2>6. holds' \in [Threads -> 0..made'] /\ lock' \in [Threads -> 0..made']
    BY <2>3, <2>4, <2>5, Zenon
  <2> QED BY <1>5, <2>1, <2>2, <2>3, <2>6 DEF MakeLock, TypeOK, Labels
<1>6. ASSUME NEW t \in Threads, Acquire(t) PROVE TypeOK'
  BY <1>6 DEF Acquire, TypeOK, Labels
<1>7. ASSUME NEW t \in Threads, Recheck(t) PROVE TypeOK'
  <2>1. todo[t] # << >>
    BY <1>7 DEF Recheck, Busy
  <2>2. CASE Key(t) \in DOMAIN cache
    <3>1. Return(t, cache[Key(t)])
      BY <1>7, <2>2 DEF Recheck
    <3>2. cache[Key(t)] \in Nat
      BY <2>2, CacheType
    <3>3. /\ at' \in [Threads -> Nat] /\ todo' \in [Threads -> Seq(PathNames)]
          /\ pc' \in [Threads -> Labels]
      BY <2>1, <3>1, <3>2, ReturnType
    <3>4. holds' \in [Threads -> 0..made]
      <4>1. holds \in [Threads -> 0..made] /\ 0 \in 0..made
        BY DEF TypeOK
      <4>2. holds' = [holds EXCEPT ![t] = 0]
        BY <1>7, <2>2 DEF Recheck
      <4> QED BY <4>1, <4>2
    <3> QED BY <1>7, <3>3, <3>4 DEF Recheck, TypeOK
  <2>3. CASE Key(t) \notin DOMAIN cache
    BY <1>7, <2>3 DEF Recheck, TypeOK, Labels
  <2> QED BY <2>2, <2>3
<1>8. ASSUME NEW t \in Threads, List(t) PROVE TypeOK'
  <2>1. todo[t] # << >>
    BY <1>8 DEF List, Busy
  <2>2. ASSUME NEW i \in Live(Key(t)), Store(t, i), left' = left PROVE TypeOK'
    <3>1. i \in DOMAIN folders /\ i \in Nat /\ folders' = folders
      BY <1>8, LiveType DEF List
    <3>2. /\ DOMAIN cache' \subseteq PathNames \X Nat
          /\ \A k \in DOMAIN cache' : cache'[k] \in DOMAIN folders'
          /\ at' \in [Threads -> Nat] /\ todo' \in [Threads -> Seq(PathNames)]
          /\ pc' \in [Threads -> Labels] /\ holds' \in [Threads -> 0..made]
          /\ tries' \in [Threads -> Nat]
      BY <2>1, <2>2, <3>1, StoreType
    <3> QED BY <1>8, <2>2, <3>1, <3>2 DEF List, TypeOK
  <2>3. CASE GoTo(t, "create") /\ tries' = [tries EXCEPT ![t] = 0]
             /\ UNCHANGED <<cache, todo, at, holds, left>>
    BY <1>8, <2>3 DEF List, TypeOK, Labels
  <2>4. CASE Fail(t) /\ UNCHANGED cache
    BY <1>8, <2>4, FailType DEF List, TypeOK
  <2> QED BY <1>8, <2>2, <2>3, <2>4 DEF List
<1>9. ASSUME NEW t \in Threads, Create(t) PROVE TypeOK'
  <2>1. todo[t] # << >>
    BY <1>9 DEF Create, Busy
  <2>2. \A b \in BOOLEAN :
          /\ Append(folders, Folder(t, b)) \in Seq(R)
          /\ DOMAIN Append(folders, Folder(t, b))
               = DOMAIN folders \cup {Len(folders) + 1}
          /\ Len(folders) + 1 \in Nat
    BY <2>1, FolderType
  <2>3. CASE /\ folders' = Append(folders, Folder(t, TRUE))
             /\ Store(t, Len(folders) + 1) /\ UNCHANGED left
    <3>1. /\ DOMAIN cache' \subseteq PathNames \X Nat
          /\ \A k \in DOMAIN cache' : cache'[k] \in DOMAIN folders'
          /\ at' \in [Threads -> Nat] /\ todo' \in [Threads -> Seq(PathNames)]
          /\ pc' \in [Threads -> Labels] /\ holds' \in [Threads -> 0..made]
          /\ tries' \in [Threads -> Nat]
      BY <2>1, <2>2, <2>3, StoreType
    <3> QED BY <1>9, <2>2, <2>3, <3>1 DEF Create, TypeOK
  <2>4. CASE /\ folders' \in {folders, Append(folders, Folder(t, FALSE))}
             /\ Fail(t) /\ UNCHANGED cache
    <3>1. folders' \in Seq(R) /\ DOMAIN folders \subseteq DOMAIN folders'
      BY <2>2, <2>4 DEF TypeOK
    <3> QED BY <1>9, <2>4, <3>1, FailType DEF Create, TypeOK
  <2> QED BY <1>9, <2>3, <2>4 DEF Create
<1>10. ASSUME NEW i \in DOMAIN folders, Trash(i) PROVE TypeOK'
  <2>1. left' \in [{"fault", "trash", "run", "ask"} -> Nat]
    BY <1>10, SpendType DEF Trash
  <2>3. folders' \in Seq(R) /\ DOMAIN folders' = DOMAIN folders
    BY <1>10, TrashType
  <2> QED BY <1>10, <2>1, <2>3 DEF Trash, TypeOK
<1>11. CASE NewProcess
  <2>1. left' \in [{"fault", "trash", "run", "ask"} -> Nat]
    BY <1>11, SpendType DEF NewProcess
  <2>2. << >> \in Seq(PathNames) /\ "idle" \in Labels /\ 0 \in 0..made
    BY DEF Labels, TypeOK
  <2> QED BY <1>11, <2>1, <2>2 DEF NewProcess, TypeOK, Empty
<1>12. CASE UNCHANGED vars
  BY <1>12 DEF vars, TypeOK
<1> QED
  BY <1>1, <1>2, <1>3, <1>4, <1>5, <1>6, <1>7, <1>8, <1>9, <1>10, <1>11, <1>12
  DEF Next, Step

----------------------------------------------------------------------------
(* The two kinds of locks.                                                 *)

(* No other thread has moved; the thread itself has.                       *)
Frame(t) ==
  \A u \in Threads \ {t} :
    /\ pc'[u] = pc[u] /\ todo'[u] = todo[u] /\ at'[u] = at[u]
    /\ lock'[u] = lock[u] /\ holds'[u] = holds[u] /\ Key(u)' = Key(u)

(* It gives up what it held and is on to the next part, or idle.           *)
Leaves(t) ==
  /\ Frame(t) /\ UNCHANGED <<locks, made, table>>
  /\ pc[t] \notin {"get", "make"}
  /\ pc'[t] \in {"idle", "fast"}
  /\ pc'[t] # "idle" => todo'[t] # << >>
  /\ holds'[t] \in {0, holds[t]}

(* It goes on with what it holds.                                          *)
Stays(t) ==
  /\ Frame(t) /\ UNCHANGED <<locks, made, table>>
  /\ pc[t] \in Critical /\ pc'[t] \in Critical
  /\ Key(t)' = Key(t) /\ todo'[t] = todo[t]
  /\ lock'[t] = lock[t] /\ holds'[t] = holds[t]

\* A thread that gives up its lock or has none keeps LockInv.
LEMMA LeavesLocks ==
  ASSUME LockInv, NEW t \in Threads, Leaves(t)
  PROVE  LockInv'
<1> USE DEF LockInv, Leaves, Frame
<1>1. Busy'
  BY DEF Busy
<1>2. TableHeld'
  BY DEF TableHeld
<1>3. LocksDiffer'
  BY DEF LocksDiffer
<1>4. LocksAreKeyed' /\ Holding'
  BY DEF LocksAreKeyed, Holding, Locking, Critical
<1>5. OneHolder'
  BY DEF OneHolder
<1> QED BY <1>1, <1>2, <1>3, <1>4, <1>5

\* So does one that goes on under the lock it has.
LEMMA StaysLocks ==
  ASSUME LockInv, NEW t \in Threads, Stays(t)
  PROVE  LockInv'
<1> USE DEF LockInv, Stays, Frame
<1>1. Busy'
  BY DEF Busy, Critical
<1>2. TableHeld'
  BY DEF TableHeld, Critical
<1>3. LocksDiffer'
  BY DEF LocksDiffer
<1>4. LocksAreKeyed' /\ Holding'
  BY DEF LocksAreKeyed, Holding, Locking, Critical
<1>5. OneHolder'
  BY DEF OneHolder
<1> QED BY <1>1, <1>2, <1>3, <1>4, <1>5

(* A step of a thread leaves the others where they are.                    *)
LEMMA StepFrame ==
  ASSUME TypeOK, NEW t \in Threads, Ask(t) \/ Step(t)
  PROVE  Frame(t)
<1> USE DEF GoTo
<1>1. CASE Ask(t)
  BY <1>1 DEF Ask, Frame, Key, TypeOK
<1>2. CASE FastPath(t)
  BY <1>2 DEF FastPath, Return, Frame, Key, TypeOK
<1>3. CASE TakeTable(t) \/ GetLock(t) \/ MakeLock(t) \/ Acquire(t)
  BY <1>3 DEF TakeTable, GetLock, MakeLock, Acquire, Frame, Key, TypeOK
<1>4. CASE Recheck(t)
  BY <1>4 DEF Recheck, Return, Frame, Key, TypeOK
<1>5. CASE List(t)
  <2>1. UNCHANGED lock
    BY <1>5 DEF List
  <2>2. CASE \E i \in Live(Key(t)) : Store(t, i)
    BY <2>1, <2>2 DEF Store, Return, Frame, Key, TypeOK
  <2>3. CASE GoTo(t, "create") /\ UNCHANGED <<todo, at, holds>>
    BY <2>1, <2>3 DEF Frame, Key, TypeOK
  <2>4. CASE Fail(t)
    BY <2>1, <2>4 DEF Fail, Frame, Key, TypeOK
  <2> QED BY <1>5, <2>2, <2>3, <2>4 DEF List
<1>6. CASE Create(t)
  <2>1. UNCHANGED lock
    BY <1>6 DEF Create
  <2>2. CASE Store(t, Len(folders) + 1)
    BY <2>1, <2>2 DEF Store, Return, Frame, Key, TypeOK
  <2>3. CASE Fail(t)
    BY <2>1, <2>3 DEF Fail, Frame, Key, TypeOK
  <2> QED BY <1>6, <2>2, <2>3 DEF Create
<1> QED BY <1>1, <1>2, <1>3, <1>4, <1>5, <1>6 DEF Step

(* A failed attempt is repeated with the lock held, or gives it up.        *)
LEMMA FailMoves ==
  ASSUME TypeOK, NEW t \in Threads, Frame(t), Fail(t),
         UNCHANGED <<locks, made, table, lock>>, pc[t] \in Critical
  PROVE  Stays(t) \/ Leaves(t)
<1>1. CASE tries[t] < MaxRetries - 1
  BY <1>1 DEF Fail, Stays, Key
<1>2. CASE ~(tries[t] < MaxRetries - 1)
  BY <1>2 DEF Fail, Leaves, GoTo, Critical, TypeOK
<1> QED BY <1>1, <1>2

\* A thread that stores an id leaves its lock.
LEMMA StoreMoves ==
  ASSUME TypeOK, Busy, NEW t \in Threads, Frame(t), NEW id \in Nat, Store(t, id),
         UNCHANGED <<locks, made, table>>, pc[t] \in Critical
  PROVE  Leaves(t)
<1>1. todo[t] # << >> /\ Return(t, id)
  BY DEF Busy, Critical, Store
<1>2. pc'[t] \in {"idle", "fast"} /\ (pc'[t] # "idle" => todo'[t] # << >>)
  BY <1>1, ReturnType
<1>3. holds'[t] = 0
  BY DEF Store, TypeOK
<1> QED BY <1>2, <1>3 DEF Leaves, Critical

\* Every step keeps LockInv.
LEMMA LockStep ==
  ASSUME TypeOK, LockInv, [Next]_vars
  PROVE  LockInv'
<1>1. ASSUME NEW t \in Threads, Ask(t) PROVE LockInv'
  <2>1. Frame(t)
    BY <1>1, StepFrame
  <2>2. pc[t] = "idle" /\ pc'[t] = "fast" /\ todo'[t] # << >>
        /\ UNCHANGED <<locks, made, table, holds>>
    BY <1>1, PathsAssumption DEF Ask, GoTo, TypeOK
  <2>3. Leaves(t)
    BY <2>1, <2>2 DEF Leaves
  <2> QED BY <2>3, LeavesLocks
<1>2. ASSUME NEW t \in Threads, FastPath(t) PROVE LockInv'
  <2>1. Frame(t)
    BY <1>2, StepFrame DEF Step
  <2>2. todo[t] # << >>
    BY <1>2 DEF FastPath, LockInv, Busy
  <2>3. CASE Key(t) \in DOMAIN cache
    <3>1. cache[Key(t)] \in Nat /\ Return(t, cache[Key(t)])
      BY <1>2, <2>3, CacheType DEF FastPath
    <3>2. pc'[t] \in {"idle", "fast"} /\ (pc'[t] # "idle" => todo'[t] # << >>)
      BY <2>2, <3>1, ReturnType
    <3>3. Leaves(t)
      BY <1>2, <2>1, <3>2 DEF Leaves, FastPath
    <3> QED BY <3>3, LeavesLocks
  <2>4. CASE Key(t) \notin DOMAIN cache
    <3>1. pc'[t] = "table" /\ UNCHANGED <<todo, at, locks, table, holds, lock>>
      BY <1>2, <2>4 DEF FastPath, GoTo, TypeOK
    <3> QED BY <2>1, <2>2, <3>1 DEF Frame, LockInv, Busy, TableHeld, LocksDiffer,
              LocksAreKeyed, Holding, OneHolder, Locking, Critical
  <2> QED BY <2>3, <2>4
<1>3. ASSUME NEW t \in Threads, TakeTable(t) PROVE LockInv'
  <2>1. Frame(t)
    BY <1>3, StepFrame DEF Step
  <2>2. /\ pc[t] = "table" /\ table = None /\ table' = t /\ pc'[t] = "get"
        /\ UNCHANGED <<todo, at, locks, holds, lock>>
    BY <1>3 DEF TakeTable, GoTo, TypeOK
  <2>3. \A u \in Threads : pc[u] \notin {"get", "make"}
    BY <2>2, ThreadsAssumption DEF LockInv, TableHeld
  <2> QED BY <2>1, <2>2, <2>3 DEF Frame, LockInv, Busy, TableHeld, LocksDiffer,
            LocksAreKeyed, Holding, OneHolder, Locking, Critical
<1>4. ASSUME NEW t \in Threads, GetLock(t) PROVE LockInv'
  <2>1. Frame(t)
    BY <1>4, StepFrame DEF Step
  <2>2. pc[t] = "get" /\ table = t /\ UNCHANGED <<todo, at, locks, holds>>
        /\ Key(t)' = Key(t)
    BY <1>4 DEF GetLock, LockInv, TableHeld, Key
  <2>3. \A u \in Threads \ {t} : pc[u] \notin {"get", "make"}
    BY <2>2 DEF LockInv, TableHeld
  <2>4. CASE Key(t) \in DOMAIN locks
    <3>1. lock'[t] = locks[Key(t)] /\ pc'[t] = "lock"
      BY <1>4, <2>4 DEF GetLock, GoTo, TypeOK
    <3> QED BY <2>1, <2>2, <2>3, <2>4, <3>1 DEF Frame, LockInv, Busy, TableHeld,
              LocksDiffer, LocksAreKeyed, Holding, OneHolder, Locking, Critical
  <2>5. CASE Key(t) \notin DOMAIN locks
    <3>1. pc'[t] = "make" /\ UNCHANGED <<table, lock>>
      BY <1>4, <2>5 DEF GetLock, GoTo, TypeOK
    <3> QED BY <2>1, <2>2, <2>3, <2>5, <3>1 DEF Frame, LockInv, Busy, TableHeld,
              LocksDiffer, LocksAreKeyed, Holding, OneHolder, Locking, Critical
  <2> QED BY <2>4, <2>5
<1>5. ASSUME NEW t \in Threads, MakeLock(t) PROVE LockInv'
  <2>1. Frame(t)
    BY <1>5, StepFrame DEF Step
  <2>2. /\ pc[t] = "make" /\ table = t /\ Key(t) \notin DOMAIN locks
        /\ pc'[t] = "lock" /\ lock'[t] = made + 1 /\ Key(t)' = Key(t)
        /\ UNCHANGED <<todo, holds>>
    BY <1>5 DEF MakeLock, GoTo, LockInv, TableHeld, Key, TypeOK
  <2>3. \A u \in Threads \ {t} : pc[u] \notin {"get", "make"}
    BY <2>2 DEF LockInv, TableHeld
  <2>4. /\ DOMAIN locks' = DOMAIN locks \cup {Key(t)}
        /\ locks'[Key(t)] = made + 1
        /\ \A k \in DOMAIN locks : k # Key(t) /\ locks'[k] = locks[k]
    BY <1>5, <2>2 DEF MakeLock, Add
  <2>5. \A k \in DOMAIN locks : locks[k] # made + 1
    BY DEF TypeOK
  <2>6. Busy' /\ TableHeld'
    BY <2>1, <2>2, <2>3 DEF Frame, LockInv, Busy, TableHeld
  <2>7. LocksDiffer'
    BY <2>2, <2>4, <2>5 DEF LockInv, LocksDiffer
  <2>8. LocksAreKeyed' /\ Holding' /\ OneHolder'
    BY <2>1, <2>2, <2>4 DEF Frame, LockInv, LocksAreKeyed, Holding, OneHolder,
       Locking, Critical
  <2> QED BY <2>6, <2>7, <2>8 DEF LockInv
<1>6. ASSUME NEW t \in Threads, Acquire(t) PROVE LockInv'
  <2>1. Frame(t)
    BY <1>6, StepFrame DEF Step
  <2>2. /\ pc[t] = "lock" /\ pc'[t] = "recheck" /\ holds'[t] = lock[t]
        /\ UNCHANGED <<todo, at, locks, table, lock>> /\ Key(t)' = Key(t)
        /\ \A u \in Threads : holds[u] # lock[t]
    BY <1>6 DEF Acquire, GoTo, Key, TypeOK
  <2>3. Busy' /\ TableHeld' /\ LocksDiffer'
    BY <2>1, <2>2 DEF Frame, LockInv, Busy, TableHeld, LocksDiffer
  <2>4. LocksAreKeyed' /\ Holding' /\ OneHolder'
    BY <2>1, <2>2 DEF Frame, LockInv, LocksAreKeyed, Holding, OneHolder, Locking,
       Critical
  <2> QED BY <2>3, <2>4 DEF LockInv
<1>7. ASSUME NEW t \in Threads, Recheck(t) PROVE LockInv'
  <2>1. Frame(t)
    BY <1>7, StepFrame DEF Step
  <2>2. pc[t] = "recheck" /\ todo[t] # << >> /\ UNCHANGED <<locks, made, table, lock>>
    BY <1>7 DEF Recheck, LockInv, Busy
  <2>3. CASE Key(t) \in DOMAIN cache
    <3>1. cache[Key(t)] \in Nat /\ Return(t, cache[Key(t)]) /\ holds'[t] = 0
      BY <1>7, <2>3, CacheType DEF Recheck, TypeOK
    <3>2. pc'[t] \in {"idle", "fast"} /\ (pc'[t] # "idle" => todo'[t] # << >>)
      BY <2>2, <3>1, ReturnType
    <3>3. Leaves(t)
      BY <2>1, <2>2, <3>1, <3>2 DEF Leaves
    <3> QED BY <3>3, LeavesLocks
  <2>4. CASE Key(t) \notin DOMAIN cache
    <3>1. pc'[t] = "list" /\ UNCHANGED <<todo, at, holds>>
      BY <1>7, <2>4 DEF Recheck, GoTo, TypeOK
    <3>2. Stays(t)
      BY <2>1, <2>2, <3>1 DEF Stays, Key, Critical
    <3> QED BY <3>2, StaysLocks
  <2> QED BY <2>3, <2>4
<1>8. ASSUME NEW t \in Threads, List(t) PROVE LockInv'
  <2>1. Frame(t)
    BY <1>8, StepFrame DEF Step
  <2>2. pc[t] \in Critical /\ UNCHANGED <<locks, made, table, lock>> /\ Busy
    BY <1>8 DEF List, LockInv, Critical
  <2>3. ASSUME NEW i \in Live(Key(t)), Store(t, i) PROVE LockInv'
    <3>1. i \in Nat
      BY LiveType
    <3> QED BY <2>1, <2>2, <2>3, <3>1, StoreMoves, LeavesLocks
  <2>4. CASE GoTo(t, "create") /\ UNCHANGED <<todo, at, holds>>
    <3>1. Stays(t)
      BY <2>1, <2>2, <2>4 DEF Stays, Key, Critical, GoTo, TypeOK
    <3> QED BY <3>1, StaysLocks
  <2>5. CASE Fail(t)
    BY <2>1, <2>2, <2>5, FailMoves, StaysLocks, LeavesLocks
  <2> QED BY <1>8, <2>3, <2>4, <2>5 DEF List
<1>9. ASSUME NEW t \in Threads, Create(t) PROVE LockInv'
  <2>1. Frame(t)
    BY <1>9, StepFrame DEF Step
  <2>2. pc[t] \in Critical /\ UNCHANGED <<locks, made, table, lock>> /\ Busy
    BY <1>9 DEF Create, LockInv, Critical
  <2>3. CASE Store(t, Len(folders) + 1)
    <3>1. Len(folders) + 1 \in Nat
      BY DEF TypeOK
    <3> QED BY <2>1, <2>2, <2>3, <3>1, StoreMoves, LeavesLocks
  <2>4. CASE Fail(t)
    BY <2>1, <2>2, <2>4, FailMoves, StaysLocks, LeavesLocks
  <2> QED BY <1>9, <2>3, <2>4 DEF Create
<1>10. CASE (\E i \in DOMAIN folders : Trash(i)) \/ UNCHANGED vars
  BY <1>10 DEF Trash, vars, LockInv, Busy, TableHeld, LocksDiffer, LocksAreKeyed,
     Holding, OneHolder, Key
<1>11. CASE NewProcess
  BY <1>11 DEF NewProcess, LockInv, Busy, TableHeld, LocksDiffer, LocksAreKeyed,
     Holding, OneHolder, Empty, Locking, Critical
<1> QED
  BY <1>1, <1>2, <1>3, <1>4, <1>5, <1>6, <1>7, <1>8, <1>9, <1>10, <1>11
  DEF Next, Step

----------------------------------------------------------------------------
(* Folders and the cache.                                                  *)

(* One thread at a time looks for a folder and creates it.                 *)
LEMMA OneAtWork ==
  ASSUME TypeOK, LockInv, NEW t \in Threads, NEW u \in Threads,
         pc[t] \in Critical, pc[u] \in Critical, Key(t) = Key(u)
  PROVE  t = u
<1>1. Key(t) \in DOMAIN locks /\ lock[t] = locks[Key(t)] /\ lock[u] = lock[t]
  BY DEF LockInv, LocksAreKeyed, Locking
<1>2. locks[Key(t)] # 0
  BY <1>1 DEF TypeOK
<1>3. holds[t] = lock[t] /\ holds[u] = lock[u]
  BY DEF LockInv, Holding
<1> QED BY <1>1, <1>2, <1>3 DEF LockInv, OneHolder

(* A thread that neither caches nor creates anything, and is not about to. *)
LEMMA QuietStep ==
  ASSUME FolderInv, NEW t \in Threads, Frame(t), UNCHANGED <<cache, folders>>,
         pc'[t] \in {"list", "create"} => pc'[t] = pc[t] /\ Key(t)' = Key(t)
  PROVE  FolderInv'
<1>1. \A u \in Threads :
        pc'[u] \in {"list", "create"} => pc'[u] = pc[u] /\ Key(u)' = Key(u)
  BY DEF Frame
<1>2. Uncached'
  BY <1>1 DEF FolderInv, Uncached
<1>3. CreateFresh'
  BY <1>1 DEF FolderInv, CreateFresh, KeyOf
<1>4. NoSecondFolder' /\ CacheIsRight'
  BY DEF FolderInv, NoSecondFolder, CacheIsRight, KeyOf
<1> QED BY <1>2, <1>3, <1>4 DEF FolderInv

(* A failed attempt, whatever it has left on Drive without telling.        *)
LEMMA FailStep ==
  ASSUME TypeOK, FolderInv, NEW t \in Threads, Frame(t), todo[t] # << >>,
         Fail(t), UNCHANGED cache,
         folders' \in {folders, Append(folders, Folder(t, FALSE))}
  PROVE  FolderInv'
<1>1. pc'[t] \in {"list", "create"} => pc'[t] = pc[t] /\ Key(t)' = Key(t)
  BY DEF Fail, GoTo, Key, TypeOK
<1>2. CASE folders' = folders
  BY <1>1, <1>2, QuietStep
<1>3. CASE folders' = Append(folders, Folder(t, FALSE))
  <2>1. /\ DOMAIN folders' = DOMAIN folders \cup {Len(folders) + 1}
        /\ folders'[Len(folders) + 1] = Folder(t, FALSE)
        /\ \A i \in DOMAIN folders : folders'[i] = folders[i]
    BY <1>3, FolderType
  <2>2. ~folders'[Len(folders) + 1].answered
    BY <2>1 DEF Folder
  <2>3. \A u \in Threads :
          pc'[u] \in {"list", "create"} => pc'[u] = pc[u] /\ Key(u)' = Key(u)
    BY <1>1 DEF Frame
  <2>4. Uncached'
    BY <2>3 DEF FolderInv, Uncached
  <2>5. CreateFresh'
    BY <2>1, <2>2, <2>3 DEF FolderInv, CreateFresh, KeyOf
  <2>6. NoSecondFolder'
    BY <2>1, <2>2 DEF FolderInv, NoSecondFolder, KeyOf
  <2>7. CacheIsRight'
    BY <2>1 DEF FolderInv, CacheIsRight, KeyOf, TypeOK
  <2> QED BY <2>4, <2>5, <2>6, <2>7 DEF FolderInv
<1> QED BY <1>2, <1>3

(* The folder a thread found or made goes into the cache.                  *)
LEMMA StoreStep ==
  ASSUME TypeOK, LockInv, FolderInv, NEW t \in Threads, Frame(t),
         NEW id \in Nat, Store(t, id), pc[t] \in Critical, todo[t] # << >>
  PROVE  /\ pc'[t] \notin {"list", "create"}
         /\ DOMAIN cache' = DOMAIN cache \cup {Key(t)}
         /\ cache'[Key(t)] = id
         /\ \A k \in DOMAIN cache : k # Key(t) => cache'[k] = cache[k]
         /\ Uncached'
<1>1. Return(t, id) /\ cache' = Add(cache, Key(t), id)
  BY DEF Store
<1>2. pc'[t] \notin {"list", "create"}
  BY <1>1, ReturnType
<1>3. /\ DOMAIN cache' = DOMAIN cache \cup {Key(t)}
      /\ cache'[Key(t)] = id
      /\ \A k \in DOMAIN cache : k # Key(t) => cache'[k] = cache[k]
  BY <1>1 DEF Add
<1>4. ASSUME NEW u \in Threads, pc'[u] \in {"list", "create"}
      PROVE  Key(u)' \notin DOMAIN cache'
  <2>1. u # t /\ pc[u] = pc'[u] /\ Key(u)' = Key(u)
    BY <1>2, <1>4 DEF Frame
  <2>2. Key(u) # Key(t)
    BY <1>4, <2>1, OneAtWork DEF Critical
  <2>3. Key(u) \notin DOMAIN cache
    BY <1>4, <2>1 DEF FolderInv, Uncached
  <2> QED BY <1>3, <2>1, <2>2, <2>3
<1> QED BY <1>2, <1>3, <1>4 DEF Uncached

\* Every step keeps FolderInv: what is stored was neither cached nor there.
LEMMA FolderStep ==
  ASSUME TypeOK, LockInv, FolderInv, [Next]_vars
  PROVE  FolderInv'
<1>1. ASSUME NEW t \in Threads,
             Ask(t) \/ FastPath(t) \/ TakeTable(t) \/ GetLock(t) \/ MakeLock(t)
               \/ Acquire(t)
      PROVE  FolderInv'
  <2>1. Frame(t)
    BY <1>1, StepFrame DEF Step
  <2>2. UNCHANGED <<cache, folders>>
    BY <1>1 DEF Ask, FastPath, TakeTable, GetLock, MakeLock, Acquire
  <2>3. pc'[t] \notin {"list", "create"}
    BY <1>1 DEF Ask, FastPath, TakeTable, GetLock, MakeLock, Acquire, Return,
       GoTo, TypeOK
  <2> QED BY <2>1, <2>2, <2>3, QuietStep
<1>2. ASSUME NEW t \in Threads, Recheck(t) PROVE FolderInv'
  <2>1. Frame(t) /\ UNCHANGED <<cache, folders>>
    BY <1>2, StepFrame DEF Step, Recheck
  <2>2. CASE Key(t) \in DOMAIN cache
    <3>1. pc'[t] \notin {"list", "create"}
      BY <1>2, <2>2 DEF Recheck, Return, GoTo, TypeOK
    <3> QED BY <2>1, <3>1, QuietStep
  <2>3. CASE Key(t) \notin DOMAIN cache
    <3>1. pc'[t] = "list" /\ Key(t)' = Key(t)
      BY <1>2, <2>3 DEF Recheck, GoTo, Key, TypeOK
    <3>2. Uncached'
      BY <2>1, <2>3, <3>1 DEF FolderInv, Uncached, Frame
    <3>3. CreateFresh'
      BY <2>1, <3>1 DEF FolderInv, CreateFresh, Frame, KeyOf
    <3>4. NoSecondFolder' /\ CacheIsRight'
      BY <2>1 DEF FolderInv, NoSecondFolder, CacheIsRight, KeyOf
    <3> QED BY <3>2, <3>3, <3>4 DEF FolderInv
  <2> QED BY <2>2, <2>3
<1>3. ASSUME NEW t \in Threads, List(t) PROVE FolderInv'
  <2>1. Frame(t) /\ pc[t] = "list" /\ UNCHANGED folders /\ todo[t] # << >>
    BY <1>3, StepFrame DEF Step, List, LockInv, Busy
  <2>2. ASSUME NEW i \in Live(Key(t)), Store(t, i) PROVE FolderInv'
    <3>1. i \in Nat /\ Folded(KeyOf(i)) = Folded(Key(t))
      BY LiveType
    <3>2. /\ pc'[t] \notin {"list", "create"}
          /\ DOMAIN cache' = DOMAIN cache \cup {Key(t)}
          /\ cache'[Key(t)] = i
          /\ \A k \in DOMAIN cache : k # Key(t) => cache'[k] = cache[k]
          /\ Uncached'
      BY <2>1, <2>2, <3>1, StoreStep DEF Critical
    <3>3. CreateFresh'
      BY <2>1, <3>2 DEF FolderInv, CreateFresh, Frame, KeyOf
    <3>4. CacheIsRight'
      BY <2>1, <3>1, <3>2 DEF FolderInv, CacheIsRight, KeyOf
    <3>5. NoSecondFolder'
      BY <2>1 DEF FolderInv, NoSecondFolder, KeyOf
    <3> QED BY <3>2, <3>3, <3>4, <3>5 DEF FolderInv
  <2>3. CASE /\ Live(Key(t)) = {} /\ GoTo(t, "create")
             /\ UNCHANGED <<cache, todo, at, holds, left>>
    <3>1. pc'[t] = "create" /\ Key(t)' = Key(t)
      BY <2>3 DEF GoTo, Key, TypeOK
    <3>2. \A i \in DOMAIN folders : ~(KeyOf(i) = Key(t) /\ folders[i].live)
      BY <2>3 DEF Live
    <3>3. Uncached'
      BY <2>1, <2>3, <3>1 DEF FolderInv, Uncached, Frame
    <3>4. CreateFresh'
      BY <2>1, <3>1, <3>2 DEF FolderInv, CreateFresh, Frame, KeyOf
    <3>5. NoSecondFolder' /\ CacheIsRight'
      BY <2>1, <2>3 DEF FolderInv, NoSecondFolder, CacheIsRight, KeyOf
    <3> QED BY <3>3, <3>4, <3>5 DEF FolderInv
  <2>4. CASE Fail(t) /\ UNCHANGED cache
    BY <2>1, <2>4, FailStep
  <2> QED BY <1>3, <2>2, <2>3, <2>4 DEF List
<1>4. ASSUME NEW t \in Threads, Create(t) PROVE FolderInv'
  <2>1. Frame(t) /\ pc[t] = "create" /\ todo[t] # << >>
    BY <1>4, StepFrame DEF Step, Create, LockInv, Busy
  <2>2. CASE /\ folders' = Append(folders, Folder(t, TRUE))
             /\ Store(t, Len(folders) + 1)
    <3>0. PICK new \in Nat : new = Len(folders) + 1
      BY DEF TypeOK
    <3>1. /\ DOMAIN folders' = DOMAIN folders \cup {new}
          /\ folders'[new] = Folder(t, TRUE)
          /\ \A i \in DOMAIN folders : folders'[i] = folders[i]
          /\ new \notin DOMAIN folders
      BY <2>1, <2>2, <3>0, FolderType
    <3>2. Store(t, new)
      BY <2>2, <3>0
    <3>3. /\ pc'[t] \notin {"list", "create"}
          /\ DOMAIN cache' = DOMAIN cache \cup {Key(t)}
          /\ cache'[Key(t)] = new
          /\ \A k \in DOMAIN cache : k # Key(t) => cache'[k] = cache[k]
          /\ Uncached'
      BY <2>1, <3>1, <3>2, StoreStep DEF Critical
    <3>4. KeyOf(new)' = Key(t) /\ \A i \in DOMAIN folders : KeyOf(i)' = KeyOf(i)
      BY <3>1 DEF KeyOf, Key, Folder
    <3>5. CreateFresh'
      <4> SUFFICES ASSUME NEW u \in Threads, pc'[u] = "create",
                          NEW i \in DOMAIN folders'
                   PROVE  ~(KeyOf(i)' = Key(u)' /\ folders'[i].live
                            /\ folders'[i].answered)
        BY DEF CreateFresh
      <4>1. u # t /\ pc[u] = "create" /\ Key(u)' = Key(u)
        BY <2>1, <3>3 DEF Frame
      <4>2. Key(u) # Key(t)
        BY <2>1, <4>1, OneAtWork DEF Critical
      <4>3. CASE i \in DOMAIN folders
        BY <3>1, <3>4, <4>1, <4>3 DEF FolderInv, CreateFresh
      <4>4. CASE i = new
        BY <3>4, <4>1, <4>2, <4>4
      <4> QED BY <3>1, <4>3, <4>4
    <3>6. NoSecondFolder'
      <4> SUFFICES ASSUME NEW i \in DOMAIN folders', NEW j \in DOMAIN folders',
                          KeyOf(i)' = KeyOf(j)',
                          folders'[i].live /\ folders'[j].live,
                          folders'[i].answered /\ folders'[j].answered
                   PROVE  i = j
        BY DEF NoSecondFolder
      <4>1. \A k \in DOMAIN folders :
              ~(KeyOf(k) = Key(t) /\ folders[k].live /\ folders[k].answered)
        BY <2>1 DEF FolderInv, CreateFresh
      <4>2. CASE i \in DOMAIN folders /\ j \in DOMAIN folders
        BY <3>1, <3>4, <4>2 DEF FolderInv, NoSecondFolder
      <4>3. CASE i = new \/ j = new
        BY <3>1, <3>4, <4>1, <4>3
      <4> QED BY <3>1, <4>2, <4>3
    <3>7. CacheIsRight'
      BY <3>1, <3>3, <3>4 DEF FolderInv, CacheIsRight, TypeOK
    <3> QED BY <3>3, <3>5, <3>6, <3>7 DEF FolderInv
  <2>3. CASE /\ folders' \in {folders, Append(folders, Folder(t, FALSE))}
             /\ Fail(t) /\ UNCHANGED cache
    BY <2>1, <2>3, FailStep
  <2> QED BY <1>4, <2>2, <2>3 DEF Create
<1>5. ASSUME NEW i \in DOMAIN folders, Trash(i) PROVE FolderInv'
  <2>1. /\ DOMAIN folders' = DOMAIN folders
        /\ \A j \in DOMAIN folders : KeyOf(j)' = KeyOf(j)
        /\ \A j \in DOMAIN folders : folders'[j].live => folders[j].live
        /\ \A j \in DOMAIN folders : folders'[j].answered = folders[j].answered
    BY <1>5, TrashType
  <2>2. UNCHANGED <<cache, pc, todo, at>> /\ \A u \in Threads : Key(u)' = Key(u)
    BY <1>5 DEF Trash, Key
  <2>3. Uncached' /\ CreateFresh'
    BY <2>1, <2>2 DEF FolderInv, Uncached, CreateFresh
  <2>4. NoSecondFolder'
    BY <2>1 DEF FolderInv, NoSecondFolder
  <2>5. CacheIsRight'
    BY <2>1, <2>2 DEF FolderInv, CacheIsRight, TypeOK
  <2> QED BY <2>3, <2>4, <2>5 DEF FolderInv
<1>6. CASE NewProcess
  BY <1>6 DEF NewProcess, FolderInv, Uncached, CreateFresh, NoSecondFolder,
     CacheIsRight, KeyOf, Empty
<1>7. CASE UNCHANGED vars
  BY <1>7 DEF vars, FolderInv, Uncached, CreateFresh, NoSecondFolder,
     CacheIsRight, KeyOf, Key
<1> QED
  BY <1>1, <1>2, <1>3, <1>4, <1>5, <1>6, <1>7 DEF Next, Step

----------------------------------------------------------------------------
(* The theorems.                                                           *)

\* The invariant is inductive.
LEMMA StepInv == IInv /\ [Next]_vars => IInv'
BY TypeStep, LockStep, FolderStep DEF IInv, LockInv

\* Hence it holds in every behaviour.
LEMMA Invariance == Spec => []IInv
BY InitInv, StepInv, PTL DEF Spec

(* The variables of get_or_create_folder keep their types: every cached id *)
(* is that of a folder, every lock object one that was made.               *)
THEOREM TypeCorrect == Spec => []TypeOK
BY Invariance, PTL DEF IInv

(* However many threads ask for a folder at once, at most one folder of a  *)
(* parent and a name, as it is spelled, is ever live with its creation     *)
(* answered: the lock per folder makes the search and the create one step. *)
THEOREM NoFolderTwice == Spec => []NoSecondFolder
BY Invariance, PTL DEF IInv, FolderInv

(* What the cache holds under a name and a parent is a folder of that      *)
(* parent and, but for its case, of that name, through lost answers,       *)
(* trashed folders, other spellings and new processes.                     *)
THEOREM CacheCorrect == Spec => []CacheIsRight
BY Invariance, PTL DEF IInv, FolderInv

(* A thread caches an id only for a folder that nobody has cached: it      *)
(* looked again once it had the lock, and has kept the lock since.         *)
LEMMA CacheGrows ==
  ASSUME IInv, [Next]_vars
  PROVE  \A k \in DOMAIN cache : k \in DOMAIN cache' => cache'[k] = cache[k]
<1> USE DEF IInv
<1>1. ASSUME NEW t \in Threads, NEW id \in Nat, Store(t, id),
             pc[t] \in {"list", "create"}
      PROVE  \A k \in DOMAIN cache : cache'[k] = cache[k]
  <2>1. Key(t) \notin DOMAIN cache
    BY <1>1 DEF FolderInv, Uncached
  <2>2. cache' = Add(cache, Key(t), id)
    BY <1>1 DEF Store
  <2> QED BY <2>1, <2>2 DEF Add
<1>2. ASSUME NEW t \in Threads, List(t)
      PROVE  \A k \in DOMAIN cache : cache'[k] = cache[k]
  <2>1. ASSUME NEW i \in Live(Key(t)), Store(t, i)
        PROVE  \A k \in DOMAIN cache : cache'[k] = cache[k]
    <3>1. i \in Nat
      BY LiveType
    <3> QED BY <1>1, <1>2, <2>1, <3>1 DEF List
  <2> QED BY <1>2, <2>1 DEF List
<1>3. ASSUME NEW t \in Threads, Create(t)
      PROVE  \A k \in DOMAIN cache : cache'[k] = cache[k]
  <2>1. Len(folders) + 1 \in Nat
    BY DEF TypeOK
  <2> QED BY <1>1, <1>3, <2>1 DEF Create
<1>4. CASE NewProcess
  BY <1>4 DEF NewProcess, Empty
<1>5. ASSUME NEW t \in Threads,
             Ask(t) \/ FastPath(t) \/ TakeTable(t) \/ GetLock(t) \/ MakeLock(t)
               \/ Acquire(t) \/ Recheck(t)
      PROVE  UNCHANGED cache
  BY <1>5 DEF Ask, FastPath, TakeTable, GetLock, MakeLock, Acquire, Recheck
<1>6. ASSUME UNCHANGED vars \/ \E i \in DOMAIN folders : Trash(i)
      PROVE  UNCHANGED cache
  BY <1>6 DEF vars, Trash
<1> QED BY <1>2, <1>3, <1>4, <1>5, <1>6 DEF Next, Step

(* Within a process the id of a folder never changes, so the files of one  *)
(* run go to one folder.                                                   *)
THEOREM IdsAreStable == Spec => OneIdPerProcess
<1>1. IInv /\ [Next]_vars =>
        [\A k \in DOMAIN cache : k \in DOMAIN cache' => cache'[k] = cache[k]]_vars
  BY CacheGrows
<1> QED BY <1>1, Invariance, PTL DEF Spec, OneIdPerProcess
=============================================================================
