------------------------------ MODULE Landing ------------------------------
(***************************************************************************)
(* What the work-tree flow of .omp/scripts/worktree_flow promises the      *)
(* owner of a repository: the history of the base branch only grows (but   *)
(* for what the owner rewrites), a run lands one head of its feature       *)
(* branch again only when other work has come on top of it, and a feature  *)
(* branch is given up only after a commit of its run is on the base branch.*)
(* WorktreeFlow implements it.                                             *)
(***************************************************************************)
EXTENDS Naturals, Sequences, SequencesExt

CONSTANTS
  Runs,      \* identifiers of the runs of the flow
  NoRun,     \* the author of the owner's own commits
  MaxHead,   \* the largest number of commits on a feature branch
  UserMax    \* the largest number of commits the owner makes

VARIABLES
  base,      \* the base branch, a sequence of commits
  freed      \* the runs whose feature branch has been deleted

Kinds == {"user", "integration", "archive", "stop", "finalize"}

Commit == [kind : Kinds, run : Runs \cup {NoRun}, of : Nat]

Landed(b, r, h) ==
  \E i \in DOMAIN b : b[i] = [kind |-> "integration", run |-> r, of |-> h]

Init ==
  /\ base = << >>
  /\ freed = {}

(* Work of somebody, or another head, is on top of it: it may undo it.     *)
Overlaid(b, r, h) ==
  \E j \in DOMAIN b :
    /\ b[j].kind \in {"user", "integration"}
    /\ \A i \in j..Len(b) :
         b[i] # [kind |-> "integration", run |-> r, of |-> h]

(* One head of a feature branch reaches the base branch.                   *)
Land(r, h) ==
  /\ Landed(base, r, h) => Overlaid(base, r, h)
  /\ base' = Append(base, [kind |-> "integration", run |-> r, of |-> h])
  /\ UNCHANGED freed

(* A run commits its own records beside its work.                          *)
Record(r, kind) ==
  /\ base' = Append(base, [kind |-> kind, run |-> r, of |-> 0])
  /\ UNCHANGED freed

(* A feature branch is deleted: its work is on the base branch.            *)
Free(r) ==
  /\ \E h \in 1..MaxHead : Landed(base, r, h)
  /\ r \notin freed
  /\ freed' = freed \cup {r}
  /\ UNCHANGED base

(* The owner commits, or rewrites the last commit when it is their own.    *)
Owner(n) ==
  /\ \/ base' = Append(base, [kind |-> "user", run |-> NoRun, of |-> n])
     \/ /\ base # << >>
        /\ Last(base).kind = "user"
        /\ base' = Append(Front(base),
                          [kind |-> "user", run |-> NoRun, of |-> n])
  /\ UNCHANGED freed

Next ==
  \/ \E r \in Runs, h \in 1..MaxHead : Land(r, h)
  \/ \E r \in Runs, kind \in {"archive", "stop", "finalize"} : Record(r, kind)
  \/ \E r \in Runs : Free(r)
  \/ \E n \in 1..UserMax : Owner(n)

Spec == Init /\ [][Next]_<<base, freed>>
=============================================================================
