---------------------------- MODULE MCFolderCache ----------------------------
(* An instance of FolderCache for TLC: two threads, nested folders, two    *)
(* spellings of one name.                                                  *)
EXTENDS FolderCache, TLC

CONSTANTS t1, t2, a, A, b

Nested == {<<a>>, <<A, b>>}
NoCase == [n \in {a, A, b} |-> IF n = A THEN a ELSE n]
=============================================================================
