---------------------------- MODULE MCBackupRun -----------------------------
(***************************************************************************)
(* Small instances of BackupRun for TLC: the constants the .cfg files      *)
(* choose from.                                                            *)
(***************************************************************************)
EXTENDS BackupRun

CONSTANTS f1, f2, f3, a, b, c

\* Drive names: `x' and, encrypted, `x.enc' in the same folder.
MCNames == Files \X {"plain", "enc"}
MCNameOf == [x \in Files \X BOOLEAN |-> <<x[1], IF x[2] THEN "enc" ELSE "plain">>]

\* a and b have the same length.
MCSize == [x \in Contents |-> IF x = c THEN 2 ELSE 1]

\* A content that was replaced does not come back.
Forward == {<<a, b>>, <<a, c>>, <<b, c>>, <<a, Absent>>, <<b, Absent>>, <<Absent, c>>}

Opt(encrypt, full, prune) == [encrypt |-> encrypt, full |-> full, prune |-> prune]
PlainRuns == {Opt(FALSE, FALSE, "none")}
EncryptedRuns == {Opt(TRUE, FALSE, "none")}
FlipRuns == PlainRuns \cup EncryptedRuns
FlagAndFullRuns == {Opt(TRUE, full, "flag") : full \in BOOLEAN}
TrashRuns == {Opt(FALSE, FALSE, "trash")}
PruneRuns == TrashRuns \cup {Opt(FALSE, FALSE, "flag")}

Never == [event \in Events |-> 0]
CrashBudget == [Never EXCEPT !["run"] = 2, !["write"] = 2, !["crash"] = 1, !["driveFault"] = 1]
FlipBudget == [Never EXCEPT !["run"] = 3, !["write"] = 1, !["lose"] = 1, !["purge"] = 1]
PruneBudget == [Never EXCEPT !["run"] = 3, !["write"] = 2, !["crash"] = 1,
                             !["interrupt"] = 1, !["driveFault"] = 1]
QuietBudget == [Never EXCEPT !["run"] = 3, !["write"] = 2, !["interrupt"] = 2, !["crash"] = 1,
                             !["lose"] = 1, !["saveFault"] = 1, !["driveFault"] = 2,
                             !["lostCreate"] = 1]
BoundBudget == [Never EXCEPT !["run"] = 1, !["interrupt"] = 2, !["saveFault"] = 1,
                             !["scanError"] = 1]
=============================================================================
