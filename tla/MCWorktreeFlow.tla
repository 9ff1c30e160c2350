--------------------------- MODULE MCWorktreeFlow ---------------------------
(* Instances of WorktreeFlow for TLC.                                      *)
EXTENDS WorktreeFlow, TLC

CONSTANTS r1, r2, alpha, beta

ApartPlans == r1 :> alpha @@ r2 :> beta
ApartNames == r1 :> <<"alpha">> @@ r2 :> <<"beta">>

Config(m, k) == [mode |-> m, keep |-> k]

(* One run may stop before its merge, the other keeps its worktrees.       *)
MixedConfigs == r1 :> {Config("squash", FALSE), Config("stop", FALSE)}
             @@ r2 :> {Config("no-ff", TRUE)}
SoloConfigs == r1 :> [mode : Modes, keep : BOOLEAN]
SoloPlan == r1 :> alpha
SoloNames == r1 :> <<"alpha">>
=============================================================================
