------------------------------ MODULE MCRestore ------------------------------
(* Instances of Restore for TLC: a plain file in a repository, a secret.   *)
EXTENDS Restore, TLC

CONSTANTS b1, b2, repo

Plain == <<"notes">>
Secret == <<"token">>
MCOrder == <<Plain, Secret>>
MCSecrets == {Secret}
MCRepos == repo :> {Plain}
=============================================================================
