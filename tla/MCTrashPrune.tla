---------------------------- MODULE MCTrashPrune ----------------------------
(* Instances of TrashPrune for TLC.  The names are numbers: directories 1, *)
(* 2 (name 1 in another case), 3 and 4, files 8 and 9.                     *)
EXTENDS TrashPrune, TLC

Fold12 == [n \in 1..9 |-> IF n = 2 THEN 1 ELSE n]
F1 == <<1, 8>>
F2 == <<1, 3, 4, 8>>
F3 == <<2, 3, 9>>
F4 == <<2, 9>>
MCKeys == {F1, F2, F3, F4}
MCOrder == <<<<1>>, F1, <<1, 3>>, <<1, 3, 4>>, F2, <<2>>, F4, <<2, 3>>, F3>>

\* Nothing, or an item in the inner or the outermost folder.
MCForeign == {{}, {<<<<1, 3>>, 1>>}, {<<<<1>>, 1>>}}
MCKinds ==
  F1 :> {"stale", "excluded", "kept"}
  @@ F2 :> {"stale", "excluded", "protected", "marked", "returned"}
  @@ F3 :> {"untracked", "stale", "kept", "unnamed"}
  @@ F4 :> {"excluded", "marked", "unnamed"}
\* The third file may have gone to a second folder of its path.
MCCopies == [k \in MCKeys |-> IF k = F3 THEN {1, 2} ELSE {1}]

\* One folder with a file to go beside two that --prune marked: one of them is
\* protected since, the other is back and was not uploaded again.
HistoryKeys == {<<1, 7>>, <<1, 8>>, <<1, 9>>}
HistoryOrder == <<<<1>>, <<1, 7>>, <<1, 8>>, <<1, 9>>>>
HistoryKinds ==
  <<1, 7>> :> {"excluded"} @@ <<1, 8>> :> {"shielded"} @@ <<1, 9>> :> {"returned"}
HistoryCopies == [k \in HistoryKeys |-> {1}]
=============================================================================
