----------------------------- MODULE MCPipeline -----------------------------
(* Two wired apps and one whose job always runs its range; codeunits 2 and  *)
(* 4 only compile where the version's symbols are defined.                  *)
EXTENDS Pipeline, TLC

MCTests == "a" :> 1..3 @@ "b" :> 4..5 @@ "c" :> {6}
MCLeg == {<<"a", FALSE>>, <<"b", TRUE>>, <<"c", TRUE>>}

(* Ids and ranges, one that picks only a codeunit with an #if, none for an  *)
(* app, a range that ends before it starts, junk, an app that is not wired, *)
(* an unknown id, the empty object                                          *)
MCInputs ==
  { "a" :> {<<2, 2>>}, "a" :> {<<1, 2>>, <<9, 9>>} @@ "b" :> {<<4, 4>>},
    "a" :> {}, "b" :> {<<5, 4>>}, "a" :> {<<1, 1>>, Junk},
    "a" :> {<<1, 1>>} @@ "c" :> {<<6, 6>>}, FullRun }
MCDiffs == {FullRun, "a" :> {1} @@ "b" :> {4, 5}, "a" :> {2, 3} @@ "b" :> {5}}
=============================================================================
