-------------------------- MODULE MCAnalysisService --------------------------
(* Small instances of AnalysisService for TLC.                             *)
EXTENDS AnalysisService, TLC

CONSTANTS flat, nested, old, new, w1, w2, j1

(* One function, in app.py of one repository and in src/app.py of another: *)
(* each location is a loose form of the other.                             *)
CodeLocations == {flat, nested}
FileOfLocation == (flat :> "app.py") @@ (nested :> "src/app.py")
ChunksOfRepo == (old :> {flat}) @@ (new :> {nested})
LooseMatches == {<<flat, nested>>, <<nested, flat>>}
EngineFacts == {[source |-> "known", location |-> flat],
                [source |-> "fact", location |-> nested]}
WorkersAlike == Permutations(Workers)
=============================================================================
