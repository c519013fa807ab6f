----------------------------- MODULE MCEngineRun -----------------------------
(***************************************************************************)
(* Two attempts, the lane's default, beside one salvage; a person moves    *)
(* the page once, and one run is killed and harvested for.                 *)
(***************************************************************************)
EXTENDS Salvage
=============================================================================
