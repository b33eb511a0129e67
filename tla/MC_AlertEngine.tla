--------------------------- MODULE MC_AlertEngine ---------------------------
(***************************************************************************)
(* One camera with a track that may be suspicious, and a second one whose  *)
(* frames only move the engine's pruning clock.                            *)
(***************************************************************************)
EXTENDS AlertEngine

MCTracks == {<<"entrance", 1>>}
=============================================================================
