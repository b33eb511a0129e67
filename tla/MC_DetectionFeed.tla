-------------------------- MODULE MC_DetectionFeed ---------------------------
(* An instance of DetectionFeed for TLC: the handlers are interchangeable.   *)
EXTENDS DetectionFeed

HandlerSymmetry == Permutations(Handlers)
=============================================================================
