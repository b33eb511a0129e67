--------------------------- MODULE MC_StreamTable ---------------------------
(***************************************************************************)
(* Short ids are kept as they are; one id of more than 31 bytes is cut.    *)
(***************************************************************************)
EXTENDS StreamTable, TLC

ShortStored == [s \in Cameras |-> s]
LongStored  == [s \in Cameras |-> IF s = "longId" THEN "cut" ELSE s]
Threads     == Permutations(Writers)
=============================================================================
