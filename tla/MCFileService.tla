--------------------------- MODULE MCFileService ---------------------------
(***************************************************************************)
(* One file and a few tasks for TLC.  The tasks are interchangeable.       *)
(***************************************************************************)
EXTENDS FileService, TLC

TaskSymmetry == Permutations(Tasks)
=============================================================================
