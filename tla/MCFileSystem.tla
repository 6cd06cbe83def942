---------------------------- MODULE MCFileSystem ----------------------------
(* The file system on small cards. *)
EXTENDS FileSystemProperties, TLC

CONSTANTS t1, t2, none

Tags == Permutations({t1, t2})
=============================================================================
