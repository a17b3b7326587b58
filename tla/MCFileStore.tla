---------------------------- MODULE MCFileStore ----------------------------
(***************************************************************************)
(* FileStore on small instances.  Clients are model values; two calls are  *)
(* enough for every race of a pair.                                        *)
(***************************************************************************)
EXTENDS FileStore, TLC

ClientSymmetry == Permutations(Clients)
=============================================================================
