---------------------------- MODULE MCAuditLog ----------------------------
(***************************************************************************)
(* AuditLog on small instances.                                            *)
(***************************************************************************)
EXTENDS AuditLog, TLC

EventSymmetry == Permutations(Events)
=============================================================================
