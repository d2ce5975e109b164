----------------------------- MODULE MCAuditLog -----------------------------
(* TLC instances of AuditLog: two calls in flight, every one of which may  *)
(* be a checkpoint.                                                        *)
EXTENDS AuditLog, TLC

CONSTANTS c1, c2

Symmetry == Permutations(Calls)
=============================================================================
