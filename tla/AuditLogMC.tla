----------------------------- MODULE AuditLogMC -----------------------------
(* AuditLog for TLC.  Neither Spec nor an invariant tells two calls, or two     *)
(* tenants, apart.                                                             *)
EXTENDS AuditLog, TLC

CONSTANTS c1, c2, c3, c4, t1, t2

FourCalls == {c1, c2, c3, c4}
TwoTenants == {t1, t2}
Symmetry == Permutations(Calls) \cup Permutations(Tenants)
=============================================================================
