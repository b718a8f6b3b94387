------------------------------ MODULE MCAuditLog ------------------------------
(***************************************************************************)
(* Two handlers, a channel of three with a reserve of two, files of two    *)
(* lines, a checkpoint every two records, two restarts.                    *)
(***************************************************************************)
EXTENDS AuditLog
=============================================================================
