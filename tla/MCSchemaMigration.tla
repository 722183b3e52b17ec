-------------------------- MODULE MCSchemaMigration --------------------------
(* SchemaMigration on small sets, for TLC; two columns of the three. *)
EXTENDS SchemaMigration

MCMigrations == <<"scan_status", "scan_detail">>
=============================================================================
