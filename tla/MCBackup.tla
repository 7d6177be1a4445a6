------------------------------- MODULE MCBackup -------------------------------
(* Model-checking instance of Backup.                                        *)
EXTENDS Backup

=============================================================================
