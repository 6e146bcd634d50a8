--------------------------- MODULE MCPostgresBackup ----------------------------
(***************************************************************************)
(* Two backups of an instance with one file name, the second of which is   *)
(* requested after the first has succeeded.                                *)
(***************************************************************************)
EXTENDS PostgresBackup

const_Tasks == {<<"a", 1>>, <<"a", 2>>}
===============================================================================
