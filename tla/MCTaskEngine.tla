----------------------------- MODULE MCTaskEngine -----------------------------
(* Model-checking instances of TaskEngine. *)
EXTENDS TaskEngine
===============================================================================
