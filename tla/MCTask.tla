------------------------------- MODULE MCTask -------------------------------
(* Task on small instances: the idle task's page and a few others.           *)
EXTENDS Task
=============================================================================
