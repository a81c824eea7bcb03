-------------------------- MODULE MCAssignmentNotice --------------------------
(* Instances of AssignmentNotice for TLC.                                  *)
EXTENDS AssignmentNotice
===============================================================================
