------------------------- MODULE MCChangeExecution -------------------------
(* ChangeExecution on a device whose settings hold one of three values.    *)
EXTENDS ChangeExecution

CONSTANTS missing, old, target
MCValues == {missing, old, target}
=============================================================================
