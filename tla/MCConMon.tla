------------------------------ MODULE MCConMon ------------------------------
(* ConMon for TLC: the constants are numbers and stand in the .cfg.         *)
EXTENDS ConMon
=============================================================================
