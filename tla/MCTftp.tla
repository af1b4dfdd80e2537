------------------------------- MODULE MCTftp -------------------------------
(* Instance of Tftp for TLC. *)
EXTENDS Tftp
=============================================================================
