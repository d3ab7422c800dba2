------------------------------ MODULE MCProcess ------------------------------
(***************************************************************************)
(* The instance of Process for TLC.                                        *)
(***************************************************************************)
EXTENDS Process

Both == {"main", "ticker"}
=============================================================================
