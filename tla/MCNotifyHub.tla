----------------------------- MODULE MCNotifyHub -----------------------------
(***************************************************************************)
(* Instances of NotifyHub for TLC.                                          *)
(***************************************************************************)
EXTENDS NotifyHub
=============================================================================
