---------------------------- MODULE MCAlertPoller ----------------------------
(***************************************************************************)
(* Small instances of AlertPoller.                                         *)
(***************************************************************************)
EXTENDS AlertPoller

==============================================================================
