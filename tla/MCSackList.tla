----------------------------- MODULE MCSackList -----------------------------
(* Instances of SackList for TLC.                                          *)
EXTENDS SackList
=============================================================================
