---------------------------- MODULE MCConnection ----------------------------
(***************************************************************************)
(* The instances of Connection that TLC checks; the configurations choose  *)
(* the set-ups, the faults and who ends the connection.                    *)
(***************************************************************************)
EXTENDS Connection
=============================================================================
