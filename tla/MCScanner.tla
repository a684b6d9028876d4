------------------------------ MODULE MCScanner ------------------------------
(***************************************************************************)
(* The instance is given by the configuration: one buffer and one text in  *)
(* the mail, as the firmware is built, and short sounds.                   *)
(***************************************************************************)
EXTENDS Scanner
=============================================================================
