------------------------------ MODULE MCSloop ------------------------------
(***************************************************************************)
(* Small instances of Sloop for TLC; the constants are in the .cfg files.  *)
(***************************************************************************)
EXTENDS Sloop
=============================================================================
