------------------------------ MODULE MCDhcpc ------------------------------
(***************************************************************************)
(* Small instances of Dhcpc for TLC.                                       *)
(***************************************************************************)
EXTENDS Dhcpc

\* No option, "-n -q -S 0" and "--queryserver".
MCOptions == {{}, {"now", "quit", "sleep0"}, {"queryserver"}}

=============================================================================
