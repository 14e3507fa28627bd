------------------------------ MODULE MCDhcpd ------------------------------
(***************************************************************************)
(* Small instances of Dhcpd for TLC: two dynamic clients and a static one, *)
(* whose address lies inside the range.                                    *)
(***************************************************************************)
EXTENDS Dhcpd, TLC

CONSTANTS c1, c2, s1

MCStaticLeases == <<[chaddr |-> s1, yiaddr |-> 2]>>
Dynamic == Permutations({c1, c2})

=============================================================================
