------------------------------- MODULE MCDHCP -------------------------------
(***************************************************************************)
(* Instances of DHCP: one client, with one call at a time or two.  Clients *)
(* share nothing but the map, whose entries are their own.                 *)
(***************************************************************************)
EXTENDS DHCP

CONSTANTS c1, l1, l2, l3

OneClient == {c1}
OneCall == {1}
TwoCalls == {1, 2}
TwoLeases == {l1, l2}
ThreeLeases == {l1, l2, l3}
=============================================================================
