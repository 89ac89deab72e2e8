---------------------------- MODULE MCRangeScan ----------------------------
(***************************************************************************)
(* Configurations over a tiny address space: 16 IPv4 addresses and IPv6    *)
(* addresses from 32 on.                                                   *)
(***************************************************************************)
EXTENDS RangeScan

Range(net, bits, start, end, gateway) ==
  [net |-> net, bits |-> bits, start |-> start, end |-> end, gateway |-> gateway]

(* Every way to leave out or to give a start, an end and a gateway, wrong  *)
(* ones included; subnets too small, with host bits set, and of both       *)
(* families.                                                               *)
SingleRanges ==
  {Range(n, b, f, e, g) : n \in {0, 2, 4}, b \in {1, 2, 3}, f \in {NoIP, 0, 2, 5, 7},
                          e \in {NoIP, 0, 3, 5, 7, 34}, g \in {NoIP, 5, 9}}
  \cup {Range(32, 2, f, e, g) : f \in {NoIP, 32, 34}, e \in {NoIP, 33, 35}, g \in {NoIP, 34}}

(* The ranges that are combined into sets and configurations.              *)
PairedRanges ==
  {Range(0, 3, f, e, g) : f \in {NoIP, 3, 5}, e \in {NoIP, 3, 4, 6}, g \in {NoIP, 4}}
  \cup {Range(4, 2, f, e, NoIP) : f \in {NoIP, 6}, e \in {NoIP, 6}}
  \cup {Range(8, 2, NoIP, NoIP, NoIP), Range(32, 2, NoIP, NoIP, NoIP)}

Conf(runtime, single, ranges, many) ==
  [runtime |-> runtime, single |-> single, ranges |-> ranges, manyPerFamily |-> many]

MCAllConfs ==
  {Conf(<<>>, <<<<r>>>>, <<>>, TRUE) : r \in SingleRanges}
  \cup {Conf(<<>>, <<>>, <<<<p, q>>>>, TRUE) : p, q \in PairedRanges}
  \cup {Conf(<<<<p>>>>, <<>>, <<<<q>>>>, m) : p, q \in PairedRanges, m \in BOOLEAN}
  \cup {Conf(<<>>, <<>>, x, TRUE) : x \in {<<>>, <<<<>>>>}}

(* The configurations without a range that starts at the broadcast         *)
(* address.  NextIP keeps the family in all of them.                       *)
MCConfs ==
  {c \in MCAllConfs : \A r \in RangesOf(c) : ~StartsAtBroadcast(r) /\ KeepsFamily(r)}

MCLastIPs == {NoIP, 1, 3, 4, 6, 11, 33}
=============================================================================
