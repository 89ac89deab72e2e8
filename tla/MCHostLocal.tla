---------------------------- MODULE MCHostLocal ----------------------------
(***************************************************************************)
(* Small stores for HostLocal.  Range set 1 is made of two ranges, one     *)
(* with its gateway inside; range set 2 has a single address, so that one  *)
(* attachment exhausts it.                                                 *)
(***************************************************************************)
EXTENDS HostLocal

CONSTANT c1

Range(net, start, end, gateway) ==
  [net |-> net, bits |-> 2, start |-> start, end |-> end, gateway |-> gateway]

(* Two interfaces of one container: they share the files an older release  *)
(* wrote for it.                                                           *)
MCContainers == {c1}
MCAtt == {<<c1, "eth0">>, <<c1, "eth1">>}

MCSets == << <<Range(0, 1, 2, 2), Range(4, 5, 5, 4)>>, <<Range(8, 10, 10, 9)>> >>
MCIPs == {1, 2, 5, 10}

(* No request, a gateway, and one address of each set.                     *)
MCRequests == {{}, {2}, {5, 10}}

(* The store of the run with liveness; no range set has 12.                *)
MCSmallSets == << <<Range(0, 1, 3, 2)>>, <<Range(8, 10, 10, 9)>> >>
MCSmallIPs == {1, 2, 3, 10}
MCSmallRequests == {{}, {3, 12}}

Old(S) == [x \in IPs |-> IF x \in S THEN c1 ELSE Free]
MCOldFiles == {Old({}), Old({1})}

(* Nothing, or what remains when the two range sets were swapped.          *)
MCOldLast == {<<NoIP, NoIP>>, <<10, 5>>}
MCNoOldLast == {<<NoIP, NoIP>>}
=============================================================================
