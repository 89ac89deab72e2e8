---------------------------- MODULE MCInterfaces ----------------------------
(***************************************************************************)
(* Instances of Interfaces: one attachment of every plugin, in layer 2 and *)
(* layer 3 mode where it has both, beside one of bridge.                   *)
(***************************************************************************)
EXTENDS Interfaces

CONSTANTS a1, a2, x1, x2

Conf(plugin, layer3) ==
  [plugin |-> plugin, layer3 |-> layer3, ipMasq |-> FALSE, macSpoofChk |-> FALSE, nftables |-> FALSE]

WithRules(c, nft) == [c EXCEPT !.ipMasq = TRUE, !.macSpoofChk = c.plugin = "bridge", !.nftables = nft]

MCAtt == {a1, a2}
MCIPs == {x1, x2}

MCPluginConfs ==
  {Conf(p, TRUE) : p \in {"macvlan", "ipvlan", "vlan", "tap", "dummy"}}
  \cup {Conf(p, FALSE) : p \in {"macvlan", "ipvlan", "tap", "bridge"}}
  \cup {WithRules(Conf(p, TRUE), nft) : p \in {"bridge", "ptp"}, nft \in BOOLEAN}

MCConfs == {[a \in MCAtt |-> IF a = a1 THEN c ELSE Conf("bridge", TRUE)] : c \in MCPluginConfs}

MCIpvlanAtt == {a1}
MCIpvlanConfs == {[a \in MCIpvlanAtt |-> Conf("ipvlan", TRUE)]}
=============================================================================
