------------------------------ MODULE MCChain -------------------------------
(***************************************************************************)
(* Small instances of Chain: two attachments, in families of               *)
(* configurations.  The members of a family share what is at stake: a      *)
(* device, the chains of iptables, a container.                            *)
(***************************************************************************)
EXTENDS Chain, TLC

CONSTANTS a1, a2

Both(x, y) == (a1 :> x) @@ (a2 :> y)

Device(cid, byName, falls, ipam, dpdk) ==
  [chain |-> <<"host-device">>, cid |-> cid, parallel |-> FALSE,
   byName |-> byName, falls |-> falls, ipam |-> ipam, dpdk |-> dpdk]

Tuned(cid, falls, sys, tunes, canonical) ==
  [chain |-> <<"host-device", "tuning">>, cid |-> cid, parallel |-> FALSE,
   byName |-> FALSE, falls |-> falls, ipam |-> FALSE, dpdk |-> FALSE,
   sysctl |-> sys, tunes |-> tunes, canonical |-> canonical]

(* Two containers that want the same device.                               *)
DeviceConfs ==
  {Both(Device(a1, byName, falls, TRUE, FALSE), Device(a2, FALSE, falls, FALSE, FALSE)) :
     byName \in BOOLEAN, falls \in BOOLEAN}
    \cup {Both(Device(a1, TRUE, TRUE, TRUE, TRUE), Device(a2, TRUE, TRUE, FALSE, FALSE))}

TuningConfs ==
  {Both(Tuned(a1, TRUE, "allowed", {"mac", "mtu"}, FALSE), Device(a2, TRUE, TRUE, FALSE, TRUE)),
   Both(Tuned(a1, TRUE, "none", {"promisc"}, TRUE), Tuned(a2, TRUE, "none", {}, TRUE)),
   Both(Tuned(a1, TRUE, "none", {"mac"}, TRUE), Device(a2, TRUE, TRUE, FALSE, TRUE)),
   Both(Tuned(a1, TRUE, "refused", {"mac"}, TRUE), Device(a2, TRUE, TRUE, FALSE, TRUE))}

(* Two containers that share the chains of iptables or nftables.           *)
Ports(cid, masq, backend, snat, ports, hostIP) ==
  [chain |-> When(masq # "", <<"veth", "ipMasq">>) \o <<"portmap">>,
   cid |-> cid, parallel |-> FALSE, masq |-> masq,
   portmap |-> backend, snat |-> snat, ports |-> ports, hostIP |-> hostIP]

Masq(cid, masq) ==
  [chain |-> <<"veth", "ipMasq">>, cid |-> cid, parallel |-> FALSE, masq |-> masq]

(* The last are two networks of one container.                             *)
PortmapConfs ==
  {Both(Ports(a1, "", "iptables", TRUE, 1, FALSE), Masq(a2, "iptables")),
   Both(Ports(a1, "", "iptables", FALSE, 1, FALSE), Ports(a2, "", "iptables", FALSE, 1, FALSE)),
   Both(Ports(a1, "nftables", "nftables", TRUE, 3, FALSE),
        Ports(a2, "", "nftables", TRUE, 2, TRUE)),
   Both(Ports(a1, "", "nftables", FALSE, 3, TRUE),
        Ports(a2, "", "iptables", FALSE, 1, FALSE)),
   Both(Ports(a1, "", "nftables", FALSE, 1, FALSE), Ports(a1, "", "nftables", TRUE, 2, TRUE))}

Fire(cid, backend, policy, bridge) ==
  [chain |-> <<"firewall">>, cid |-> cid, parallel |-> FALSE,
   firewall |-> backend, policy |-> policy, bridge |-> bridge]

FirewallConfs ==
  {Both(Fire(a1, "firewalld", "isolated", "br0"), Fire(a2, "firewalld", "same-bridge", "br0")),
   Both(Fire(a1, "iptables", "open", ""), Fire(a2, "iptables", "open", ""))}

(* A container of its own, or two interfaces of the same container.        *)
Limited(cid, entry, ingress, egress) ==
  [chain |-> <<"veth", "bandwidth">>, cid |-> cid, parallel |-> FALSE,
   entry |-> entry, ingress |-> ingress, egress |-> egress]

InVrf(cid, vrf, t, sourced) ==
  [chain |-> <<"veth", "vrf">>, cid |-> cid, parallel |-> FALSE,
   vrf |-> vrf, vrfTable |-> t, sourced |-> sourced]

Routed(cid, ips, gateway, t) ==
  [chain |-> <<"veth", "sbr">>, cid |-> cid, parallel |-> TRUE,
   ips |-> ips, gateway |-> gateway, table |-> t]

LinkConfs ==
  {Both(Limited(a1, TRUE, TRUE, TRUE), Limited(a2, TRUE, FALSE, TRUE)),
   Both(Limited(a1, FALSE, FALSE, FALSE), Limited(a2, TRUE, FALSE, FALSE)),
   Both(InVrf(a1, "blue", 0, TRUE), InVrf(a1, "blue", 1, FALSE)),
   Both(InVrf(a1, "blue", 0, TRUE), InVrf(a1, "red", 0, FALSE)),
   Both(InVrf(a1, "blue", 0, TRUE), InVrf(a1, "blue", 7, TRUE)),
   Both(Routed(a1, 1, TRUE, 0), Routed(a1, 1, FALSE, 0)),
   Both(Routed(a1, 2, TRUE, 0), Routed(a1, 1, FALSE, 50))}

(* Gateways of one bridge that agree, are apart, or are in each other's    *)
(* way.                                                                    *)
Gw(family, subnet, host) == [family |-> family, subnet |-> subnet, host |-> host]

Bridged(cid, gws, vlan, force, promiscMode) ==
  [chain |-> <<"bridge">>, cid |-> cid, parallel |-> FALSE,
   gws |-> gws, vlan |-> vlan, forceAddress |-> force, promisc |-> promiscMode]

BridgeConfs ==
  {Both(Bridged(a1, <<Gw("v4", 1, 1), Gw("v6", 1, 1)>>, 0, FALSE, TRUE),
        Bridged(a2, <<Gw("v6", 2, 1)>>, 0, TRUE, TRUE)),
   Both(Bridged(a1, <<Gw("v6", 1, 1)>>, 0, FALSE, FALSE),
        Bridged(a2, <<Gw("v6", 1, 2)>>, 0, TRUE, FALSE)),
   Both(Bridged(a1, <<Gw("v4", 1, 1)>>, 0, FALSE, FALSE),
        Bridged(a2, <<Gw("v4", 2, 1)>>, 0, FALSE, FALSE)),
   Both(Bridged(a1, <<Gw("v4", 1, 1)>>, 0, FALSE, TRUE), Bridged(a2, <<>>, 0, FALSE, FALSE)),
   Both(Bridged(a1, <<Gw("v4", 1, 1)>>, 5, TRUE, FALSE),
        Bridged(a2, <<Gw("v4", 1, 1)>>, 5, TRUE, FALSE))}

MCConfs ==
  DeviceConfs \cup TuningConfs \cup PortmapConfs \cup FirewallConfs
    \cup LinkConfs \cup BridgeConfs

PolicyConfs ==
  {Both(Fire(a1, "iptables", "isolated", "br0"), Fire(a2, "iptables", "open", "br0"))}
=============================================================================
