------------------------------- MODULE Chain --------------------------------
(***************************************************************************)
(* Lists of plugins on one host.  The runtime runs ADD of the plugins of a *)
(* list in order and DEL in the reverse order, stopping at an error.  It   *)
(* adds what is detached, and deletes what is left of anything else.  Of   *)
(* one container it runs one command at a time, unless the list is made    *)
(* of plugins that take care of that.  Attachments of different containers *)
(* run in parallel.                                                        *)
(***************************************************************************)
EXTENDS Tuning, Portmap, Firewall, IPMasq, Bridge, Bandwidth, Vrf, Sbr

CONSTANT Confs     \* the configurations of the attachments

VARIABLES
  result,   \* the attachments of firewall whose result the runtime has for DEL
  unfound   \* those of ipMasq whose last command was a DEL that found no interface

MainPlugins == {"host-device", "veth", "bridge"}
ChainedPlugins == {"tuning", "ipMasq", "portmap", "firewall", "bandwidth", "vrf", "sbr"}

(* A list has a plugin once, and its main plugin first: that of tuning     *)
(* moves a device, those of bandwidth, vrf and sbr make an interface.  The *)
(* masquerading is the end of ADD of a main plugin, ptp.  A list whose     *)
(* main plugin is not modelled here is the rest of it.                     *)
ListOK(chain) ==
  /\ chain \in Seq(MainPlugins \cup ChainedPlugins) /\ chain # <<>>
  /\ \A i, j \in DOMAIN chain : chain[i] = chain[j] => i = j
  /\ \A i \in DOMAIN chain :
       /\ chain[i] \in MainPlugins => i = 1
       /\ chain[i] = "tuning" => chain[1] = "host-device"
       /\ chain[i] = "ipMasq" => i = 2 /\ chain[1] = "veth"
       /\ chain[i] \in {"bandwidth", "vrf", "sbr"} => chain[1] \in {"veth", "bridge"}

(* The configuration of a plugin.  There is nothing to tune of a device    *)
(* without a link.  The bridges of the host are no attachments.            *)
OptionsOK(p, c) ==
  CASE p = "host-device" -> {c.byName, c.falls, c.ipam, c.dpdk} \subseteq BOOLEAN
    [] p = "tuning" -> /\ c.tunes \subseteq Attrs /\ ~c.dpdk
                       /\ c.sysctl \in {"none", "allowed", "refused"}
                       /\ c.canonical \in BOOLEAN
    [] p = "veth" -> TRUE
    [] p = "bridge" -> /\ c.gws \in Seq([family : {"v4", "v6"}, subnet : Nat, host : Nat])
                       /\ c.vlan \in Nat /\ {c.forceAddress, c.promisc} \subseteq BOOLEAN
    [] p = "ipMasq" -> c.masq \in {"iptables", "nftables"}
    [] p = "portmap" -> /\ c.portmap \in {"iptables", "nftables"} /\ c.ports \in Nat
                        /\ {c.snat, c.hostIP} \subseteq BOOLEAN
    [] p = "firewall" -> /\ c.firewall \in {"iptables", "firewalld"}
                         /\ c.policy \in {"open", "same-bridge", "isolated"}
                         /\ c.bridge \notin Att \cup {NoAtt}
    [] p = "bandwidth" -> /\ {c.entry, c.ingress, c.egress} \subseteq BOOLEAN
                          /\ c.ingress \/ c.egress => c.entry
    [] p = "vrf" -> c.vrf # "" /\ c.vrfTable \in Nat /\ c.sourced \in BOOLEAN
    [] p = "sbr" -> c.ips \in Nat /\ c.gateway \in BOOLEAN /\ c.table \in Nat

ConfOK(c) ==
  /\ ListOK(c.chain) /\ c.cid \in Att /\ c.parallel \in BOOLEAN
  /\ \A i \in DOMAIN c.chain : OptionsOK(c.chain[i], c)

(* Of two lists of one container, a table that is configured for sbr is    *)
(* none of those that sbr chooses from.                                    *)
ConfsAssumption ==
  /\ NoAtt \notin Att /\ FirstTable \in Nat \ {0}
  /\ \A cf \in Confs :
       /\ DOMAIN cf = Att /\ \A a \in Att : ConfOK(cf[a])
       /\ \A a, b \in Att : a # b /\ cf[a].cid = cf[b].cid =>
            LET both(p) == \E i \in DOMAIN cf[a].chain, j \in DOMAIN cf[b].chain :
                             cf[a].chain[i] = p /\ cf[b].chain[j] = p
            IN both("sbr") /\ cf[a].table = 0 => cf[b].table < FirstTable

ASSUME ConfsAssumed == ConfsAssumption

nfVars == <<chains, ignored, hostports, sources, masquerade>>
linkVars == <<vethVars, bridgeVars, tcVars, vrfVars, sbrVars>>
vars == <<conf, rt, rest, ns, result, unfound, devVars, tunVars, nfVars, linkVars>>

Init ==
  /\ conf \in Confs
  /\ rt = [a \in Att |-> "detached"] /\ rest = [a \in Att |-> <<>>]
  /\ ns = [a \in Att |-> TRUE] /\ result = {} /\ unfound = {}
  /\ HostDeviceInit /\ TuningInit
  /\ IptablesInit /\ hostports = {} /\ sources = {} /\ masquerade = {}
  /\ VethInit /\ BridgeInit /\ BandwidthInit /\ VrfInit /\ SbrInit

Plugins(a) == {conf[a].chain[i] : i \in DOMAIN conf[a].chain}
Uses(a, p) == p \in Plugins(a)

PluginAdd(a, p) ==
  LET c == conf[a] IN
  CASE p = "host-device" -> HostDeviceAdd(c)
    [] p = "tuning" -> TuningAdd(c)
    [] p = "veth" -> VethAdd
    [] p = "bridge" -> BridgeAdd(c)
    [] p = "ipMasq" -> SetupIPMasqForNetworks(a, c)
    [] p = "portmap" -> PortmapAdd(a, c)
    [] p = "firewall" -> FirewallAdd(a, c)
    [] p = "bandwidth" -> BandwidthAdd(c)
    [] p = "vrf" -> VrfAdd
    [] p = "sbr" -> SbrAdd(c)

(* The rules of the masquerading go when its interface is found.           *)
PluginDel(a, p) ==
  LET c == conf[a] IN
  CASE p = "host-device" -> HostDeviceDel
    [] p = "tuning" -> TuningDel
    [] p \in {"veth", "bridge"} -> VethDel
    [] p = "ipMasq" -> <<>>
    [] p = "portmap" -> PortmapDel(c)
    [] p = "firewall" -> FirewallDel(a, c, a \in result)
    [] p = "bandwidth" -> BandwidthDel
    [] p = "vrf" -> VrfDel
    [] p = "sbr" -> SbrDel

(* The plugins of the list, each of which goes on with its own steps.      *)
CmdAdd(a) == [i \in DOMAIN conf[a].chain |-> Do(conf[a].chain[i], <<>>)]
CmdDel(a) ==
  [i \in DOMAIN conf[a].chain |-> Do(conf[a].chain[Len(conf[a].chain) + 1 - i], <<>>)]

-----------------------------------------------------------------------------

MayRun(a) ==
  /\ rt[a] \in Idle
  /\ \A b \in Att \ {a} : conf[b].cid = conf[a].cid /\ ~conf[a].parallel => rt[b] \in Idle

Start(a, phase, steps) ==
  /\ MayRun(a)
  /\ rt' = [rt EXCEPT ![a] = phase] /\ rest' = [rest EXCEPT ![a] = steps]
  /\ ignored' = ignored \ {a} /\ unfound' = unfound \ {a}
  /\ UNCHANGED <<conf, ns, devVars, tunVars, chains, hostports, sources, masquerade,
                 linkVars>>

(* The runtime has the result of an ADD that succeeded until a DEL does.   *)
StartAdd(a) ==
  /\ rt[a] = "detached" /\ ns[a] /\ Start(a, "adding", CmdAdd(a))
  /\ result' = result \ {a}

StartDel(a) ==
  /\ Start(a, "deleting", CmdDel(a))
  /\ result' = IF rt[a] = "detached" THEN result \ {a}
               ELSE IF rt[a] = "attached" /\ Uses(a, "firewall")
               THEN result \cup {a} ELSE result

(* The next plugin is run.                                                 *)
Invoke(a) ==
  LET p == Head(rest[a]).do IN
  /\ rest[a] # <<>> /\ Uses(a, p)
  /\ Push(a, IF rt[a] = "adding" THEN PluginAdd(a, p) ELSE PluginDel(a, p))
  /\ UNCHANGED <<conf, ns, result, unfound, devVars, tunVars, nfVars, linkVars>>

(* A step is one of the plugins of the list.                               *)
DeviceStep(a) ==
  /\ Plugins(a) \cap {"host-device", "tuning"} # {}
  /\ (HostDeviceStep(a) /\ UNCHANGED tunVars) \/ TuningStep(a)
  /\ UNCHANGED <<conf, ns, result, unfound, nfVars, linkVars>>

NetfilterStep(a) ==
  /\ Plugins(a) \cap {"portmap", "firewall", "ipMasq"} # {}
  /\ \/ IptablesStep(a) /\ UNCHANGED <<hostports, sources, masquerade>>
     \/ PortmapStep(a) /\ UNCHANGED <<sources, masquerade>>
     \/ FirewallStep(a) /\ UNCHANGED <<hostports, masquerade>>
     \/ IPMasqStep(a) /\ UNCHANGED <<hostports, sources>>
  /\ UNCHANGED <<conf, ns, result, unfound, devVars, tunVars, linkVars>>

(* What the kernel keeps for interfaces goes with them.                    *)
Forget(gone) ==
  /\ NoPorts(gone) /\ NoQdiscs(gone) /\ NoMasters(gone) /\ NoRoutes(gone)
  /\ UNCHANGED <<seen, table>>

DelLink(a) ==
  /\ DelLinkByName(a, When(Uses(a, "ipMasq"), TeardownIPMasqForNetworks(a)))
  /\ Forget(Att \ veth')
  /\ unfound' = IF a \notin veth /\ Uses(a, "ipMasq") THEN unfound \cup {a} ELSE unfound
  /\ UNCHANGED <<vrfs, lock, rules>>

LinkStep(a) ==
  /\ Plugins(a) \cap {"veth", "bridge"} # {}
  /\ \/ DelLink(a)
     \/ /\ \/ SetupVeth(a) /\ UNCHANGED <<bridgeVars, tcVars, vrfVars, sbrVars>>
           \/ BridgeStep(a) /\ UNCHANGED <<vethVars, tcVars, vrfVars, sbrVars>>
           \/ BandwidthStep(a) /\ UNCHANGED <<vethVars, bridgeVars, vrfVars, sbrVars>>
           \/ VrfStep(a) /\ UNCHANGED <<bridgeVars, tcVars, sbrVars>>
           \/ SbrStep(a) /\ UNCHANGED <<bridgeVars, tcVars, vrfVars>>
        /\ UNCHANGED unfound
  /\ UNCHANGED <<conf, ns, result, devVars, tunVars, nfVars>>

(* The process is killed: its temporary namespace and its lock go.         *)
Crash(a) ==
  /\ Die(a)
  /\ Destroy({Temp(a)}, place = Temp(a) /\ conf[a].falls)
  /\ Release(a)
  /\ listed' = [listed EXCEPT ![a] = {}]
  /\ UNCHANGED <<conf, ns, result, unfound, attr, mac, tunVars, nfVars, vethVars,
                 tcVars, vrfVars, br, brPorts, vlanGw, gwAddrs, forwarding, macVars,
                 rules, tables, seen, table>>

(* The namespace of a container goes away with all that is in it.  A       *)
(* running command would keep it open.                                     *)
NetnsGone(a) ==
  LET gone == {b \in Att : conf[b].cid = conf[a].cid} IN
  /\ ns[a] /\ \A b \in gone : rt[b] \in Idle
  /\ ns' = [b \in Att |-> ns[b] /\ b \notin gone]
  /\ Destroy({Cont(b) : b \in gone}, \E b \in gone : place = Cont(b) /\ conf[b].falls)
  /\ sysctl' = sysctl \ gone
  /\ NoVeth(gone) /\ Forget(gone) /\ NoRules(gone)
  /\ vrfs' = {v \in vrfs : v.of # conf[a].cid}
  /\ UNCHANGED <<conf, rt, rest, result, unfound, attr, mac, backup, swallowed, nfVars,
                 lock>>

Next ==
  \E a \in Att :
    \/ StartAdd(a) \/ StartDel(a) \/ Invoke(a) \/ DeviceStep(a) \/ NetfilterStep(a)
    \/ LinkStep(a) \/ Crash(a) \/ NetnsGone(a)

Spec == Init /\ [][Next]_vars

-----------------------------------------------------------------------------
(* The state has its type.                                                 *)
TypeOK ==
  /\ conf \in Confs /\ ns \in [Att -> BOOLEAN]
  /\ result \subseteq Att /\ unfound \subseteq Att
  /\ rt \in [Att -> Idle \cup DOMAIN Final]
  /\ \A a \in Att : rt[a] \in Idle <=> rest[a] = <<>>
  /\ HostDeviceTypeOK /\ TuningTypeOK /\ IptablesTypeOK
  /\ VethTypeOK /\ BridgeTypeOK /\ BandwidthTypeOK /\ VrfTypeOK /\ SbrTypeOK

(* Wherever moveLinkIn stopped and undid its calls, and whenever           *)
(* moveLinkOut put it there, a device that is on the host has its own name *)
(* and no alias, and no address; and its attributes are its own unless     *)
(* the DEL of tuning ignored an error.                                     *)
HostDeviceIntact ==
  place = Host /\ ~hurt =>
    /\ name = Own /\ alias = "" /\ addr = NoAtt
    /\ \A x \in Attrs : attr[x] = NoAtt \/ swallowed

(* A device that a command left in a container, attached or not, can be    *)
(* returned by the next DEL: it has the name that moveLinkOut looks for,   *)
(* its own name in its alias, and the runtime does not think it detached.  *)
DelCanReturn ==
  \A a \in Att : rt[a] \in Idle /\ place = Cont(a) /\ ~hurt =>
    name = IfName /\ alias = Own /\ rt[a] # "detached"

(* The original value of an attribute is on the device, or in the whole    *)
(* backup file of an attachment, whatever fails between createBackup and   *)
(* restoreBackup; unless DEL ignored an error, which may leave a file that *)
(* is out of date.                                                         *)
OriginalsKept ==
  \A x \in Attrs : attr[x] # NoAtt =>
    \/ swallowed
    \/ \E a \in Att : /\ backup[a].is = "whole" /\ x \in DOMAIN backup[a].old
                      /\ backup[a].old[x] = NoAtt

(* Whether a MAC address that tuning sets is configured as it is read.     *)
WrittenAsRead(a) ==
  Uses(a, "tuning") /\ "mac" \in conf[a].tunes => conf[a].canonical

(* Whether the rules of nftables of another list have the same comment.    *)
SharesComment(a) ==
  \E b \in Att \ {a} : /\ conf[b].cid = conf[a].cid /\ Uses(b, "portmap")
                       /\ {conf[a].portmap, conf[b].portmap} = {"nftables"}


(* A DEL that succeeded left no address held, no chain or rule, no ifb     *)
(* device and no routing rule behind, and no VRF that nobody is in; unless *)
(* it had no namespace to work in, or ignored an error of the rules.  What *)
(* the masquerading made stays when the interface was gone already, and    *)
(* what firewall made when there is no result of ADD.                      *)
DelLeavesNothing ==
  \A a \in Att : rt[a] = "detached" =>
    /\ ns[a] => a \notin held
    /\ \/ a \in ignored
       \/ /\ DN(a) \notin DOMAIN chains /\ References(DN(a)) = {}
          /\ \A r \in hostports : r.of # a
    /\ \/ a \in unfound
       \/ /\ MasqChain(a) \notin DOMAIN chains /\ References(MasqChain(a)) = {}
          /\ a \notin masquerade
    /\ \/ a \in ignored \/ a \notin result
       \/ a \notin sources /\ \A rule \in Rules(PRIV) : rule.of # a
    /\ ifb[a] = "none"
    /\ \A r \in rules : r[1][1] # a
    /\ master[a] = ""
    /\ \A v \in vrfs : v.of = conf[a].cid =>
         \E b \in Att : conf[b].cid = v.of /\ rt[b] # "detached"

Before(ch, first(_), then(_)) ==
  LET s == chains[ch] IN
  \A j \in DOMAIN s : then(s[j]) => \E i \in 1..(j - 1) : first(s[i])

(* Whatever the order of the commands, packets meet the rules in the order *)
(* the plugins need: the mark is set before the destination is translated, *)
(* marked packets are masqueraded before those of a container are, the     *)
(* administrator's chain comes before the rules of the containers, and no  *)
(* rule of a bridge comes after RETURN.                                    *)
RulesInOrder ==
  /\ \A a \in Att : Uses(a, "portmap") /\ DN(a) \in DOMAIN chains =>
       Before(DN(a), LAMBDA r : ~conf[a].snat \/ r.to = SETMARK,
              LAMBDA r : conf[a].snat /\ r.to = Shared("DNAT"))
  /\ (\E a \in Att : Uses(a, "portmap") /\ rt[a] = "attached"
                       /\ conf[a].portmap = "iptables" /\ conf[a].snat) =>
       Before(Shared("POSTROUTING"), LAMBDA r : r.to = MASQ, LAMBDA r : r.to[1] = "CNI")
  /\ PRIV \in DOMAIN chains =>
       Before(PRIV, LAMBDA r : r.to = ADMIN, LAMBDA r : r.of # NoAtt)
  /\ \A ch \in {STAGE1, STAGE2} \cap DOMAIN chains :
       LET s == chains[ch] IN
       \A i, j \in DOMAIN s : i < j /\ s[i] = ReturnRule => s[j] = ReturnRule

(* Of the addresses of the attached interfaces of a container, each has    *)
(* one rule, to a table where its routes are and to which no other address *)
(* is sent, when sbr chose the table, even if the interfaces were added at *)
(* the same time.                                                          *)
SbrOwnTables ==
  \A a \in Att : Uses(a, "sbr") /\ rt[a] = "attached" /\ ns[a] /\ conf[a].table = 0 =>
    /\ a \notin main
    /\ \A ip \in Addresses(a) : \E t \in {r[2] : r \in RulesOf(a)} :
         /\ {r \in RulesOf(a) : r[1] = ip} = {<<ip, t>>} /\ <<ip, t>> \in tables
         /\ \A r \in RulesOf(a) : r[2] = t => r[1] = ip

(* An interface that vrf attached has the IPv6 addresses it had before it  *)
(* got a master, and of its routes through a gateway just those that name  *)
(* their source; and the VRFs of a container have tables of their own when *)
(* none is configured.                                                     *)
VrfKeepsAddresses ==
  /\ \A a \in Att : Uses(a, "vrf") /\ rt[a] = "attached" /\ ns[a] =>
       a \in v6 /\ (a \in moved <=> conf[a].sourced)
  /\ \A v, w \in vrfs :
       \/ v = w \/ v.of # w.of \/ v.table # w.table
       \/ \E a \in Att : conf[a].cid = v.of /\ Uses(a, "vrf") /\ conf[a].vrfTable # 0

(* What an attachment of the bridge plugin has as its gateway stays there  *)
(* and its family is forwarded, whoever else is attached to the bridge,    *)
(* fails or is detached; unless an attachment with forceAddress, to the    *)
(* same vlan, has a gateway that conflicts with it.                        *)
GatewayKept ==
  \A a \in Att : Uses(a, "bridge") /\ rt[a] = "attached" =>
    \A i \in DOMAIN conf[a].gws :
      LET g == conf[a].gws[i] IN
      /\ g.family \in forwarding
      /\ conf[a].vlan # 0 => conf[a].vlan \in vlanGw
      /\ \/ <<conf[a].vlan, g>> \in gwAddrs
         \/ \E b \in Att : /\ Uses(b, "bridge") /\ conf[b].forceAddress
                           /\ conf[b].vlan = conf[a].vlan
                           /\ \E j \in DOMAIN conf[b].gws : Conflict(g, conf[b].gws[j])

(* NOTE: "-j CNI-ISOLATION-STAGE-1" needs to be before "CNI-FORWARD"       *)
(* created by CNI firewall plugin.  So we specify prepend = true.          *)
IsolationFirst ==
  \A a \in Att : Uses(a, "firewall") /\ rt[a] = "attached" /\ conf[a].policy # "open" =>
    Before(Shared("FORWARD"), LAMBDA r : r.to = STAGE1, LAMBDA r : r.to = PRIV)
=============================================================================
