------------------------------- MODULE Bridge -------------------------------
(***************************************************************************)
(* The bridge that the attachments of the bridge plugin share: the first   *)
(* ADD makes it, every ADD makes the host end of its veth pair a port, and *)
(* ADD of a gateway puts the gateway addresses on the bridge, or on an     *)
(* interface of its vlan, which the first one makes.  DEL leaves all of it *)
(* but the port.  What cmdAdd does to the container, its addresses and its *)
(* rules is in Interfaces.                                                 *)
(*                                                                         *)
(* A MAC address is known by the port it is of: an attachment, or a vlan   *)
(* whose gateway interface has a port too; NoAtt is any other.             *)
(***************************************************************************)
EXTENDS Veth

VARIABLES
  br,          \* whether the bridge exists
  brPorts,     \* the attachments whose host end is a port of it
  vlanGw,      \* the vlans that have an interface for their gateway
  gwAddrs,     \* the gateway addresses, with the vlan or 0 for the bridge
  forwarding,  \* the families that are forwarded
  listed,      \* the addresses ensureAddr still has to look at
  promisc,     \* whether the bridge is promiscuous
  brMac,       \* its MAC address, and whether it was set
  found,       \* the MAC address of the bridge that ensureBridge found
  brResult,    \* the MAC address of the bridge in the result of ADD
  raced        \* whether the MAC address was set twice, to different ones, or
               \* not at all by an ADD that found its gateway on the bridge

macVars == <<promisc, brMac, found, brResult, raced>>
bridgeVars == <<br, brPorts, vlanGw, gwAddrs, forwarding, listed, macVars>>

BridgeInit ==
  /\ br = FALSE /\ brPorts = {} /\ vlanGw = {} /\ gwAddrs = {} /\ forwarding = {}
  /\ listed = [a \in Att |-> {}]
  /\ promisc = FALSE /\ brMac = [of |-> NoAtt, set |-> FALSE] /\ raced = FALSE
  /\ found = [a \in Att |-> NoAtt] /\ brResult = [a \in Att |-> NoAtt]

BridgeTypeOK ==
  /\ br \in BOOLEAN /\ brPorts \subseteq veth /\ vlanGw \subseteq Nat \ {0}
  /\ forwarding \subseteq {"v4", "v6"} /\ DOMAIN listed = Att
  /\ DOMAIN brMac = {"of", "set"} /\ {promisc, brMac.set, raced} \subseteq BOOLEAN
  /\ DOMAIN found = Att /\ DOMAIN brResult = Att

(* The gateways of the IPv4 addresses come before those of the others.     *)
(* From the i-th one on: a step of one leads to the next, and the last of  *)
(* a family to its forwarding.                                             *)
BridgeGateways(c, i) ==
  When(i <= Len(c.gws), <<Step(IF c.vlan # 0 THEN "FindVlan" ELSE "AddrList", i, <<>>)>>)

AfterGateway(c, i) ==
  IF i = Len(c.gws) \/ c.gws[i + 1].family # c.gws[i].family
  THEN <<Step("enableIPForward", i, <<>>)>> ELSE BridgeGateways(c, i + 1)

BridgeAdd(c) ==
  << Do("ensureBridge", <<>>), Do("SetupVeth", <<>>), Do("PortOfBridge", <<>>) >>
    \o BridgeGateways(c, 1) \o <<Do("PortUp", <<>>)>>

Gateway(a) == conf[a].gws[Arg(a)]

-----------------------------------------------------------------------------

(* A bridge that exists is as good as a new one.                           *)
ensureBridge(a) ==
  /\ At(a, "ensureBridge")
  /\ \/ /\ br' = TRUE /\ promisc' = (promisc \/ conf[a].promisc)
        /\ found' = [found EXCEPT ![a] = brMac.of]
        /\ (Succeed(a) \/ Fail(a))
     \/ br' \in {br, TRUE} /\ UNCHANGED <<promisc, found>> /\ Fail(a)
  /\ UNCHANGED <<brPorts, vlanGw, gwAddrs, forwarding, listed, brMac, brResult, raced>>

(* A bridge whose MAC address nobody set has the lowest one of its ports,  *)
(* which may be any: a port that joins may bring a lower one, and when the *)
(* one that has it leaves another takes its place.  The interface of a     *)
(* vlan counts as a port from when it is made.                             *)
MacAfter(ports, macs) ==
  brMac' \in IF brMac.set THEN {brMac}
             ELSE [of : IF macs = {} THEN {NoAtt}
                        ELSE IF brMac.of \in macs
                        THEN {brMac.of} \cup (macs \ ports) ELSE macs,
                   set : {FALSE}]

(* The end of setupVeth: the master, the mode and the vlans of the port.   *)
PortOfBridge(a) ==
  /\ At(a, "PortOfBridge")
  /\ \/ /\ br /\ a \in veth /\ brPorts' = brPorts \cup {a}
        /\ MacAfter(brPorts \cup vlanGw, brPorts \cup vlanGw \cup {a})
        /\ (Succeed(a) \/ Fail(a))
     \/ UNCHANGED <<brPorts, brMac>> /\ Fail(a)
  /\ UNCHANGED <<br, vlanGw, gwAddrs, forwarding, listed, promisc, found, brResult, raced>>

(* ensureVlanInterface: an interface that is found is taken as it is; one  *)
(* whose name is taken meanwhile cannot be made.                           *)
ensureVlanInterface(a) ==
  LET vlan == conf[a].vlan
      then(step) == Push(a, <<Step(step, Arg(a), <<>>)>>)
  IN
  /\ \/ /\ At(a, "FindVlan") /\ vlan \in vlanGw /\ then("AddrList")
        /\ UNCHANGED <<vlanGw, brMac>>
     \/ /\ At(a, "FindVlan") /\ vlan \notin vlanGw /\ then("VlanVeth")
        /\ UNCHANGED <<vlanGw, brMac>>
     \/ /\ At(a, "VlanVeth") /\ vlan \notin vlanGw /\ vlanGw' = vlanGw \cup {vlan}
        /\ then("VlanPort") /\ UNCHANGED brMac
     \/ /\ At(a, "VlanPort") /\ then("AddrList") /\ UNCHANGED vlanGw
        /\ MacAfter(brPorts \cup (vlanGw \ {vlan}), brPorts \cup vlanGw)
     \/ /\ At(a, "FindVlan") \/ At(a, "VlanVeth") \/ At(a, "VlanPort")
        /\ Fail(a) /\ UNCHANGED <<vlanGw, brMac>>
  /\ UNCHANGED <<br, brPorts, gwAddrs, forwarding, listed, promisc, found, brResult, raced>>

(* Of IPv4, or of overlapping IPv6 subnets, an interface has one address.  *)
Conflict(g, h) ==
  g # h /\ g.family = h.family /\ (g.family = "v4" \/ g.subnet = h.subnet)

AddrList(a) ==
  LET g == Gateway(a)
      on == {h \in {x[2] : x \in {y \in gwAddrs : y[1] = conf[a].vlan}} :
               h = g \/ Conflict(g, h)}
  IN /\ At(a, "AddrList")
     /\ \/ /\ listed' = [listed EXCEPT ![a] = on]
           /\ Push(a, <<Step("ensureAddr", Arg(a), <<>>)>>)
        \/ listed' = listed /\ Fail(a)
     /\ UNCHANGED <<br, brPorts, vlanGw, gwAddrs, forwarding, macVars>>

(* Mutant: an address that is in the way is replaced unasked.              *)
ensureAddrForced(a) ==
  LET g == Gateway(a) vlan == conf[a].vlan IN
  /\ At(a, "ensureAddr")
  /\ \/ /\ gwAddrs' = (gwAddrs \ {<<vlan, h>> : h \in listed[a]}) \cup {<<vlan, g>>}
        /\ listed' = [listed EXCEPT ![a] = {}] /\ Push(a, AfterGateway(conf[a], Arg(a)))
     \/ UNCHANGED <<gwAddrs, listed>> /\ Fail(a)
  /\ UNCHANGED <<br, brPorts, vlanGw, forwarding, macVars>>

(* ensureAddr: one address of the list after the other; the address itself *)
(* ends it, others are deleted when forceAddress is set, and are an error  *)
(* when it is not or when they are gone.  An address that was added        *)
(* meanwhile is accepted.                                                  *)
ensureAddr(a) ==
  LET g == Gateway(a)
      vlan == conf[a].vlan
      done == Push(a, AfterGateway(conf[a], Arg(a)))
      setMac == Push(a, <<Step("LinkSetHardwareAddr", Arg(a), <<>>)>>)
  IN
  /\ At(a, "ensureAddr")
  /\ \/ g \in listed[a] /\ done /\ listed' = [listed EXCEPT ![a] = {}]
        /\ raced' = (raced \/ (vlan = 0 /\ ~brMac.set)) /\ gwAddrs' = gwAddrs
     \/ /\ conf[a].forceAddress
        /\ \E h \in listed[a] \ {g} :
             /\ <<vlan, h>> \in gwAddrs /\ gwAddrs' = gwAddrs \ {<<vlan, h>>}
             /\ listed' = [listed EXCEPT ![a] = @ \ {h}]
        /\ UNCHANGED <<rt, rest, raced>>
     \/ /\ listed[a] = {} /\ gwAddrs' = gwAddrs \cup {<<vlan, g>>}
        /\ setMac /\ UNCHANGED <<listed, raced>>
     \/ /\ Fail(a) /\ listed' = [listed EXCEPT ![a] = {}] /\ UNCHANGED <<gwAddrs, raced>>
  /\ UNCHANGED <<br, brPorts, vlanGw, forwarding, promisc, brMac, found, brResult>>

(* The end of ensureAddr: "Set the bridge's MAC to itself", to the one     *)
(* that ensureBridge found.  That of the interface of a vlan is left out.  *)
LinkSetHardwareAddr(a) ==
  /\ At(a, "LinkSetHardwareAddr")
  /\ \/ /\ Push(a, AfterGateway(conf[a], Arg(a)))
        /\ IF conf[a].vlan = 0
           THEN /\ brMac' = [of |-> found[a], set |-> TRUE]
                /\ raced' = (raced \/ (brMac.set /\ brMac.of # found[a]))
           ELSE UNCHANGED <<brMac, raced>>
     \/ Fail(a) /\ UNCHANGED <<brMac, raced>>
  /\ UNCHANGED <<br, brPorts, vlanGw, gwAddrs, forwarding, listed, promisc, found, brResult>>

enableIPForward(a) ==
  /\ At(a, "enableIPForward")
  /\ \/ /\ forwarding' = forwarding \cup {Gateway(a).family}
        /\ Push(a, BridgeGateways(conf[a], Arg(a) + 1))
     \/ forwarding' = forwarding /\ Fail(a)
  /\ UNCHANGED <<br, brPorts, vlanGw, gwAddrs, listed, macVars>>

(* Whether ADD puts an address on the bridge itself.                       *)
GatewayOnBridge(a) == conf[a].gws # <<>> /\ conf[a].vlan = 0

(* The port does not come up in time, or the bridge is not found again.    *)
(* The result has the MAC address the bridge has by now.                   *)
PortUp(a) ==
  /\ At(a, "PortUp")
  /\ \/ /\ br /\ a \in brPorts /\ brResult' = [brResult EXCEPT ![a] = brMac.of]
        /\ Succeed(a)
     \/ Fail(a) /\ UNCHANGED brResult
  /\ found' = [found EXCEPT ![a] = NoAtt]
  /\ UNCHANGED <<br, brPorts, vlanGw, gwAddrs, forwarding, listed, promisc, brMac, raced>>

BridgeStep(a) ==
  \/ ensureBridge(a) \/ PortOfBridge(a) \/ ensureVlanInterface(a)
  \/ AddrList(a) \/ ensureAddr(a) \/ LinkSetHardwareAddr(a) \/ enableIPForward(a)
  \/ PortUp(a)

(* The host end goes with the other one, and what a command that ended     *)
(* knew of the bridge is of no more use.                                   *)
NoPorts(gone) ==
  /\ brPorts' = brPorts \ gone
  /\ MacAfter(brPorts \cup vlanGw, (brPorts \ gone) \cup vlanGw)
  /\ found' = [a \in Att |-> IF a \in gone /\ rt[a] # "adding" THEN NoAtt ELSE found[a]]
  /\ brResult' = [a \in Att |-> IF a \in gone THEN NoAtt ELSE brResult[a]]
  /\ UNCHANGED <<br, vlanGw, gwAddrs, forwarding, listed, promisc, raced>>

(* cmdCheck: the MAC address and the mode of the bridge, and its port.     *)
MacAsAdded(a) == brMac.of = brResult[a]
PromiscAsConfigured(a) == promisc = conf[a].promisc
PortAsAdded(a) == br /\ a \in veth /\ a \in brPorts
BridgeCheck(a) == MacAsAdded(a) /\ PromiscAsConfigured(a) /\ PortAsAdded(a)
=============================================================================
