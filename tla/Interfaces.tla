----------------------------- MODULE Interfaces -----------------------------
(***************************************************************************)
(* The interface plugins: what cmdAdd and cmdDel of bridge, ptp, macvlan,  *)
(* ipvlan, vlan, tap and dummy do to the links of a container, to its      *)
(* addresses and to the rules that go with them, and what they undo when   *)
(* one of their steps fails.  Addressing is delegated to an IPAM plugin,   *)
(* of which only the contract (module IPAM) is known.                      *)
(*                                                                         *)
(* The attachments are those of different containers.                      *)
(***************************************************************************)
EXTENDS Commands, FiniteSets

CONSTANTS
  IPs,     \* the addresses the IPAM plugin may hand out
  Confs    \* the network configurations of the attachments

(* The options a plugin does not have are off; vlan, ptp and dummy always  *)
(* delegate addressing.                                                    *)
NetConf(c) ==
  /\ c.plugin \in {"bridge", "ptp", "macvlan", "ipvlan", "vlan", "tap", "dummy"}
  /\ {c.layer3, c.nftables, c.ipMasq, c.macSpoofChk} \subseteq BOOLEAN
  /\ c.plugin \in {"vlan", "ptp", "dummy"} => c.layer3
  /\ c.ipMasq => c.plugin \in {"bridge", "ptp"}
  /\ c.macSpoofChk => c.plugin = "bridge"

ASSUME ConfsAssumption == \A cs \in Confs, a \in Att : NetConf(cs[a])

VARIABLES
  links,    \* its links: "tmp", with a random name, and "named", ifName
  addr,     \* the addresses of the link ifName
  spoof,    \* whether there are spoof-check rules for it
  masq,     \* the addresses there are masquerading rules for
  ipnets,   \* cmdDel: the addresses the link had when it was deleted
  held,     \* the addresses the IPAM plugin has reserved for it
  live      \* the addresses the IPAM plugin has handed out to it

dev == <<links, addr>>
rules == <<spoof, masq>>
ipam == <<held, live>>
vars == <<conf, rt, rest, ns, dev, rules, ipnets, ipam>>

Delegate == INSTANCE IPAM

Init ==
  /\ conf \in Confs
  /\ rt = [a \in Att |-> "detached"]
  /\ rest = [a \in Att |-> <<>>]
  /\ ns = [a \in Att |-> FALSE]
  /\ links = [a \in Att |-> {}]
  /\ addr = [a \in Att |-> {}]
  /\ spoof = [a \in Att |-> FALSE]
  /\ masq = [a \in Att |-> {}]
  /\ ipnets = [a \in Att |-> {}]
  /\ Delegate!Init

-----------------------------------------------------------------------------
(* The programs.  Check stands for any call that changes nothing here but  *)
(* may fail: reading the configuration, opening the namespace, looking a   *)
(* link up, setting it up.                                                 *)
Release == Do("ExecDel", <<>>)
DropTmp == Do("LinkDel", <<>>)
Unspoof == Do("Teardown", <<>>)
Unmasq == Do("TeardownIPMasq", <<>>)

(* DelLinkByName in the namespace; "gone" runs when there is none.         *)
Unlink(gone) == Step("DelLinkByName", gone, <<>>)

(* createMacvlan.                                                          *)
CreateMacvlan ==
  <<Do("Check", <<>>), Do("LinkAdd", <<>>), Do("RenameLink", <<DropTmp>>), Do("Lookup", <<>>)>>

(* The deferred deletion of the link tests the outer err and everything in *)
(* the layer 3 branch assigns an inner one.                                *)
MacvlanAdd(c) ==
  CreateMacvlan \o
  IF c.layer3
  THEN <<Do("ExecAdd", <<>>), Do("Check", <<Release>>), Do("HasIPs", <<>>),
         Do("ConfigureIface", <<Release>>)>>
  ELSE <<Do("Lookup", <<Unlink(<<>>)>>)>>

MacvlanDel(c) == When(c.layer3, <<Release>>) \o <<Unlink(<<>>)>>

(* createIpvlan; when LinkAdd fails in the container's namespace the code  *)
(* goes on, and RenameLink fails.                                          *)
CreateIpvlan ==
  <<Do("Check", <<>>), Do("LinkAdd", <<>>), Do("RenameLink", <<>>), Do("Lookup", <<>>)>>

(* The deferred ExecDel tests the err of its block, ConfigureIface assigns *)
(* the outer one.  Without layer 3 the addresses come with prevResult.     *)
IpvlanAdd(c) ==
  CreateIpvlan \o
  When(c.layer3, <<Do("ExecAdd", <<>>), Do("Check", <<Release>>), Do("HasIPs", <<>>)>>) \o
  <<Do("ConfigureIface", <<>>)>>

IpvlanDel(c) == When(c.layer3, <<Release>>) \o <<Unlink(<<>>)>>

CreateVlan ==
  <<Do("Check", <<>>), Do("LinkAdd", <<>>), Do("RenameLink", <<>>), Do("Lookup", <<>>)>>

(* Mutant: ConfigureIface assigns a variable of its own.                   *)
VlanAddShadowed(c) ==
  CreateVlan \o
  <<Do("ExecAdd", <<>>), Do("Check", <<Release>>), Do("HasIPs", <<>>), Do("ConfigureIface", <<>>)>>

VlanAdd(c) ==
  CreateVlan \o
  <<Do("ExecAdd", <<>>), Do("Check", <<Release>>), Do("HasIPs", <<>>),
    Do("ConfigureIface", <<Release>>)>>

VlanDel(c) == <<Release, Unlink(<<>>)>>

(* createTap: a failed RenameLink is reported only when the link it was to *)
(* rename is not found.                                                    *)
CreateTap ==
  <<Do("Check", <<>>), Do("LinkAdd", <<>>), Do("Check", <<>>), Do("TryRename", <<>>),
    Do("Lookup", <<>>), Do("Lookup", <<>>)>>

TapAdd(c) ==
  CreateTap \o
  IF c.layer3
  THEN <<Do("ExecAdd", <<>>), Do("Check", <<Release>>), Do("HasIPs", <<>>),
         Do("ConfigureIface", <<Release>>)>>
  ELSE <<Do("Lookup", <<Unlink(<<>>)>>)>>

TapDel(c) == When(c.layer3, <<Release>>) \o <<Unlink(<<>>)>>

CreateDummy == <<Do("Check", <<>>), Do("LinkAddNamed", <<>>), Do("Lookup", <<>>)>>

(* One err for all: both deferred functions see every error but the fresh  *)
(* one of a result without addresses.                                      *)
DummyAdd(c) ==
  CreateDummy \o
  <<Do("ExecAdd", <<Unlink(<<>>)>>), Do("Check", <<Release, Unlink(<<>>)>>), Do("HasIPs", <<>>),
    Do("ConfigureIface", <<Release, Unlink(<<>>)>>)>>

DummyDel(c) == <<Release, Unlink(<<>>)>>

(* setupContainerVeth and setupHostVeth: the veth pair, its addresses, its *)
(* routes on both sides.                                                   *)
SetupContainerVeth ==
  <<Do("LinkAddNamed", <<Release>>), Do("Lookup", <<Release>>),
    Do("ConfigureIface", <<Release>>), Do("Lookup", <<Release>>)>>

SetupHostVeth == <<Do("Check", <<Release>>)>>

(* The error of EnableForward is a variable of its own.                    *)
PtpAdd(c) ==
  <<Do("ExecAdd", <<>>), Do("Check", <<Release>>), Do("HasIPs", <<>>),
    Do("Check", <<>>), Do("Check", <<Release>>)>> \o
  SetupContainerVeth \o SetupHostVeth \o
  When(c.ipMasq, <<Do("SetupIPMasq", <<Release>>)>>)

(* Mutant: masquerading is removed before the link has been looked at.     *)
PtpDelMasqFirst(c) == <<Release>> \o When(c.ipMasq, <<Unmasq>>) \o <<Unlink(<<>>)>>

PtpDel(c) == <<Release, Unlink(<<>>)>> \o When(c.ipMasq, <<Unmasq>>)

(* setupVeth of bridge: the veth pair, and the host end's place in the     *)
(* bridge.                                                                 *)
BridgeVeth == <<Do("LinkAddNamed", <<>>), Do("Lookup", <<>>)>>

(* The deferred functions test success, which is set at the end.           *)
BridgeAdd(c) ==
  LET unspoof == When(c.macSpoofChk, <<Unspoof>>)
      undo == When(c.layer3, <<Release>>) \o unspoof
  IN  <<Do("Check", <<>>)>> \o BridgeVeth \o
      When(c.macSpoofChk, <<Do("Setup", <<>>)>>) \o
      (IF c.layer3
       THEN <<Do("ExecAdd", unspoof), Do("Check", undo), Do("HasIPs", undo),
              Do("ConfigureIface", undo), Do("Check", undo)>> \o
            When(c.ipMasq, <<Do("SetupIPMasq", undo)>>)
       ELSE <<>>) \o
      <<Do("Lookup", undo)>>

(* Mutants: the addresses are released first; nothing is done without a    *)
(* namespace.                                                              *)
BridgeDelReleaseFirst(c) ==
  When(c.layer3, <<Release>>) \o <<Unlink(<<>>)>> \o
  When(c.macSpoofChk, <<Unspoof>>) \o When(c.layer3 /\ c.ipMasq, <<Unmasq>>)
BridgeDelNoNetns(c) ==
  <<Unlink(<<>>)>> \o When(c.layer3, <<Release>>) \o
  When(c.macSpoofChk, <<Unspoof>>) \o When(c.layer3 /\ c.ipMasq, <<Unmasq>>)

BridgeDel(c) ==
  LET release == When(c.layer3, <<Release>>) IN
  <<Unlink(release)>> \o release \o
  When(c.macSpoofChk, <<Unspoof>>) \o When(c.layer3 /\ c.ipMasq, <<Unmasq>>)

CmdAdd(c) ==
  CASE c.plugin = "bridge" -> BridgeAdd(c)
    [] c.plugin = "ptp" -> PtpAdd(c)
    [] c.plugin = "macvlan" -> MacvlanAdd(c)
    [] c.plugin = "ipvlan" -> IpvlanAdd(c)
    [] c.plugin = "vlan" -> VlanAdd(c)
    [] c.plugin = "tap" -> TapAdd(c)
    [] c.plugin = "dummy" -> DummyAdd(c)

CmdDel(c) ==
  CASE c.plugin = "bridge" -> BridgeDel(c)
    [] c.plugin = "ptp" -> PtpDel(c)
    [] c.plugin = "macvlan" -> MacvlanDel(c)
    [] c.plugin = "ipvlan" -> IpvlanDel(c)
    [] c.plugin = "vlan" -> VlanDel(c)
    [] c.plugin = "tap" -> TapDel(c)
    [] c.plugin = "dummy" -> DummyDel(c)

-----------------------------------------------------------------------------
(* The runtime adds what is detached, and deletes at any time.             *)
StartAdd(a) ==
  /\ rt[a] = "detached"
  /\ rt' = [rt EXCEPT ![a] = "adding"] /\ rest' = [rest EXCEPT ![a] = CmdAdd(conf[a])]
  /\ ns' = [ns EXCEPT ![a] = TRUE] /\ ipnets' = [ipnets EXCEPT ![a] = {}]
  /\ UNCHANGED <<conf, dev, rules, ipam>>

StartDel(a) ==
  /\ rt[a] \in Idle
  /\ rt' = [rt EXCEPT ![a] = "deleting"] /\ rest' = [rest EXCEPT ![a] = CmdDel(conf[a])]
  /\ ipnets' = [ipnets EXCEPT ![a] = {}]
  /\ UNCHANGED <<conf, ns, dev, rules, ipam>>

Check(a) ==
  /\ At(a, "Check") /\ (Succeed(a) \/ Fail(a))
  /\ UNCHANGED <<conf, ns, dev, rules, ipnets, ipam>>

Lookup(a) ==
  /\ At(a, "Lookup") /\ (("named" \in links[a] /\ Succeed(a)) \/ Fail(a))
  /\ UNCHANGED <<conf, ns, dev, rules, ipnets, ipam>>

HasIPs(a) ==
  /\ At(a, "HasIPs") /\ IF live[a] # {} THEN Succeed(a) ELSE Fail(a)
  /\ UNCHANGED <<conf, ns, dev, rules, ipnets, ipam>>

-----------------------------------------------------------------------------
(* Links.                                                                  *)
LinkAdd(a) ==
  /\ \/ At(a, "LinkAdd") /\ Succeed(a) /\ links' = [links EXCEPT ![a] = @ \cup {"tmp"}]
     \/ /\ At(a, "LinkAddNamed") /\ "named" \notin links[a] /\ Succeed(a)
        /\ links' = [links EXCEPT ![a] = @ \cup {"named"}]
     \/ (At(a, "LinkAdd") \/ At(a, "LinkAddNamed")) /\ Fail(a) /\ links' = links
  /\ UNCHANGED <<conf, ns, addr, rules, ipnets, ipam>>

(* RenameLink; TryRename is the one of createTap.                          *)
RenameLink(a) ==
  /\ At(a, "RenameLink") \/ At(a, "TryRename")
  /\ \/ /\ "tmp" \in links[a] /\ "named" \notin links[a]
        /\ links' = [links EXCEPT ![a] = (@ \ {"tmp"}) \cup {"named"}] /\ Succeed(a)
     \/ Fail(a) /\ links' = links
     \/ At(a, "TryRename") /\ Succeed(a) /\ links' = links
  /\ UNCHANGED <<conf, ns, addr, rules, ipnets, ipam>>

LinkDel(a) ==
  /\ At(a, "LinkDel")
  /\ \/ links' = [links EXCEPT ![a] = @ \ {"tmp"}] /\ Succeed(a)
     \/ links' = links /\ Fail(a)
  /\ UNCHANGED <<conf, ns, addr, rules, ipnets, ipam>>

(* ConfigureIface adds the addresses of the result one by one.             *)
ConfigureIface(a) ==
  /\ At(a, "ConfigureIface")
  /\ \/ "named" \in links[a] /\ addr' = [addr EXCEPT ![a] = @ \cup live[a]] /\ Succeed(a)
     \/ addr' = addr /\ Fail(a)
     \/ /\ "named" \in links[a] /\ Fail(a)
        /\ \E S \in SUBSET live[a] : addr' = [addr EXCEPT ![a] = @ \cup S]
  /\ UNCHANGED <<conf, ns, links, rules, ipnets, ipam>>

(* Mutant: cmdDel does not report that the link could not be deleted.      *)
DelLinkByNameQuiet(a) ==
  /\ At(a, "DelLinkByName")
  /\ \/ ns[a] /\ Succeed(a) /\ links' = [links EXCEPT ![a] = @ \ {"named"}]
        /\ addr' = [addr EXCEPT ![a] = {}] /\ ipnets' = [ipnets EXCEPT ![a] = addr[a]]
     \/ ns[a] /\ Succeed(a) /\ UNCHANGED <<dev, ipnets>>
     \/ ~ns[a] /\ GoOn(a, Arg(a)) /\ UNCHANGED <<dev, ipnets>>
  /\ UNCHANGED <<conf, ns, rules, ipam>>

(* DelLinkByName and DelLinkByNameAddr; a link that is not there is as     *)
(* good as deleted.                                                        *)
DelLinkByName(a) ==
  /\ At(a, "DelLinkByName")
  /\ \/ ns[a] /\ Succeed(a) /\ links' = [links EXCEPT ![a] = @ \ {"named"}]
        /\ addr' = [addr EXCEPT ![a] = {}] /\ ipnets' = [ipnets EXCEPT ![a] = addr[a]]
     \/ ns[a] /\ Fail(a) /\ UNCHANGED <<dev, ipnets>>
     \/ ~ns[a] /\ GoOn(a, Arg(a)) /\ UNCHANGED <<dev, ipnets>>
  /\ UNCHANGED <<conf, ns, rules, ipam>>

-----------------------------------------------------------------------------
(* Addressing: ExecAdd while the IPAM plugin reserves addresses, and when  *)
(* it returns a result or an error.                                        *)
ReserveAddress(a) ==
  /\ At(a, "ExecAdd") /\ \E x \in IPs : Delegate!Reserve(a, x)
  /\ UNCHANGED <<conf, rt, rest, ns, dev, rules, ipnets>>

ExecAdd(a) ==
  /\ At(a, "ExecAdd")
  /\ \/ Delegate!HandOut(a, held[a]) /\ Succeed(a)
     \/ Delegate!Withdraw(a, held[a]) /\ Fail(a)
  /\ UNCHANGED <<conf, ns, dev, rules, ipnets>>

(* ExecDel: the addresses are given up, then their reservations go.        *)
ExecDel(a) ==
  /\ At(a, "ExecDel")
  /\ \/ live[a] # {} /\ Delegate!GiveUp(a) /\ UNCHANGED <<rt, rest>>
     \/ Delegate!Withdraw(a, held[a]) /\ Succeed(a)
     \/ \E S \in SUBSET held[a] : Delegate!Withdraw(a, S) /\ Fail(a)
  /\ UNCHANGED <<conf, ns, dev, rules, ipnets>>

-----------------------------------------------------------------------------
(* Rules.  spoof is the rule that leads to the chains of the attachment;   *)
(* Setup applies it, with theirs, in one transaction, the second one.      *)
Setup(a) ==
  /\ At(a, "Setup")
  /\ \/ spoof' = [spoof EXCEPT ![a] = TRUE] /\ Succeed(a)
     \/ spoof' = spoof /\ Fail(a)
  /\ UNCHANGED <<conf, ns, dev, masq, ipnets, ipam>>

(* Teardown goes on to the chains when the rule could not be deleted, and  *)
(* may fail there.  cmdDel only logs its error.                            *)
Teardown(a) ==
  /\ At(a, "Teardown")
  /\ \/ spoof' = [spoof EXCEPT ![a] = FALSE] /\ Succeed(a)
     \/ /\ \E left \in {spoof[a], FALSE} : spoof' = [spoof EXCEPT ![a] = left]
        /\ IF rt[a] = "deleting" THEN Succeed(a) ELSE Fail(a)
  /\ UNCHANGED <<conf, ns, dev, masq, ipnets, ipam>>

(* SetupIPMasqForNetworks: iptables rules are added one by one, nftables   *)
(* rules replace all that the attachment had.                              *)
SetupIPMasq(a) ==
  /\ At(a, "SetupIPMasq")
  /\ \/ /\ masq' = [masq EXCEPT ![a] = IF conf[a].nftables THEN live[a] ELSE @ \cup live[a]]
        /\ Succeed(a)
     \/ masq' = masq /\ Fail(a)
     \/ /\ ~conf[a].nftables /\ Fail(a)
        /\ \E S \in SUBSET live[a] : masq' = [masq EXCEPT ![a] = @ \cup S]
  /\ UNCHANGED <<conf, ns, dev, spoof, ipnets, ipam>>

(* TeardownIPMasqForNetworks: iptables rules are found by address, those   *)
(* of nftables by attachment.  ptp does not call it without an address.    *)
Unwanted(a) ==
  IF conf[a].nftables /\ (conf[a].plugin = "bridge" \/ ipnets[a] # {})
  THEN masq[a] ELSE masq[a] \cap ipnets[a]

TeardownIPMasq(a) ==
  /\ At(a, "TeardownIPMasq")
  /\ \/ masq' = [masq EXCEPT ![a] = @ \ Unwanted(a)] /\ Succeed(a)
     \/ /\ \E S \in SUBSET Unwanted(a) : masq' = [masq EXCEPT ![a] = @ \ S]
        /\ Fail(a)
  /\ UNCHANGED <<conf, ns, dev, spoof, ipnets, ipam>>

-----------------------------------------------------------------------------
(* The plugin process is killed.                                           *)
Crash(a) ==
  /\ Die(a)
  /\ UNCHANGED <<conf, ns, dev, rules, ipnets, ipam>>

(* The container dies; cmdAdd keeps the namespace open while it runs.      *)
NetnsGone(a) ==
  /\ ns[a] /\ rt[a] \in Idle \cup {"deleting"}
  /\ ns' = [ns EXCEPT ![a] = FALSE]
  /\ links' = [links EXCEPT ![a] = {}] /\ addr' = [addr EXCEPT ![a] = {}]
  /\ UNCHANGED <<conf, rt, rest, rules, ipnets, ipam>>

Next ==
  \E a \in Att :
    \/ StartAdd(a) \/ StartDel(a) \/ Crash(a) \/ NetnsGone(a)
    \/ Check(a) \/ Lookup(a) \/ HasIPs(a)
    \/ LinkAdd(a) \/ RenameLink(a) \/ LinkDel(a) \/ ConfigureIface(a) \/ DelLinkByName(a)
    \/ ReserveAddress(a) \/ ExecAdd(a) \/ ExecDel(a)
    \/ Setup(a) \/ Teardown(a) \/ SetupIPMasq(a) \/ TeardownIPMasq(a)

Spec == Init /\ [][Next]_vars

-----------------------------------------------------------------------------
(* Types; in particular a command is running exactly when it has steps     *)
(* left, and an address is on a link.                                      *)
TypeOK ==
  /\ rt \in [Att -> Idle \cup DOMAIN Final]
  /\ ns \in [Att -> BOOLEAN]
  /\ links \in [Att -> SUBSET {"tmp", "named"}]
  /\ addr \in [Att -> SUBSET IPs] /\ ipnets \in [Att -> SUBSET IPs]
  /\ spoof \in [Att -> BOOLEAN] /\ masq \in [Att -> SUBSET IPs]
  /\ held \in [Att -> SUBSET IPs] /\ live \in [Att -> SUBSET IPs]
  /\ \A a \in Att : rest[a] = <<>> <=> rt[a] \in Idle
  /\ \A a \in Att : addr[a] # {} => "named" \in links[a]

(* What ADD reports is there: the link with the addresses of the result,   *)
(* which are reserved for it, and the rules that were asked for.           *)
AttachedIsComplete ==
  \A a \in Att : rt[a] = "attached" =>
    /\ live[a] \subseteq held[a] /\ (conf[a].layer3 => live[a] # {})
    /\ ns[a] => "named" \in links[a] /\ addr[a] = live[a]
    /\ conf[a].macSpoofChk => spoof[a]
    /\ conf[a].ipMasq => live[a] \subseteq masq[a]

(* Two containers have one address only while a command runs, or has       *)
(* failed, for one of them: when all is quiet no address is on two links.  *)
NoAddressTwice ==
  \A a, b \in Att :
    a # b /\ rt[a] \in {"attached", "detached"} /\ rt[b] \in {"attached", "detached"} =>
      addr[a] \cap addr[b] = {}

(* When DEL has returned without error the link is gone and nothing is     *)
(* reserved, whatever failed or crashed before and with or without a       *)
(* namespace.                                                              *)
DelCleansUp ==
  \A a \in Att : rt[a] = "detached" => "named" \notin links[a] /\ held[a] = {}

(* "Invoke ipam del if err to avoid ip leak" (macvlan, vlan, tap), "release *)
(* IP in case of failure" (bridge), "defer ipam deletion to avoid ip leak" *)
(* (dummy): a failed ADD whose deferred functions worked holds no address. *)
FailedAddReleases ==
  \A a \in Att : rt[a] = "failed" /\ conf[a].plugin \notin {"ipvlan", "ptp"} => held[a] = {}

(* The same comment in ipvlan.                                             *)
IpvlanAddReleases ==
  \A a \in Att : rt[a] = "failed" /\ conf[a].plugin = "ipvlan" => held[a] = {}

(* "call ipam.ExecDel after clean up device in netns" (bridge): DEL does   *)
(* not free an address that is still on the link, where another container  *)
(* could be given it too early.                                            *)
BridgeReleasesLast ==
  [][\A a \in Att : conf[a].plugin = "bridge" /\ rt[a] = "deleting" =>
       (held[a] \ held'[a]) \cap addr[a] = {}]_vars

(* A DEL that succeeds removes the masquerading of the addresses it found  *)
(* on the link.                                                            *)
DelUnmasquerades == \A a \in Att : rt[a] = "detached" => masq[a] \cap ipnets[a] = {}
=============================================================================
