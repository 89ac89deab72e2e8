------------------------------ MODULE Portmap -------------------------------
(***************************************************************************)
(* The portmap plugin.  With iptables a chain of the container translates  *)
(* the destination of its ports, entered from a chain the containers       *)
(* share; with nftables the rules of all containers are in shared chains,  *)
(* marked with the container's ID, and each change is one transaction.     *)
(***************************************************************************)
EXTENDS Iptables, FiniteSets

VARIABLE hostports   \* the rules of nftables

SETMARK == Shared("CNI-HOSTPORT-SETMARK")
MASQ == Shared("CNI-HOSTPORT-MASQ")
TOPDNAT == Shared("CNI-HOSTPORT-DNAT")
DN(a) == <<"CNI-DN", a>>

genSetMarkChain == Setup(SETMARK, <<Rule("any", NoAtt, Shared("MARK"))>>, <<>>, FALSE, "")

genMarkMasqChain ==
  Setup(MASQ, <<Rule("marked", NoAtt, Shared("MASQUERADE"))>>,
        <<Shared("POSTROUTING")>>, TRUE, Rule("any", NoAtt, MASQ))

genToplevelDnatChain ==
  Setup(TOPDNAT, <<>>, <<Shared("PREROUTING"), Shared("OUTPUT")>>, FALSE,
        Rule("local", NoAtt, TOPDNAT))

(* The rules of one port.                                                  *)
fillDnatRules(a, c) ==
  When(c.snat, <<Rule("hairpin", a, SETMARK), Rule("localhost", a, SETMARK)>>)
    \o <<Rule("port", a, Shared("DNAT"))>>

EntryRule(a) == Rule("ports", a, DN(a))

forwardPortsIptables(a, c) ==
  When(c.snat, genSetMarkChain \o genMarkMasqChain)
    \o genToplevelDnatChain
    \o Setup(DN(a), fillDnatRules(a, c), <<TOPDNAT>>, FALSE, EntryRule(a))

(* After the rules: conntrack entries of old flows are deleted, which may  *)
(* fail, and route_localnet is set.                                        *)
PortmapAdd(a, c) ==
  (IF c.portmap = "iptables" THEN forwardPortsIptables(a, c)
                             ELSE <<Do("forwardPortsNft", <<>>)>>)
    \o When(c.snat, <<Do("enableLocalnetRouting", <<>>)>>)

PortmapDel(c) ==
  IF c.portmap = "iptables"
  THEN <<Do("maybeGetIptables", <<>>)>>
  ELSE <<Do("listRulesNft", <<>>)>>

-----------------------------------------------------------------------------

(* A family whose iptables does not work is left alone, unless the other   *)
(* does not work either.                                                   *)
maybeGetIptables(a) ==
  /\ At(a, "maybeGetIptables")
  /\ \/ Push(a, Teardown(DN(a), TOPDNAT)) /\ UNCHANGED ignored
     \/ Succeed(a) /\ ignored' = ignored \cup {a}
     \/ Fail(a) /\ UNCHANGED ignored
  /\ UNCHANGED <<chains, hostports>>

enableLocalnetRouting(a) ==
  /\ At(a, "enableLocalnetRouting") /\ (Succeed(a) \/ Fail(a))
  /\ UNCHANGED <<iptVars, hostports>>

(* The rules one transaction adds: one per port, by the address of the     *)
(* host it is for, and two that masquerade.                                *)
NftRules(a, c) ==
  LET ports == IF c.hostIP THEN "hostip_hostports" ELSE "hostports"
      rule(chain, i) == [chain |-> chain, comment |-> c.cid, of |-> a, nr |-> i]
  IN {rule(ports, i) : i \in 1..c.ports}
       \cup (IF c.snat THEN {rule("masquerading", i) : i \in 1..2} ELSE {})

forwardPortsNft(a) ==
  /\ At(a, "forwardPortsNft")
  /\ \/ hostports' = hostports \cup NftRules(a, conf[a]) /\ Succeed(a)
     \/ Fail(a) /\ UNCHANGED hostports
  /\ UNCHANGED iptVars

(* The rules with the container's ID, of whatever network they are, are    *)
(* listed, and then deleted in one transaction.                            *)
OwnNft(a) == {r \in hostports : r.comment = conf[a].cid}

(* A family whose nftables does not work is left alone.                    *)
listRulesNft(a) ==
  /\ At(a, "listRulesNft")
  /\ \/ Push(a, <<Step("unforwardPortsNft", OwnNft(a), <<>>)>>) /\ UNCHANGED ignored
     \/ Succeed(a) /\ ignored' = ignored \cup {a}
     \/ Fail(a) /\ UNCHANGED ignored
  /\ UNCHANGED <<chains, hostports>>

unforwardPortsNft(a) ==
  /\ At(a, "unforwardPortsNft")
  /\ \/ /\ Arg(a) \subseteq hostports
        /\ hostports' = hostports \ Arg(a) /\ Succeed(a)
     \/ Fail(a) /\ UNCHANGED hostports
  /\ UNCHANGED iptVars

PortmapStep(a) ==
  \/ maybeGetIptables(a) \/ enableLocalnetRouting(a) \/ forwardPortsNft(a)
  \/ listRulesNft(a) \/ unforwardPortsNft(a)

-----------------------------------------------------------------------------
(* cmdCheck.                                                               *)

checkPortsIptables(a, c) ==
  /\ DN(a) \in DOMAIN chains
  /\ \A i \in DOMAIN fillDnatRules(a, c) : Has(DN(a), fillDnatRules(a, c)[i])
  /\ Has(TOPDNAT, EntryRule(a))

(* The rules are counted, and as many rules that masquerade are expected   *)
(* as there are ports.                                                     *)
checkPortsNft(a, c) ==
  LET found(chain) == Cardinality({r \in OwnNft(a) : r.chain = chain})
      ports == IF c.hostIP THEN "hostip_hostports" ELSE "hostports"
  IN found(ports) >= c.ports /\ (c.snat => found("masquerading") >= c.ports)

PortmapCheck(a) ==
  IF conf[a].portmap = "iptables" THEN checkPortsIptables(a, conf[a])
                                  ELSE checkPortsNft(a, conf[a])

(* Where the count that CHECK expects is more than what ADD makes.         *)
Miscounted(a) ==
  conf[a].portmap = "nftables" /\ conf[a].snat /\ conf[a].ports > 2
=============================================================================
