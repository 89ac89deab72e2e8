------------------------------ MODULE Firewall ------------------------------
(***************************************************************************)
(* The firewall plugin.  Its iptables backend accepts the traffic of the   *)
(* container's address in CNI-FORWARD, a chain the containers share, and   *)
(* its ingress policy isolates the bridge in two more shared chains.  The  *)
(* firewalld backend puts the address into a zone.                         *)
(***************************************************************************)
EXTENDS Iptables

VARIABLE sources   \* the attachments whose address is in firewalld's zone

PRIV == Shared("CNI-FORWARD")
ADMIN == Shared("CNI-ADMIN")
STAGE1 == Shared("CNI-ISOLATION-STAGE-1")
STAGE2 == Shared("CNI-ISOLATION-STAGE-2")

generateFilterRule == Rule("any", NoAtt, PRIV)
generateAdminRule == Rule("any", NoAtt, ADMIN)
jumpToStage1 == Rule("any", NoAtt, STAGE1)
ReturnRule == Rule("any", NoAtt, Shared("RETURN"))
getPrivChainRules(a) ==
  <<Rule("to, established", a, Shared("ACCEPT")), Rule("from", a, Shared("ACCEPT"))>>

ensureFirstChainRule(ch, rule) == InsertUnique(ch, TRUE, rule, <<>>)

setupChains ==
  << EnsureChain(PRIV), EnsureChain(ADMIN),
     ensureFirstChainRule(Shared("FORWARD"), generateFilterRule),
     ensureFirstChainRule(PRIV, generateAdminRule) >>

cleanupRules(a) ==
  [i \in 1..2 |-> Step("TryDeleteRule",
                       [chain |-> PRIV, rule |-> getPrivChainRules(a)[i]], <<>>)]

addRules(a) ==
  setupChains
    \o << InsertUnique(PRIV, FALSE, getPrivChainRules(a)[1], cleanupRules(a)),
          InsertUnique(PRIV, FALSE, getPrivChainRules(a)[2], cleanupRules(a)) >>

(* The rules of a bridge in the first stage name the policy in a comment.  *)
BridgeRule(policy, br) == Rule(policy, br, STAGE2)
BridgeDropRule(br) == Rule("isolated", br, Shared("DROP"))
Stage2Rule(br) == Rule("out", br, Shared("DROP"))

setupIsolationChains(policy, br) ==
  << EnsureChain(STAGE1), EnsureChain(STAGE2),
     InsertUnique(Shared("FORWARD"), TRUE, jumpToStage1, <<>>),
     InsertUnique(STAGE1, TRUE, BridgeRule(policy, br), <<>>) >>
    \o When(policy = "isolated", <<InsertUnique(STAGE1, TRUE, BridgeDropRule(br), <<>>)>>)
    \o << InsertUnique(STAGE1, FALSE, ReturnRule, <<>>),
          InsertUnique(STAGE2, TRUE, Stage2Rule(br), <<>>),
          InsertUnique(STAGE2, FALSE, ReturnRule, <<>>) >>

setupIngressPolicy(c) ==
  When(c.policy # "open", setupIsolationChains(c.policy, c.bridge))

FirewallAdd(a, c) ==
  (IF c.firewall = "iptables" THEN addRules(a) ELSE <<Do("addSource", <<>>)>>)
    \o setupIngressPolicy(c)

(* The addresses are those of the result of ADD, and there are none when   *)
(* the runtime has no result.  The rules of the bridge stay, for other     *)
(* containers may use it.                                                  *)
FirewallDel(a, c, hasResult) ==
  When(hasResult,
       IF c.firewall = "iptables" THEN cleanupRules(a) ELSE <<Do("removeSource", <<>>)>>)

-----------------------------------------------------------------------------

(* An address that is in a zone already is no error.                       *)
addSource(a) ==
  /\ At(a, "addSource")
  /\ \/ sources' = sources \cup {a} /\ Succeed(a)
     \/ Fail(a) /\ UNCHANGED sources
  /\ UNCHANGED iptVars

removeSource(a) ==
  /\ At(a, "removeSource")
  /\ \/ sources' = sources \ {a} /\ UNCHANGED ignored
     \/ UNCHANGED sources /\ ignored' = ignored \cup {a}
  /\ Succeed(a)
  /\ UNCHANGED chains

FirewallStep(a) == addSource(a) \/ removeSource(a)

(* cmdCheck.  That of firewalld only asks whether the query was answered;  *)
(* that of iptables makes the chains that are missing first.               *)
FirewallCheck(a) ==
  conf[a].firewall = "iptables" =>
    /\ Has(Shared("FORWARD"), generateFilterRule)
    /\ Has(PRIV, generateAdminRule)
    /\ \A i \in 1..2 : Has(PRIV, getPrivChainRules(a)[i])
=============================================================================
