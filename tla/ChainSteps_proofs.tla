------------------------- MODULE ChainSteps_proofs --------------------------
(***************************************************************************)
(* The programs of the commands of Chain, for any lists of plugins: which  *)
(* steps a command may have left, that a step goes on with such steps, and *)
(* in which order the steps that are left come.                            *)
(***************************************************************************)
EXTENDS Chain, TLAPS

Elems(s) == {s[i] : i \in DOMAIN s}
IsSeq(s) == s \in Seq(Elems(s))
Left(a) == Elems(rest[a])
Behind(a) == Elems(Tail(rest[a]))
Due(a, steps) == \E x \in Left(a) : x.do \in steps

DevSteps ==
  {"getLink", "TempNetNS", "LinkSetNsFd", "LinkSetName", "LinkSetAlias",
   "FindInTemp", "FindInCont", "FindAgain", "FindToReturn", "LinkSetUp", "Close",
   "DevCheck", "DevGetNS", "DevExecAdd", "DevExecDel", "DevConfigureIface"}
TunSteps ==
  {"validateSysctlConf", "WriteSysctl", "createBackup", "change",
   "readBackup", "restore", "removeBackup"}
NfSteps ==
  {"EnsureChain", "Exists", "Insert", "ChainExists",
   "TryDeleteChain", "FindReferences", "DeleteEach", "ClearAndDeleteChain",
   "DeleteRule", "TryDeleteRule", "maybeGetIptables", "enableLocalnetRouting",
   "forwardPortsNft", "listRulesNft", "unforwardPortsNft", "addSource",
   "removeSource", "NewMasqChain", "ClearMasqChain", "DeleteMasqChain",
   "setupIPMasqNft", "teardownIPMasqNft"}
GwSteps ==
  {"FindVlan", "VlanVeth", "VlanPort", "AddrList", "ensureAddr", "LinkSetHardwareAddr",
   "enableIPForward"}
BridgeSteps == {"ensureBridge", "PortOfBridge", "PortUp"} \cup GwSteps
VethSteps == {"SetupVeth", "DelLinkByName"}
BwAddSteps ==
  {"getHostInterface", "CreateIngressQdisc", "CreateIfb", "AddIngressQdisc",
   "FilterAdd", "createTBF"}
VrfAddSteps ==
  {"findVRF", "createVRF", "LinkSetUpVRF", "saveAddresses", "LinkSetMaster",
   "restoreAddresses", "restoreRoutes"}
VrfDelSteps == {"findVRFToLeave", "resetMaster", "LinkDelVRF"}
Choosing == {"RuleAdd", "RouteAdd", "copyRoutes"}
SbrSteps == {"sbrLock", "sbrUnlock", "sbrList", "RouteDel", "tidyRules"} \cup Choosing

-----------------------------------------------------------------------------
(* The steps of a command in its phase: the plugins that are yet to run,   *)
(* and steps of those that do.  Only those of the device and of the chains *)
(* of iptables are undone.                                                 *)

Call(ph, a, x) ==
  ph \in {"adding", "deleting"} /\ Uses(a, x.do) /\ x = Do(x.do, <<>>)

Named(s, steps) == IsSeq(s) /\ \A y \in Elems(s) : y.do \in steps
Undoes(x, steps) == Named(x.undo, steps)

DevWord(ph, x) ==
  x.do \in DevSteps /\ (ph \in {"adding", "deleting"} => Undoes(x, DevSteps))

TunWord(ph, x) == ph \in {"adding", "deleting"} /\ x.do \in TunSteps /\ x.undo = <<>>

NfWord(ph, x) ==
  x.do \in NfSteps /\ (ph \in {"adding", "deleting"} => Undoes(x, NfSteps))

VethWord(ph, a, x) ==
  /\ Plugins(a) \cap {"veth", "bridge"} # {} /\ x.undo = <<>>
  /\ (ph = "adding" /\ x.do = "SetupVeth") \/ (ph = "deleting" /\ x.do = "DelLinkByName")

BridgeWord(ph, a, x) ==
  /\ Uses(a, "bridge") /\ ph = "adding" /\ x.undo = <<>> /\ x.do \in BridgeSteps
  /\ x.do \in GwSteps => x.arg \in DOMAIN conf[a].gws

BwWord(ph, a, x) ==
  /\ Uses(a, "bandwidth") /\ x.undo = <<>>
  /\ (ph = "adding" /\ x.do \in BwAddSteps) \/ (ph = "deleting" /\ x.do = "TeardownIfb")

VrfWord(ph, a, x) ==
  /\ Uses(a, "vrf") /\ x.undo = <<>>
  /\ (ph = "adding" /\ x.do \in VrfAddSteps) \/ (ph = "deleting" /\ x.do \in VrfDelSteps)

SbrWord(ph, a, x) ==
  /\ Uses(a, "sbr") /\ x.undo = <<>>
  /\ \/ ph = "adding" /\ x.do \in SbrSteps \ {"tidyRules"}
     \/ ph = "deleting" /\ x.do \in {"sbrLock", "tidyRules", "sbrUnlock"}
  /\ x.do \in Choosing => x.arg \in 1..conf[a].ips
  /\ x.do \in {"sbrList", "RouteDel", "RouteAdd", "copyRoutes"} => conf[a].table = 0

LinkWord(ph, a, x) ==
  \/ VethWord(ph, a, x) \/ BridgeWord(ph, a, x) \/ BwWord(ph, a, x)
  \/ VrfWord(ph, a, x) \/ SbrWord(ph, a, x)

Word(ph, a, x) ==
  \/ Call(ph, a, x) \/ DevWord(ph, x) \/ TunWord(ph, x) \/ NfWord(ph, x)
  \/ LinkWord(ph, a, x)

Phases == Idle \cup DOMAIN Final

(* A command that runs has steps left, all of which are its own; an        *)
(* attachment that is added has its namespace, and those of a container    *)
(* have one namespace.                                                     *)
Mech ==
  /\ conf \in Confs /\ rt \in [Att -> Phases] /\ ns \in [Att -> BOOLEAN]
  /\ DOMAIN rest = Att
  /\ \A a \in Att :
       /\ IsSeq(rest[a]) /\ (rt[a] \in Idle <=> rest[a] = <<>>)
       /\ \A x \in Left(a) : Word(rt[a], a, x)
       /\ rt[a] = "adding" => ns[a]
  /\ \A a, b \in Att : conf[a].cid = conf[b].cid => (ns[a] <=> ns[b])

-----------------------------------------------------------------------------
(* A sequence is one over any set that has its elements.                   *)
LEMMA SeqOver ==
  ASSUME NEW S, NEW T, NEW s \in Seq(S), \A i \in DOMAIN s : s[i] \in T
  PROVE  s \in Seq(T)
OBVIOUS

(* A sequence without elements is the empty one.                           *)
LEMMA SeqEmpty ==
  ASSUME NEW S, NEW s \in Seq(S)
  PROVE  s = <<>> <=> Len(s) = 0
OBVIOUS

(* A sequence has its elements, and what follows its head.                 *)
LEMMA TailElems ==
  ASSUME NEW s, IsSeq(s), s # <<>>
  PROVE  /\ IsSeq(Tail(s)) /\ Head(s) \in Elems(s)
         /\ Elems(s) = {Head(s)} \cup Elems(Tail(s))
         /\ Len(Tail(s)) = Len(s) - 1 /\ Len(s) \in Nat \ {0}
         /\ DOMAIN s = 1..Len(s) /\ DOMAIN Tail(s) = 1..(Len(s) - 1)
         /\ \A i \in DOMAIN Tail(s) : Tail(s)[i] = s[i + 1]
<1>1. /\ s \in Seq(Elems(s)) /\ Len(s) \in Nat /\ DOMAIN s = 1..Len(s) /\ Len(s) # 0
  BY DEF IsSeq
<1>2. /\ Len(Tail(s)) = Len(s) - 1 /\ Head(s) = s[1]
      /\ DOMAIN Tail(s) = 1..(Len(s) - 1)
      /\ \A i \in DOMAIN Tail(s) : Tail(s)[i] = s[i + 1]
  BY <1>1
<1>3. Head(s) \in Elems(s)
  BY <1>1, <1>2 DEF Elems
<1>4. Elems(s) \subseteq {Head(s)} \cup Elems(Tail(s))
  <2>1. SUFFICES ASSUME NEW i \in DOMAIN s PROVE s[i] = Head(s) \/ s[i] \in Elems(Tail(s))
    BY Zenon DEF Elems
  <2>2. CASE i = 1
    BY <2>2, <1>2, Zenon
  <2>3. CASE i # 1
    <3>1. i - 1 \in DOMAIN Tail(s) /\ Tail(s)[i - 1] = s[i]
      BY <2>3, <1>1, <1>2
    <3> QED BY <3>1, Zenon DEF Elems
  <2> QED BY <2>2, <2>3, Zenon
<1>5. Elems(Tail(s)) \subseteq Elems(s)
  <2>1. SUFFICES ASSUME NEW i \in DOMAIN Tail(s) PROVE Tail(s)[i] \in Elems(s)
    BY Zenon DEF Elems
  <2>2. i + 1 \in DOMAIN s
    BY <1>1, <1>2
  <2> QED BY <2>2, <1>2, Zenon DEF Elems
<1>6. Tail(s) \in Seq(Elems(Tail(s)))
  <2>1. Tail(s) \in Seq(Elems(s))
    BY <1>1
  <2>2. \A i \in DOMAIN Tail(s) : Tail(s)[i] \in Elems(Tail(s))
    BY Zenon DEF Elems
  <2> QED BY <2>1, <2>2, SeqOver, Zenon
<1> QED BY <1>1, <1>2, <1>3, <1>4, <1>5, <1>6, Zenon DEF IsSeq

(* A concatenation has the elements of both.                               *)
LEMMA ConcatElems ==
  ASSUME NEW s, NEW t, IsSeq(s), IsSeq(t)
  PROVE  /\ IsSeq(s \o t) /\ Elems(s \o t) = Elems(s) \cup Elems(t)
         /\ Len(s) \in Nat /\ Len(t) \in Nat
         /\ DOMAIN s = 1..Len(s) /\ DOMAIN t = 1..Len(t)
         /\ DOMAIN (s \o t) = 1..(Len(s) + Len(t))
         /\ \A i \in 1..Len(s) : (s \o t)[i] = s[i]
         /\ \A i \in 1..Len(t) : (s \o t)[Len(s) + i] = t[i]
         /\ s \o t = <<>> <=> s = <<>> /\ t = <<>>
<1> DEFINE E == Elems(s) \cup Elems(t)
<1>1. /\ s \in Seq(E) /\ t \in Seq(E) /\ Len(s) \in Nat /\ Len(t) \in Nat
      /\ DOMAIN s = 1..Len(s) /\ DOMAIN t = 1..Len(t)
  <2>1. /\ s \in Seq(Elems(s)) /\ t \in Seq(Elems(t)) /\ Len(s) \in Nat /\ Len(t) \in Nat
        /\ DOMAIN s = 1..Len(s) /\ DOMAIN t = 1..Len(t)
    BY DEF IsSeq
  <2>2. /\ \A i \in DOMAIN s : s[i] \in E
        /\ \A i \in DOMAIN t : t[i] \in E
    BY <2>1, Zenon DEF Elems
  <2>3. s \in Seq(E)
    BY <2>1, <2>2, SeqOver, Zenon
  <2>4. t \in Seq(E)
    BY <2>1, <2>2, SeqOver, Zenon
  <2> QED BY <2>1, <2>3, <2>4, Zenon
<1> HIDE DEF E
<1>2. /\ s \o t \in Seq(E) /\ Len(s \o t) = Len(s) + Len(t)
      /\ DOMAIN (s \o t) = 1..(Len(s) + Len(t))
      /\ \A i \in 1..(Len(s) + Len(t)) :
           (s \o t)[i] = IF i <= Len(s) THEN s[i] ELSE t[i - Len(s)]
  BY <1>1
<1>3. /\ \A i \in 1..Len(s) : (s \o t)[i] = s[i]
      /\ \A i \in 1..Len(t) : (s \o t)[Len(s) + i] = t[i]
  BY <1>1, <1>2
<1>4. E \subseteq Elems(s \o t)
  <2>1. \A i \in DOMAIN s : s[i] \in Elems(s \o t)
    BY <1>1, <1>2, <1>3 DEF Elems
  <2>2. ASSUME NEW i \in DOMAIN t PROVE t[i] \in Elems(s \o t)
    <3>1. Len(s) + i \in DOMAIN (s \o t)
      BY <1>1, <1>2
    <3> QED BY <3>1, <1>1, <1>3, Zenon DEF Elems
  <2> QED BY <2>1, <2>2, Zenon DEF Elems, E
<1>5. Elems(s \o t) \subseteq E
  BY <1>2 DEF Elems
<1>6. s \o t \in Seq(Elems(s \o t))
  BY <1>2, <1>4, <1>5
<1>7. s \o t = <<>> <=> s = <<>> /\ t = <<>>
  BY <1>1, <1>2
<1> QED BY <1>1, <1>2, <1>3, <1>4, <1>5, <1>6, <1>7, Zenon DEF E, IsSeq

(* The elements of short sequences.                                        *)
LEMMA ShortElems ==
  /\ IsSeq(<<>>) /\ Elems(<<>>) = {}
  /\ \A u : IsSeq(<<u>>) /\ Elems(<<u>>) = {u}
  /\ \A u, v : IsSeq(<<u, v>>) /\ Elems(<<u, v>>) = {u, v}
  /\ \A u, v, w : IsSeq(<<u, v, w>>) /\ Elems(<<u, v, w>>) = {u, v, w}
  /\ \A u, v, w, x : IsSeq(<<u, v, w, x>>) /\ Elems(<<u, v, w, x>>) = {u, v, w, x}
  /\ \A u, v, w, x, y :
       IsSeq(<<u, v, w, x, y>>) /\ Elems(<<u, v, w, x, y>>) = {u, v, w, x, y}
<1>1. IsSeq(<<>>) /\ Elems(<<>>) = {}
  BY DEF IsSeq, Elems
<1>2. ASSUME NEW u PROVE IsSeq(<<u>>) /\ Elems(<<u>>) = {u}
  <2>1. Elems(<<u>>) = {u}
    BY DEF Elems
  <2> QED BY <2>1 DEF IsSeq
<1>3. ASSUME NEW u, NEW v PROVE IsSeq(<<u, v>>) /\ Elems(<<u, v>>) = {u, v}
  <2>1. Elems(<<u, v>>) = {u, v}
    BY DEF Elems
  <2> QED BY <2>1 DEF IsSeq
<1>4. ASSUME NEW u, NEW v, NEW w
      PROVE IsSeq(<<u, v, w>>) /\ Elems(<<u, v, w>>) = {u, v, w}
  <2>1. Elems(<<u, v, w>>) = {u, v, w}
    BY DEF Elems
  <2> QED BY <2>1 DEF IsSeq
<1>5. ASSUME NEW u, NEW v, NEW w, NEW x
      PROVE IsSeq(<<u, v, w, x>>) /\ Elems(<<u, v, w, x>>) = {u, v, w, x}
  <2>1. Elems(<<u, v, w, x>>) = {u, v, w, x}
    BY DEF Elems
  <2> QED BY <2>1 DEF IsSeq
<1>6. ASSUME NEW u, NEW v, NEW w, NEW x, NEW y
      PROVE IsSeq(<<u, v, w, x, y>>) /\ Elems(<<u, v, w, x, y>>) = {u, v, w, x, y}
  <2>1. Elems(<<u, v, w, x, y>>) = {u, v, w, x, y}
    BY DEF Elems
  <2> QED BY <2>1 DEF IsSeq
<1> QED BY <1>1, <1>2, <1>3, <1>4, <1>5, <1>6, Zenon

-----------------------------------------------------------------------------

AllPlugins == MainPlugins \cup ChainedPlugins

(* What the assumption on the configurations says of those of a state.     *)
LEMMA ConfFacts ==
  ASSUME Mech
  PROVE  /\ NoAtt \notin Att /\ FirstTable \in Nat \ {0} /\ DOMAIN conf = Att
         /\ \A a \in Att : /\ ConfOK(conf[a]) /\ Plugins(a) \subseteq AllPlugins
                           /\ \A p \in Plugins(a) : OptionsOK(p, conf[a])
<1>1. conf \in Confs
  BY Zenon DEF Mech
<1>2. /\ NoAtt \notin Att /\ FirstTable \in Nat \ {0} /\ DOMAIN conf = Att
      /\ \A a \in Att : ConfOK(conf[a])
  BY <1>1, ConfsAssumed, Zenon DEF ConfsAssumption
<1>3. ASSUME NEW a \in Att
      PROVE  /\ Plugins(a) \subseteq AllPlugins
             /\ \A p \in Plugins(a) : OptionsOK(p, conf[a])
  <2>1. /\ conf[a].chain \in Seq(AllPlugins)
        /\ \A i \in DOMAIN conf[a].chain : OptionsOK(conf[a].chain[i], conf[a])
    BY <1>2, Zenon DEF ConfOK, ListOK, AllPlugins
  <2> QED BY <2>1 DEF Plugins
<1> QED BY <1>2, <1>3, Zenon

(* A step is one of the family that its name is of.                        *)
LEMMA WordIs ==
  ASSUME Mech, NEW a \in Att, NEW x \in Left(a)
  PROVE  /\ rt[a] \notin Idle /\ rt[a] \in Phases
         /\ x.do \in DevSteps => DevWord(rt[a], x)
         /\ x.do \in TunSteps => TunWord(rt[a], x)
         /\ x.do \in NfSteps => NfWord(rt[a], x)
         /\ x.do \in VethSteps => VethWord(rt[a], a, x)
         /\ x.do \in BridgeSteps => BridgeWord(rt[a], a, x)
         /\ x.do \in BwAddSteps \cup {"TeardownIfb"} => BwWord(rt[a], a, x)
         /\ x.do \in VrfAddSteps \cup VrfDelSteps => VrfWord(rt[a], a, x)
         /\ x.do \in SbrSteps => SbrWord(rt[a], a, x)
         /\ x.do \in AllPlugins => Call(rt[a], a, x)
<1>1. Word(rt[a], a, x) /\ rest[a] # <<>> /\ rt[a] \notin Idle /\ rt[a] \in Phases
  BY DEF Mech, Left, Elems
<1>2. Call(rt[a], a, x) => x.do \in AllPlugins
  BY ConfFacts, Zenon DEF Call, Uses
<1>3. QED
  BY <1>1, <1>2 DEF Word, LinkWord, DevWord, TunWord, NfWord, VethWord, BridgeWord,
     BwWord, VrfWord, SbrWord, DevSteps, TunSteps, NfSteps, VethSteps, BridgeSteps,
     GwSteps, BwAddSteps, VrfAddSteps, VrfDelSteps, SbrSteps, Choosing, AllPlugins,
     MainPlugins, ChainedPlugins

-----------------------------------------------------------------------------
(* What a step does to the commands: it succeeds, and steps take the place *)
(* of the first one, or it fails.                                          *)

Ended == {"adding", "attached", "deleting", "detached"}

Did(a, s) ==
  /\ \A b \in Att \ {a} : Left(b)' = Left(b) /\ rt'[b] = rt[b]
  /\ Head(rest[a]) \in Left(a) /\ Left(a) = {Head(rest[a])} \cup Behind(a)
  /\ Left(a)' = Elems(s) \cup Behind(a)
  /\ IF Left(a)' = {} THEN rt'[a] = Final[rt[a]] ELSE rt'[a] = rt[a]

Failed(a) ==
  /\ \A b \in Att \ {a} : Left(b)' = Left(b) /\ rt'[b] = rt[b]
  /\ rt'[a] \notin Ended

Idled == UNCHANGED <<rest, rt>>

(* What a command is when it is done.                                      *)
LEMMA FinalIs ==
  /\ DOMAIN Final = {"adding", "undoing", "botched", "deleting", "reverting"}
  /\ Final["adding"] = "attached" /\ Final["deleting"] = "detached"
  /\ Final["undoing"] = "failed" /\ Final["botched"] = "dirty" /\ Final["reverting"] = "dirty"
BY Zenon DEF Final

Prog(ph, a, s, steps) ==
  IsSeq(s) /\ \A x \in Elems(s) : x.do \in steps /\ Word(ph, a, x)

Shape(a, steps) ==
  /\ rest[a] # <<>>
  /\ Idled \/ Fail(a) \/ \E s : Prog(rt[a], a, s, steps) /\ Push(a, s)

(* Words depend on the configuration, which stays.                         *)
LEMMA WordKept ==
  ASSUME UNCHANGED conf, NEW a, NEW x, NEW ph, ph = rt'[a], Word(ph, a, x)
  PROVE  Word(rt[a], a, x)'
BY ZenonT(60) DEF Word, Call, DevWord, TunWord, NfWord, LinkWord, VethWord, BridgeWord, BwWord,
   VrfWord, SbrWord, Uses, Plugins

(* A step that succeeds is replaced by the steps it leads to.              *)
LEMMA Pushed ==
  ASSUME Mech, NEW a \in Att, rest[a] # <<>>, NEW s, IsSeq(s), Push(a, s)
  PROVE  /\ Did(a, s) /\ DOMAIN rest' = Att /\ rt' \in [Att -> Phases]
         /\ \A b \in Att \ {a} : rest'[b] = rest[b]
         /\ IsSeq(rest'[a]) /\ rest'[a] = s \o Tail(rest[a])
         /\ rt'[a] \in Idle <=> rest'[a] = <<>>
<1> DEFINE t == Tail(rest[a])
<1>1. /\ IsSeq(rest[a]) /\ rt \in [Att -> Phases] /\ DOMAIN rest = Att
      /\ rt[a] \notin Idle /\ rt[a] \in DOMAIN Final
  BY Zenon DEF Mech, Phases
<1>2. IsSeq(t) /\ Head(rest[a]) \in Left(a) /\ Left(a) = {Head(rest[a])} \cup Elems(t)
  BY <1>1, TailElems, Zenon DEF Left
<1>3. IsSeq(s \o t) /\ Elems(s \o t) = Elems(s) \cup Elems(t)
  BY <1>2, ConcatElems
<1> DEFINE u == s \o t
<1>4. /\ rest' = [rest EXCEPT ![a] = u]
      /\ rt' = [rt EXCEPT ![a] = IF u = <<>> THEN Final[@] ELSE @]
  BY Zenon DEF Push, GoOn
<1> HIDE DEF t, u
<1>5. /\ DOMAIN rest' = Att /\ rest'[a] = u
      /\ \A b \in Att \ {a} : rest'[b] = rest[b] /\ rt'[b] = rt[b]
      /\ rt'[a] = IF u = <<>> THEN Final[rt[a]] ELSE rt[a]
  BY <1>1, <1>4, Zenon
<1>6. u = <<>> <=> Elems(u) = {}
  <2>1. u # <<>> => Elems(u) # {}
    BY <1>3, TailElems, Zenon DEF u
  <2> QED BY <2>1, ShortElems, Zenon
<1>7. Final[rt[a]] \in Idle /\ Final[rt[a]] \in Phases
  BY <1>1 DEF Final, Idle, Phases
<1>8. rt' \in [Att -> Phases] /\ (rt'[a] \in Idle <=> rest'[a] = <<>>)
  BY <1>1, <1>4, <1>5, <1>7, Zenon
<1>9. Did(a, s)
  BY <1>2, <1>3, <1>5, <1>6, Zenon DEF Did, Left, Behind, t, u
<1> QED BY <1>3, <1>5, <1>8, <1>9, Zenon DEF t, u

(* A step that only succeeds is followed by the next one.                  *)
LEMMA SucceedPush ==
  ASSUME Mech, NEW a \in Att, rest[a] # <<>>, Succeed(a)
  PROVE  Push(a, <<>>)
<1>1. IsSeq(Tail(rest[a]))
  BY TailElems, Zenon DEF Mech
<1>2. <<>> \o Tail(rest[a]) = Tail(rest[a])
  BY <1>1 DEF IsSeq
<1> QED BY <1>2, Zenon DEF Succeed, Push

(* A command that fails undoes what it did and is not done.                *)
LEMMA FailedSteps ==
  ASSUME Mech, NEW a \in Att, rest[a] # <<>>, Fail(a)
  PROVE  /\ Failed(a) /\ DOMAIN rest' = Att /\ rt' \in [Att -> Phases]
         /\ \A b \in Att \ {a} : rest'[b] = rest[b]
         /\ IsSeq(rest'[a]) /\ (rt'[a] \in Idle <=> rest'[a] = <<>>)
         /\ \A x \in Elems(rest'[a]) : x.do \in DevSteps \cup NfSteps
<1> DEFINE t == Tail(rest[a])
           h == Head(rest[a])
<1>1. /\ IsSeq(rest[a]) /\ rt \in [Att -> Phases] /\ DOMAIN rest = Att
  BY Zenon DEF Mech
<1>2. /\ IsSeq(t) /\ h \in Left(a) /\ Elems(t) \subseteq Left(a)
      /\ Len(t) = Len(rest[a]) - 1 /\ Len(rest[a]) \in Nat
  BY <1>1, TailElems, Zenon DEF Left
<1>3. t = <<>> <=> Len(rest[a]) = 1
  <2>1. t = <<>> <=> Len(t) = 0
    BY <1>2, SeqEmpty, Zenon DEF IsSeq
  <2> QED BY <1>2, <2>1
<1>4. Word(rt[a], a, h) /\ \A x \in Elems(t) : Word(rt[a], a, x)
  BY <1>2, Zenon DEF Mech
<1>5. rt[a] \in {"adding", "deleting"} =>
        IsSeq(h.undo) /\ \A x \in Elems(h.undo) : x.do \in DevSteps \cup NfSteps
  <2>1. h.undo = <<>> => IsSeq(h.undo) /\ Elems(h.undo) = {}
    BY ShortElems, Zenon
  <2>2. Call(rt[a], a, h) \/ TunWord(rt[a], h) \/ LinkWord(rt[a], a, h) => h.undo = <<>>
    <3>1. Call(rt[a], a, h) => h.undo = <<>>
      BY DEF Call, Do, Step
    <3> HIDE DEF h
    <3> QED BY <3>1, Zenon DEF TunWord, LinkWord, VethWord, BridgeWord, BwWord, VrfWord, SbrWord
  <2> HIDE DEF h
  <2>3. rt[a] \in {"adding", "deleting"} =>
          /\ DevWord(rt[a], h) => Undoes(h, DevSteps)
          /\ NfWord(rt[a], h) => Undoes(h, NfSteps)
    BY Zenon DEF DevWord, NfWord
  <2> QED BY <1>4, <2>1, <2>2, <2>3, Zenon DEF Word, Undoes, Named
<1>6. rt[a] \notin {"adding", "deleting"} => \A x \in Elems(t) : x.do \in DevSteps \cup NfSteps
  BY <1>4, Zenon DEF Word, Call, DevWord, TunWord, NfWord, LinkWord, VethWord, BridgeWord,
     BwWord, VrfWord, SbrWord
<1> DEFINE F(u, ph) == /\ IsSeq(u) /\ \A x \in Elems(u) : x.do \in DevSteps \cup NfSteps
                       /\ rest' = [rest EXCEPT ![a] = u]
                       /\ ph \in Phases \ Ended /\ rt' = [rt EXCEPT ![a] = ph]
                       /\ ph \in Idle <=> u = <<>>
<1>7. \E u, ph : F(u, ph)
  <2>1. CASE rt[a] \in {"adding", "deleting"}
    <3>1. rest' = [rest EXCEPT ![a] = h.undo]
      BY <2>1, Zenon DEF Fail
    <3>2. \E ph \in Phases \ Ended : rt' = [rt EXCEPT ![a] = ph] /\ (ph \in Idle <=> h.undo = <<>>)
      BY <2>1 DEF Fail, Phases, Ended, Idle, Final
    <3> QED BY <3>1, <3>2, <1>5, <2>1, Zenon
  <2>2. CASE rt[a] \notin {"adding", "deleting"}
    <3>1. rest' = [rest EXCEPT ![a] = t]
      BY <2>2, Zenon DEF Fail
    <3>2. \E ph \in Phases \ Ended : rt' = [rt EXCEPT ![a] = ph] /\ (ph \in Idle <=> t = <<>>)
      BY <2>2, <1>1, <1>3, Zenon DEF Fail, Phases, Ended, Idle, Final
    <3> QED BY <3>1, <3>2, <1>2, <1>6, <2>2, Zenon
  <2> QED BY <2>1, <2>2, Zenon
<1> HIDE DEF t, h, F
<1>8. PICK u, ph : F(u, ph)
  BY <1>7, Zenon
<1>9. /\ DOMAIN rest' = Att /\ rest'[a] = u /\ \A b \in Att \ {a} : rest'[b] = rest[b]
  BY <1>1, <1>8, Zenon DEF F
<1>10. /\ rt' \in [Att -> Phases] /\ rt'[a] = ph /\ rt'[a] \notin Ended
       /\ \A b \in Att \ {a} : rt'[b] = rt[b]
  BY <1>1, <1>8, Zenon DEF F
<1>11. Failed(a)
  BY <1>9, <1>10, Zenon DEF Failed, Left
<1> QED BY <1>8, <1>9, <1>10, <1>11, Zenon DEF F

(* The steps of a command stay its own.                                    *)
LEMMA MechStep ==
  ASSUME Mech, NEW a \in Att, NEW steps, Shape(a, steps), UNCHANGED <<conf, ns>>
  PROVE  Mech'
<1>1. CASE Idled
  <2>1. ASSUME NEW b \in Att, NEW x \in Left(b)' PROVE Word(rt[b], b, x)'
    <3>1. Word(rt[b], b, x) /\ rt'[b] = rt[b]
      BY <1>1, <2>1, Zenon DEF Idled, Mech, Left
    <3> QED BY <3>1, WordKept, Zenon
  <2> QED BY <1>1, <2>1, Zenon DEF Idled, Mech
<1>2. ASSUME NEW s, Prog(rt[a], a, s, steps), Push(a, s) PROVE Mech'
  <2>1. rest[a] # <<>> /\ IsSeq(s)
    BY <1>2, Zenon DEF Shape, Prog
  <2>2. /\ Did(a, s) /\ DOMAIN rest' = Att /\ rt' \in [Att -> Phases]
        /\ \A b \in Att \ {a} : rest'[b] = rest[b] /\ rt'[b] = rt[b]
        /\ IsSeq(rest'[a])
        /\ rt'[a] \in Idle <=> rest'[a] = <<>>
    BY <1>2, <2>1, Pushed, Zenon DEF Did
  <2>3. ASSUME NEW b \in Att, NEW x \in Left(b)' PROVE Word(rt[b], b, x)'
    <3>1. CASE b # a
      <4>1. Word(rt[b], b, x) /\ rt'[b] = rt[b]
        BY <2>2, <2>3, <3>1, Zenon DEF Mech, Left
      <4> QED BY <4>1, WordKept, Zenon
    <3>2. CASE b = a
      <4>1. Word(rt[a], a, x) /\ Left(a)' # {}
        BY <2>2, <2>3, <3>2, <1>2, Zenon DEF Did, Mech, Prog
      <4>2. rt'[a] = rt[a]
        BY <4>1, <2>2, Zenon DEF Did
      <4> QED BY <4>1, <4>2, <3>2, WordKept, Zenon
    <3> QED BY <3>1, <3>2, Zenon
  <2>4. rt'[a] = "adding" => rt[a] = "adding"
    <3>1. rt[a] \in DOMAIN Final
      BY <2>1, Zenon DEF Mech, Phases
    <3> QED BY <3>1, <2>2 DEF Did, Final
  <2>5. ASSUME NEW b \in Att
        PROVE  /\ IsSeq(rest'[b]) /\ (rt'[b] \in Idle <=> rest'[b] = <<>>)
               /\ rt'[b] = "adding" => ns[b]
    BY <2>2, <2>4, Zenon DEF Mech
  <2> QED BY <2>2, <2>3, <2>5, Zenon DEF Mech
<1>3. CASE Fail(a)
  <2>1. rest[a] # <<>>
    BY Zenon DEF Shape
  <2>2. /\ DOMAIN rest' = Att /\ rt' \in [Att -> Phases] /\ rt'[a] \notin Ended
        /\ \A b \in Att \ {a} : rest'[b] = rest[b] /\ rt'[b] = rt[b]
        /\ IsSeq(rest'[a]) /\ (rt'[a] \in Idle <=> rest'[a] = <<>>)
        /\ \A x \in Elems(rest'[a]) : x.do \in DevSteps \cup NfSteps
    BY <1>3, <2>1, FailedSteps, Zenon DEF Failed
  <2>3. ASSUME NEW b \in Att, NEW x \in Left(b)' PROVE Word(rt[b], b, x)'
    <3>1. CASE b # a
      <4>1. Word(rt[b], b, x) /\ rt'[b] = rt[b]
        BY <2>2, <2>3, <3>1, Zenon DEF Mech, Left
      <4> QED BY <4>1, WordKept, Zenon
    <3>2. CASE b = a
      <4>1. Word(rt'[a], a, x)
        BY <2>2, <2>3, <3>2, Zenon DEF Left, Word, DevWord, NfWord, Ended
      <4> QED BY <4>1, <3>2, WordKept, Zenon
    <3> QED BY <3>1, <3>2, Zenon
  <2>4. ASSUME NEW b \in Att
        PROVE  /\ IsSeq(rest'[b]) /\ (rt'[b] \in Idle <=> rest'[b] = <<>>)
               /\ rt'[b] = "adding" => ns[b]
    BY <2>2, Zenon DEF Mech, Ended
  <2> QED BY <2>2, <2>3, <2>4, Zenon DEF Mech
<1> QED BY <1>1, <1>2, <1>3, Zenon DEF Shape

(* Programs are put together.                                              *)
LEMMA NamedParts ==
  ASSUME NEW steps
  PROVE  /\ Named(<<>>, steps)
         /\ \A x : x.do \in steps => Named(<<x>>, steps)
         /\ \A s, t : Named(s, steps) /\ Named(t, steps) => Named(s \o t, steps)
BY ShortElems, ConcatElems DEF Named

LEMMA ProgParts ==
  ASSUME NEW ph, NEW a, NEW steps
  PROVE  /\ Prog(ph, a, <<>>, steps)
         /\ \A x : x.do \in steps /\ Word(ph, a, x) => Prog(ph, a, <<x>>, steps)
         /\ \A s, t : Prog(ph, a, s, steps) /\ Prog(ph, a, t, steps) =>
              Prog(ph, a, s \o t, steps)
         /\ \A c, s : Prog(ph, a, s, steps) => Prog(ph, a, When(c, s), steps)
<1>1. ASSUME NEW s, NEW t, Prog(ph, a, s, steps), Prog(ph, a, t, steps)
      PROVE  Prog(ph, a, s \o t, steps)
  BY <1>1, ConcatElems, Zenon DEF Prog
<1>2. /\ Prog(ph, a, <<>>, steps)
      /\ \A x : x.do \in steps /\ Word(ph, a, x) => Prog(ph, a, <<x>>, steps)
  BY ShortElems DEF Prog
<1>3. \A c, s : Prog(ph, a, s, steps) => Prog(ph, a, When(c, s), steps)
  BY <1>2, Zenon DEF When
<1> QED BY <1>1, <1>2, <1>3, Zenon

-----------------------------------------------------------------------------
(* The programs of the plugins.                                            *)

StepsOf(p) ==
  CASE p = "host-device" -> DevSteps
    [] p = "tuning" -> TunSteps
    [] p \in {"veth", "bridge"} -> VethSteps \cup BridgeSteps
    [] p \in {"ipMasq", "portmap", "firewall"} -> NfSteps
    [] p = "bandwidth" -> BwAddSteps \cup {"TeardownIfb"}
    [] p = "vrf" -> VrfAddSteps \cup VrfDelSteps
    [] p = "sbr" -> SbrSteps

(* Steps of the device and of iptables with what undoes them.              *)
LEMMA UndoneWords ==
  ASSUME NEW ph, NEW a, NEW n, NEW arg, NEW undo
  PROVE  /\ n \in DevSteps /\ Named(undo, DevSteps) =>
              /\ Prog(ph, a, <<Step(n, arg, undo)>>, DevSteps)
              /\ Word(ph, a, Step(n, arg, undo))
         /\ n \in NfSteps /\ Named(undo, NfSteps) =>
              /\ Prog(ph, a, <<Step(n, arg, undo)>>, NfSteps)
              /\ Word(ph, a, Step(n, arg, undo))
<1> DEFINE x == Step(n, arg, undo)
<1>1. x.do = n /\ x.undo = undo
  BY Zenon DEF Step
<1> HIDE DEF x
<1>2. /\ n \in DevSteps /\ Named(undo, DevSteps) => x.do \in DevSteps /\ Word(ph, a, x)
      /\ n \in NfSteps /\ Named(undo, NfSteps) => x.do \in NfSteps /\ Word(ph, a, x)
  BY <1>1, Zenon DEF Word, DevWord, NfWord, Undoes
<1> QED BY <1>2, ProgParts, Zenon DEF x

(* Longer programs.                                                        *)
LEMMA LongProg ==
  ASSUME NEW ph, NEW a, NEW steps,
         NEW u, NEW v, NEW w, NEW x, NEW y, NEW z, NEW r, NEW s, NEW t,
         \A e \in {u, v, w, x, y, z, r, s, t} : e.do \in steps /\ Word(ph, a, e)
  PROVE  /\ Prog(ph, a, <<u, v, w, x, y, z, r, s>>, steps)
         /\ Prog(ph, a, <<u, v, w, x, y, z, r, s, t>>, steps)
<1>1. Elems(<<u, v, w, x, y, z, r, s>>) = {u, v, w, x, y, z, r, s}
  BY DEF Elems
<1>2. Elems(<<u, v, w, x, y, z, r, s, t>>) = {u, v, w, x, y, z, r, s, t}
  BY DEF Elems
<1>3. IsSeq(<<u, v, w, x, y, z, r, s>>) /\ IsSeq(<<u, v, w, x, y, z, r, s, t>>)
  BY <1>1, <1>2 DEF IsSeq
<1>4. Prog(ph, a, <<u, v, w, x, y, z, r, s>>, steps)
  BY <1>1, <1>3, Zenon DEF Prog
<1>5. Prog(ph, a, <<u, v, w, x, y, z, r, s, t>>, steps)
  BY <1>2, <1>3, Zenon DEF Prog
<1> QED BY <1>4, <1>5, Zenon

(* The steps that move a device, and those that undo them.                 *)
LEMMA MoveProgs ==
  ASSUME NEW ph, NEW a
  PROVE  /\ Prog(ph, a, moveLinkIn, DevSteps) /\ Prog(ph, a, moveLinkOut, DevSteps)
         /\ Prog(ph, a, moveBack, DevSteps)
<1> DEFINE N(s) == Named(s, DevSteps)
           W(x) == x.do \in DevSteps /\ Word(ph, a, x)
<1>1. /\ N(<<>>) /\ \A s, t : N(s) /\ N(t) => N(s \o t)
      /\ \A n \in DevSteps : \A arg : N(<<Undo(n, arg)>>)
  <2>1. \A n, arg : Undo(n, arg).do = n
    BY Zenon DEF Undo, Step
  <2> QED BY <2>1, NamedParts, Zenon
<1>2. /\ \A n \in DevSteps : \A arg, undo : N(undo) => W(Step(n, arg, undo))
      /\ \A n \in DevSteps : \A undo : N(undo) => W(Do(n, undo))
  <2>1. \A n, arg, undo : Step(n, arg, undo).do = n
    BY Zenon DEF Step
  <2> QED BY <2>1, UndoneWords, Zenon DEF Do
<1> HIDE DEF N, W
<1>3. Prog(ph, a, moveLinkIn, DevSteps)
  <2> DEFINE close  == <<Undo("Close", "")>>
             home   == <<Undo("LinkSetNsFd", "host")>> \o close
             rename == <<Undo("LinkSetName", "own")>> \o home
             alone  == <<Undo("LinkSetAlias", "")>> \o rename
             again  == <<Undo("FindAgain", "")>> \o close
             back   == <<Undo("LinkSetNsFd", "temp")>> \o again
  <2>1. N(close) /\ N(home) /\ N(rename) /\ N(alone) /\ N(again) /\ N(back)
    BY <1>1, Zenon DEF DevSteps
  <2>2. moveLinkIn = << Do("TempNetNS", <<>>), Step("LinkSetNsFd", "temp", close),
        Do("FindInTemp", close), Step("LinkSetName", "if", home),
        Step("LinkSetAlias", "own", rename), Step("LinkSetNsFd", "cont", alone),
        Do("FindInCont", again), Do("LinkSetUp", back), Do("Close", <<>>) >>
    BY Zenon DEF moveLinkIn
  <2> HIDE DEF close, home, rename, alone, again, back
  <2>3. /\ W(Do("TempNetNS", <<>>)) /\ W(Step("LinkSetNsFd", "temp", close))
        /\ W(Do("FindInTemp", close)) /\ W(Step("LinkSetName", "if", home))
        /\ W(Step("LinkSetAlias", "own", rename)) /\ W(Step("LinkSetNsFd", "cont", alone))
        /\ W(Do("FindInCont", again)) /\ W(Do("LinkSetUp", back)) /\ W(Do("Close", <<>>))
    BY <1>1, <1>2, <2>1, Zenon DEF DevSteps
  <2> DEFINE x1 == Do("TempNetNS", <<>>)
             x2 == Step("LinkSetNsFd", "temp", close)
             x3 == Do("FindInTemp", close)
             x4 == Step("LinkSetName", "if", home)
             x5 == Step("LinkSetAlias", "own", rename)
             x6 == Step("LinkSetNsFd", "cont", alone)
             x7 == Do("FindInCont", again)
             x8 == Do("LinkSetUp", back)
             x9 == Do("Close", <<>>)
  <2>4. moveLinkIn = <<x1, x2, x3, x4, x5, x6, x7, x8, x9>>
    BY <2>2, Zenon
  <2>5. \A e \in {x1, x2, x3, x4, x5, x6, x7, x8, x9} : e.do \in DevSteps /\ Word(ph, a, e)
    BY <2>3, Zenon DEF W
  <2> HIDE DEF x1, x2, x3, x4, x5, x6, x7, x8, x9
  <2> QED BY <2>4, <2>5, LongProg, Zenon
<1>4. Prog(ph, a, moveLinkOut, DevSteps)
  <2> DEFINE close  == <<Undo("Close", "")>>
             home   == <<Undo("LinkSetNsFd", "cont")>> \o close
             rename == <<Undo("LinkSetName", "if")>> \o home
             realias == <<Undo("LinkSetAlias", "own")>> \o rename
  <2>1. N(close) /\ N(home) /\ N(rename) /\ N(realias)
    BY <1>1, Zenon DEF DevSteps
  <2>2. moveLinkOut = << Do("TempNetNS", <<>>), Do("FindToReturn", close),
        Step("LinkSetNsFd", "temp", close), Do("FindInTemp", close),
        Step("LinkSetName", "own", home), Step("LinkSetAlias", "", rename),
        Step("LinkSetNsFd", "host", realias), Do("Close", <<>>) >>
    BY Zenon DEF moveLinkOut
  <2> HIDE DEF close, home, rename, realias
  <2>3. /\ W(Do("TempNetNS", <<>>)) /\ W(Do("FindToReturn", close))
        /\ W(Step("LinkSetNsFd", "temp", close)) /\ W(Do("FindInTemp", close))
        /\ W(Step("LinkSetName", "own", home)) /\ W(Step("LinkSetAlias", "", rename))
        /\ W(Step("LinkSetNsFd", "host", realias)) /\ W(Do("Close", <<>>))
    BY <1>1, <1>2, <2>1, Zenon DEF DevSteps
  <2> DEFINE x1 == Do("TempNetNS", <<>>)
             x2 == Do("FindToReturn", close)
             x3 == Step("LinkSetNsFd", "temp", close)
             x4 == Do("FindInTemp", close)
             x5 == Step("LinkSetName", "own", home)
             x6 == Step("LinkSetAlias", "", rename)
             x7 == Step("LinkSetNsFd", "host", realias)
             x8 == Do("Close", <<>>)
  <2>4. moveLinkOut = <<x1, x2, x3, x4, x5, x6, x7, x8>>
    BY <2>2, Zenon
  <2>5. \A e \in {x1, x2, x3, x4, x5, x6, x7, x8} : e.do \in DevSteps /\ Word(ph, a, e)
    BY <2>3, Zenon DEF W
  <2> HIDE DEF x1, x2, x3, x4, x5, x6, x7, x8
  <2> QED BY <2>4, <2>5, LongProg, ZenonT(60)
<1>5. Prog(ph, a, moveBack, DevSteps)
  <2>1. /\ W(Undo("LinkSetAlias", "")) /\ W(Undo("LinkSetName", "own"))
        /\ W(Undo("LinkSetNsFd", "host"))
    BY <1>1, <1>2, Zenon DEF Undo, DevSteps
  <2> DEFINE x1 == Undo("LinkSetAlias", "")
             x2 == Undo("LinkSetName", "own")
             x3 == Undo("LinkSetNsFd", "host")
  <2>2. moveBack = <<x1, x2, x3>>
    BY Zenon DEF moveBack
  <2>3. \A e \in {x1, x2, x3} : e.do \in DevSteps /\ Word(ph, a, e)
    BY <2>1, Zenon DEF W
  <2> HIDE DEF x1, x2, x3
  <2> QED BY <2>2, <2>3, ShortElems DEF Prog
<1> QED BY <1>3, <1>4, <1>5, Zenon

(* The parts of a step.                                                    *)
LEMMA StepParts ==
  /\ \A n, arg, undo : /\ Step(n, arg, undo).do = n /\ Step(n, arg, undo).arg = arg
                       /\ Step(n, arg, undo).undo = undo
  /\ \A n, undo : Do(n, undo).do = n /\ Do(n, undo).undo = undo
BY Zenon DEF Step, Do

(* A rule that is inserted, with what undoes it.                           *)
LEMMA InsertWord ==
  ASSUME NEW ph, NEW a, NEW ch, NEW prepend, NEW rule, NEW undo, Named(undo, NfSteps)
  PROVE  /\ InsertUnique(ch, prepend, rule, undo).do \in NfSteps
         /\ Word(ph, a, InsertUnique(ch, prepend, rule, undo))
<1> DEFINE arg == [chain |-> ch, rule |-> rule, prepend |-> prepend]
<1>1. InsertUnique(ch, prepend, rule, undo) = Step("Exists", arg, undo)
  BY Zenon DEF InsertUnique
<1> HIDE DEF arg
<1>2. "Exists" \in NfSteps
  BY Zenon DEF NfSteps
<1>3. Word(ph, a, Step("Exists", arg, undo))
  BY <1>2, UndoneWords, Zenon
<1>4. Step("Exists", arg, undo).do = "Exists"
  BY StepParts, Zenon
<1> QED BY <1>1, <1>2, <1>3, <1>4, Zenon

(* A chain that is set up, with its rules and those that lead to it.       *)
LEMMA SetupProg ==
  ASSUME NEW ph, NEW a, NEW ch, NEW ruleSeq, NEW entries, NEW prepend, NEW entryRule,
         IsSeq(ruleSeq), IsSeq(entries)
  PROVE  Prog(ph, a, Setup(ch, ruleSeq, entries, prepend, entryRule), NfSteps)
<1> DEFINE N == Prog(ph, a, <<>>, NfSteps)
           r == [i \in DOMAIN ruleSeq |-> InsertUnique(ch, FALSE, ruleSeq[i], <<>>)]
           e == [i \in DOMAIN entries |->
                   InsertUnique(entries[i], prepend, entryRule, <<>>)]
<1>1. \A c, b, rule : /\ InsertUnique(c, b, rule, <<>>).do \in NfSteps
                      /\ Word(ph, a, InsertUnique(c, b, rule, <<>>))
  BY InsertWord, NamedParts, Zenon
<1>2. Prog(ph, a, <<EnsureChain(ch)>>, NfSteps)
  BY UndoneWords, NamedParts, Zenon DEF EnsureChain, NfSteps
<1>3. IsSeq(r) /\ IsSeq(e)
  <2>1. DOMAIN ruleSeq = 1..Len(ruleSeq) /\ Len(ruleSeq) \in Nat
    BY DEF IsSeq
  <2>2. DOMAIN entries = 1..Len(entries) /\ Len(entries) \in Nat
    BY DEF IsSeq
  <2>3. r \in [1..Len(ruleSeq) -> Elems(r)]
    BY <2>1, Zenon DEF Elems
  <2>4. e \in [1..Len(entries) -> Elems(e)]
    BY <2>2, Zenon DEF Elems
  <2> HIDE DEF r, e
  <2>5. IsSeq(r)
    BY <2>1, <2>3 DEF IsSeq
  <2>6. IsSeq(e)
    BY <2>2, <2>4 DEF IsSeq
  <2> QED BY <2>5, <2>6, Zenon
<1>4. Prog(ph, a, r, NfSteps)
  <2>1. \A x \in Elems(r) : x.do \in NfSteps /\ Word(ph, a, x)
    BY <1>1, Zenon DEF Elems
  <2> QED BY <2>1, <1>3, Zenon DEF Prog
<1>5. Prog(ph, a, e, NfSteps)
  <2>1. \A x \in Elems(e) : x.do \in NfSteps /\ Word(ph, a, x)
    BY <1>1, Zenon DEF Elems
  <2> QED BY <2>1, <1>3, Zenon DEF Prog
<1>6. Setup(ch, ruleSeq, entries, prepend, entryRule) = <<EnsureChain(ch)>> \o r \o e
  BY Zenon DEF Setup
<1> HIDE DEF r, e
<1> QED BY <1>2, <1>4, <1>5, <1>6, ProgParts, Zenon

(* The programs of the plugins that use iptables or nftables.              *)
LEMMA NfProgs ==
  ASSUME NEW ph, NEW a, NEW c
  PROVE  /\ c.snat \in BOOLEAN => /\ Prog(ph, a, PortmapAdd(a, c), NfSteps)
                                  /\ Prog(ph, a, PortmapDel(c), NfSteps)
         /\ Prog(ph, a, FirewallAdd(a, c), NfSteps)
         /\ \A res : Prog(ph, a, FirewallDel(a, c, res), NfSteps)
         /\ Prog(ph, a, SetupIPMasqForNetworks(a, c), NfSteps)
         /\ Prog(ph, a, TeardownIPMasqForNetworks(a), NfSteps)
<1> DEFINE P(s) == Prog(ph, a, s, NfSteps)
<1>1. \A n \in NfSteps : P(<<Do(n, <<>>)>>) /\ Named(<<Do(n, <<>>)>>, NfSteps)
  BY UndoneWords, NamedParts, StepParts, Zenon DEF Do
<1>2. \A ch, rule, prepend : P(<<InsertUnique(ch, prepend, rule, <<>>)>>)
  BY InsertWord, NamedParts, ProgParts, Zenon
<1>3. \A ch : P(<<EnsureChain(ch)>>)
  BY UndoneWords, NamedParts, Zenon DEF EnsureChain, NfSteps
<1>4. /\ P(<<>>) /\ \A s, t : P(s) /\ P(t) => P(s \o t)
      /\ \A b \in BOOLEAN : \A s : P(s) => P(When(b, s))
      /\ \A x, y : P(<<x>>) /\ P(<<y>>) => P(<<x, y>>)
      /\ \A x, y, z : P(<<x>>) /\ P(<<y>>) /\ P(<<z>>) => P(<<x, y, z>>)
      /\ \A x, y, z, w :
           P(<<x>>) /\ P(<<y>>) /\ P(<<z>>) /\ P(<<w>>) => P(<<x, y, z, w>>)
  <2>1. \A x : P(<<x>>) => x.do \in NfSteps /\ Word(ph, a, x)
    BY ShortElems, Zenon DEF Prog
  <2>2. /\ P(<<>>) /\ \A s, t : P(s) /\ P(t) => P(s \o t)
        /\ \A b \in BOOLEAN : \A s : P(s) => P(When(b, s))
    BY ProgParts, Zenon
  <2>3. \A x, y : P(<<x>>) /\ P(<<y>>) => P(<<x, y>>)
    BY <2>1, ShortElems DEF Prog
  <2>4. ASSUME NEW x, NEW y, NEW z, P(<<x>>), P(<<y>>), P(<<z>>)
        PROVE  P(<<x, y, z>>)
    <3>1. IsSeq(<<x, y, z>>) /\ Elems(<<x, y, z>>) = {x, y, z}
      BY ShortElems
    <3> QED BY <2>1, <2>4, <3>1, Zenon DEF Prog
  <2>5. ASSUME NEW x, NEW y, NEW z, NEW w, P(<<x>>), P(<<y>>), P(<<z>>), P(<<w>>)
        PROVE  P(<<x, y, z, w>>)
    <3>1. IsSeq(<<x, y, z, w>>) /\ Elems(<<x, y, z, w>>) = {x, y, z, w}
      BY ShortElems
    <3> QED BY <2>1, <2>5, <3>1, Zenon DEF Prog
  <2> QED BY <2>2, <2>3, <2>4, <2>5, Zenon
<1>5. /\ P(genSetMarkChain) /\ P(genMarkMasqChain) /\ P(genToplevelDnatChain)
  BY SetupProg, ShortElems, Zenon DEF genSetMarkChain, genMarkMasqChain, genToplevelDnatChain
<1>6. c.snat \in BOOLEAN => P(PortmapAdd(a, c)) /\ P(PortmapDel(c))
  <2>1. SUFFICES ASSUME c.snat \in BOOLEAN PROVE P(PortmapAdd(a, c)) /\ P(PortmapDel(c))
    BY Zenon
  <2>2. IsSeq(fillDnatRules(a, c))
    <3> DEFINE hp == <<Rule("hairpin", a, SETMARK), Rule("localhost", a, SETMARK)>>
               pt == <<Rule("port", a, Shared("DNAT"))>>
    <3>1. IsSeq(hp) /\ IsSeq(pt) /\ IsSeq(<<>>)
      BY ShortElems, Zenon
    <3>2. fillDnatRules(a, c) = When(c.snat, hp) \o pt
      BY Zenon DEF fillDnatRules
    <3> HIDE DEF hp, pt
    <3>3. IsSeq(When(c.snat, hp))
      BY <3>1, <2>1, Zenon DEF When
    <3> QED BY <3>1, <3>2, <3>3, ConcatElems
  <2>3. P(Setup(DN(a), fillDnatRules(a, c), <<TOPDNAT>>, FALSE, EntryRule(a)))
    <3>1. IsSeq(<<TOPDNAT>>)
      BY ShortElems, Zenon
    <3> QED BY <2>2, <3>1, SetupProg, Zenon
  <2> HIDE DEF P
  <2>4. P(When(c.snat, genSetMarkChain \o genMarkMasqChain) \o genToplevelDnatChain)
    BY <1>4, <1>5, <2>1, Zenon
  <2>5. P(forwardPortsIptables(a, c))
    BY <2>3, <2>4, <1>4, Zenon DEF forwardPortsIptables
  <2>6. P(<<Do("forwardPortsNft", <<>>)>>) /\ P(<<Do("enableLocalnetRouting", <<>>)>>)
        /\ P(<<Do("maybeGetIptables", <<>>)>>) /\ P(<<Do("listRulesNft", <<>>)>>)
    BY <1>1, Zenon DEF NfSteps
  <2>7. P(When(c.snat, <<Do("enableLocalnetRouting", <<>>)>>))
    BY <2>6, <2>1, <1>4, Zenon
  <2>8. P(PortmapAdd(a, c))
    BY <2>5, <2>6, <2>7, <1>4, Zenon DEF PortmapAdd
  <2> QED BY <2>6, <2>8, Zenon DEF PortmapDel
<1>7. Named(cleanupRules(a), NfSteps) /\ P(cleanupRules(a))
  <2> DEFINE x(i) == Step("TryDeleteRule",
                          [chain |-> PRIV, rule |-> getPrivChainRules(a)[i]], <<>>)
  <2>1. cleanupRules(a) = <<x(1), x(2)>>
    BY DEF cleanupRules
  <2>2. ASSUME NEW i PROVE x(i).do \in NfSteps /\ P(<<x(i)>>)
    <3> DEFINE arg == [chain |-> PRIV, rule |-> getPrivChainRules(a)[i]]
    <3>1. x(i) = Step("TryDeleteRule", arg, <<>>) /\ "TryDeleteRule" \in NfSteps
      BY Zenon DEF NfSteps
    <3> HIDE DEF arg, x
    <3>2. x(i).do = "TryDeleteRule"
      BY <3>1, StepParts
    <3>3. P(<<x(i)>>)
      BY <3>1, UndoneWords, NamedParts, Zenon
    <3> QED BY <3>1, <3>2, <3>3, Zenon
  <2> HIDE DEF x, P
  <2>3. P(<<x(1), x(2)>>)
    BY <2>2, <1>4, Zenon
  <2>4. IsSeq(<<x(1), x(2)>>) /\ Elems(<<x(1), x(2)>>) = {x(1), x(2)}
    BY ShortElems, Zenon
  <2>5. Named(<<x(1), x(2)>>, NfSteps)
    BY <2>2, <2>4, Zenon DEF Named
  <2> QED BY <2>1, <2>3, <2>5, Zenon
<1> HIDE DEF P
<1>8. P(FirewallAdd(a, c)) /\ \A res : P(FirewallDel(a, c, res))
  <2>1. P(setupChains)
    BY <1>2, <1>3, <1>4, Zenon DEF setupChains, ensureFirstChainRule
  <2>2. \A rule : P(<<InsertUnique(PRIV, FALSE, rule, cleanupRules(a))>>)
    BY <1>7, InsertWord, ProgParts, Zenon DEF P
  <2>3. P(addRules(a))
    BY <2>1, <2>2, <1>4, Zenon DEF addRules
  <2>4. P(setupIsolationChains(c.policy, c.bridge))
    BY <1>2, <1>3, <1>4, Zenon DEF setupIsolationChains, When
  <2>5. P(setupIngressPolicy(c))
    BY <2>4, <1>4, Zenon DEF setupIngressPolicy, When
  <2>6. P(<<Do("addSource", <<>>)>>) /\ P(<<Do("removeSource", <<>>)>>)
    BY <1>1, Zenon DEF NfSteps
  <2>7. ASSUME NEW res PROVE P(FirewallDel(a, c, res))
    BY <2>6, <1>4, <1>7, Zenon DEF FirewallDel, When
  <2> QED BY <2>3, <2>5, <2>6, <2>7, <1>4, Zenon DEF FirewallAdd
<1>9. P(SetupIPMasqForNetworks(a, c))
  <2>1. P(<<Step("NewMasqChain", MasqChain(a), <<>>)>>)
    BY UndoneWords, NamedParts, Zenon DEF NfSteps, P
  <2>2. P(SetupIPMasq(a))
    BY <2>1, <1>2, <1>4, Zenon DEF SetupIPMasq
  <2>3. P(<<Do("setupIPMasqNft", <<>>)>>)
    BY <1>1, Zenon DEF NfSteps
  <2> QED BY <2>2, <2>3, Zenon DEF SetupIPMasqForNetworks
<1>10. P(TeardownIPMasqForNetworks(a))
  <2> DEFINE nft == <<Do("teardownIPMasqNft", <<>>)>>
             x == Step("DeleteRule", [chain |-> Shared("POSTROUTING"), rule |-> MasqJump(a)], nft)
             y == Step("ClearMasqChain", MasqChain(a), nft)
             z == Step("DeleteMasqChain", MasqChain(a), nft)
  <2>1. P(nft) /\ Named(nft, NfSteps)
    BY <1>1, Zenon DEF NfSteps
  <2>2. TeardownIPMasqForNetworks(a) = <<x, y, z>> \o nft
    BY Zenon DEF TeardownIPMasqForNetworks
  <2> HIDE DEF nft
  <2>3. P(<<x>>) /\ P(<<y>>) /\ P(<<z>>)
    BY <2>1, UndoneWords, Zenon DEF NfSteps, P
  <2> HIDE DEF x, y, z
  <2> QED BY <2>1, <2>2, <2>3, <1>4, Zenon
<1> QED BY <1>6, <1>8, <1>9, <1>10, Zenon DEF P

(* Steps of the plugins of interfaces, by their names.                     *)
LEMMA LinkWords ==
  ASSUME Mech, NEW a \in Att, NEW ph, NEW n, NEW arg
  PROVE  /\ VethWord(ph, a, Step(n, arg, <<>>)) \/ BridgeWord(ph, a, Step(n, arg, <<>>)) =>
              Prog(ph, a, <<Step(n, arg, <<>>)>>, VethSteps \cup BridgeSteps)
         /\ BwWord(ph, a, Step(n, arg, <<>>)) =>
              Prog(ph, a, <<Step(n, arg, <<>>)>>, BwAddSteps \cup {"TeardownIfb"})
         /\ VrfWord(ph, a, Step(n, arg, <<>>)) =>
              Prog(ph, a, <<Step(n, arg, <<>>)>>, VrfAddSteps \cup VrfDelSteps)
         /\ SbrWord(ph, a, Step(n, arg, <<>>)) =>
              Prog(ph, a, <<Step(n, arg, <<>>)>>, SbrSteps)
<1> DEFINE x == Step(n, arg, <<>>)
<1> HIDE DEF x
<1>1. /\ VethWord(ph, a, x) => x.do \in VethSteps
      /\ BridgeWord(ph, a, x) => x.do \in BridgeSteps
      /\ BwWord(ph, a, x) => x.do \in BwAddSteps \cup {"TeardownIfb"}
      /\ VrfWord(ph, a, x) => x.do \in VrfAddSteps \cup VrfDelSteps
      /\ SbrWord(ph, a, x) => x.do \in SbrSteps
  BY Zenon DEF VethWord, BridgeWord, BwWord, VrfWord, SbrWord, VethSteps, SbrSteps
<1>2. /\ VethWord(ph, a, x) \/ BridgeWord(ph, a, x) => Word(ph, a, x)
      /\ BwWord(ph, a, x) \/ VrfWord(ph, a, x) \/ SbrWord(ph, a, x) => Word(ph, a, x)
  BY Zenon DEF Word, LinkWord
<1> QED BY <1>1, <1>2, ProgParts, Zenon DEF x

(* The steps of the gateways of a bridge, and of the addresses of sbr.     *)
LEMMA PartProgs ==
  ASSUME Mech, NEW a \in Att, NEW i \in Nat \ {0}
  PROVE  /\ Uses(a, "bridge") =>
              /\ Prog("adding", a, BridgeGateways(conf[a], i), VethSteps \cup BridgeSteps)
              /\ i \in DOMAIN conf[a].gws =>
                   Prog("adding", a, AfterGateway(conf[a], i), VethSteps \cup BridgeSteps)
         /\ Uses(a, "sbr") =>
              /\ Prog("adding", a, doRoutesWithTable(conf[a], i), SbrSteps)
              /\ conf[a].table = 0 => Prog("adding", a, doRoutes(conf[a], i), SbrSteps)
              /\ i \in 1..conf[a].ips => Prog("adding", a, AfterRule(conf[a], i), SbrSteps)
<1>1. ASSUME Uses(a, "bridge"), NEW j \in Nat \ {0}
      PROVE  Prog("adding", a, BridgeGateways(conf[a], j), VethSteps \cup BridgeSteps)
  <2>1. OptionsOK("bridge", conf[a])
    BY <1>1, ConfFacts, Zenon DEF Uses
  <2>2. DOMAIN conf[a].gws = 1..Len(conf[a].gws) /\ Len(conf[a].gws) \in Nat
    BY <2>1 DEF OptionsOK
  <2> DEFINE n == IF conf[a].vlan # 0 THEN "FindVlan" ELSE "AddrList"
  <2>3. ASSUME j <= Len(conf[a].gws) PROVE BridgeWord("adding", a, Step(n, j, <<>>))
    <3>1. n \in GwSteps
      BY Zenon DEF GwSteps
    <3> HIDE DEF n
    <3> QED BY <3>1, <1>1, <2>2, <2>3, StepParts DEF BridgeWord, BridgeSteps
  <2>4. BridgeGateways(conf[a], j) = When(j <= Len(conf[a].gws), <<Step(n, j, <<>>)>>)
    BY Zenon DEF BridgeGateways
  <2> HIDE DEF n
  <2>5. ASSUME j <= Len(conf[a].gws)
        PROVE  Prog("adding", a, <<Step(n, j, <<>>)>>, VethSteps \cup BridgeSteps)
    BY <2>3, <2>5, LinkWords, Zenon
  <2> QED BY <2>2, <2>4, <2>5, ProgParts, Zenon DEF When
<1>2. ASSUME Uses(a, "bridge"), i \in DOMAIN conf[a].gws
      PROVE  Prog("adding", a, AfterGateway(conf[a], i), VethSteps \cup BridgeSteps)
  <2>1. BridgeWord("adding", a, Step("enableIPForward", i, <<>>))
    BY <1>2, StepParts DEF BridgeWord, BridgeSteps, GwSteps
  <2>2. Prog("adding", a, <<Step("enableIPForward", i, <<>>)>>, VethSteps \cup BridgeSteps)
    BY <2>1, LinkWords, Zenon
  <2>3. i + 1 \in Nat \ {0}
    OBVIOUS
  <2>4. Prog("adding", a, BridgeGateways(conf[a], i + 1), VethSteps \cup BridgeSteps)
    BY <1>1, <1>2, <2>3, Zenon
  <2> QED BY <2>2, <2>4, Zenon DEF AfterGateway
<1>3. ASSUME Uses(a, "sbr"), NEW j \in Nat \ {0}
      PROVE  /\ Prog("adding", a, doRoutesWithTable(conf[a], j), SbrSteps)
             /\ conf[a].table = 0 => Prog("adding", a, doRoutes(conf[a], j), SbrSteps)
  <2>1. conf[a].ips \in Nat
    <3>1. OptionsOK("sbr", conf[a])
      BY <1>3, ConfFacts, Zenon DEF Uses
    <3> QED BY <3>1, Zenon DEF OptionsOK
  <2>2. j <= conf[a].ips => Prog("adding", a, <<Step("RuleAdd", j, <<>>)>>, SbrSteps)
    <3>1. j <= conf[a].ips => SbrWord("adding", a, Step("RuleAdd", j, <<>>))
      BY <1>3, <2>1, StepParts DEF SbrWord, SbrSteps, Choosing
    <3> QED BY <3>1, LinkWords, Zenon
  <2>3. conf[a].table = 0 => Prog("adding", a, <<Do("RouteDel", <<>>)>>, SbrSteps)
    <3>1. conf[a].table = 0 => SbrWord("adding", a, Do("RouteDel", <<>>))
      BY <1>3, StepParts DEF SbrWord, SbrSteps, Choosing
    <3> QED BY <3>1, LinkWords, Zenon DEF Do
  <2> QED BY <2>1, <2>2, <2>3, ProgParts, Zenon DEF doRoutesWithTable, doRoutes, When
<1>4. ASSUME Uses(a, "sbr"), i \in 1..conf[a].ips
      PROVE  Prog("adding", a, AfterRule(conf[a], i), SbrSteps)
  <2> DEFINE n == IF conf[a].gateway THEN "RouteAdd" ELSE "copyRoutes"
  <2>1. conf[a].table = 0 => SbrWord("adding", a, Step(n, i, <<>>))
    <3>1. n \in {"RouteAdd", "copyRoutes"}
      BY Zenon
    <3> HIDE DEF n
    <3>2. PICK y : y = Step(n, i, <<>>)
      BY Zenon
    <3>3. y.do = n /\ y.arg = i /\ y.undo = <<>>
      BY <3>2, StepParts
    <3>4. n \in SbrSteps \ {"tidyRules"}
      BY <3>1, Zenon DEF SbrSteps, Choosing
    <3> QED BY <1>4, <3>2, <3>3, <3>4, Zenon DEF SbrWord
  <2>2. AfterRule(conf[a], i) = IF conf[a].table # 0 THEN doRoutesWithTable(conf[a], i + 1)
                                ELSE <<Step(n, i, <<>>)>>
    BY Zenon DEF AfterRule
  <2> HIDE DEF n
  <2>3. Prog("adding", a, doRoutesWithTable(conf[a], i + 1), SbrSteps)
    BY <1>3, <1>4
  <2> QED BY <2>1, <2>2, <2>3, LinkWords, Zenon
<1> QED BY <1>1, <1>2, <1>3, <1>4, Zenon

(* A plugin runs steps of its own.                                         *)
LEMMA PluginProgs ==
  ASSUME Mech, NEW a \in Att, NEW p, Uses(a, p)
  PROVE  /\ Prog("adding", a, PluginAdd(a, p), StepsOf(p))
         /\ Prog("deleting", a, PluginDel(a, p), StepsOf(p))
<1> DEFINE c == conf[a]
<1>1. p \in AllPlugins /\ OptionsOK(p, c) /\ Mech
  BY ConfFacts, Zenon DEF Uses
<1>2. CASE p = "host-device"
  <2> DEFINE P(s) == Prog("adding", a, s, DevSteps)
             release == <<Do("DevExecDel", <<>>)>>
  <2>1. c.dpdk \in BOOLEAN /\ c.ipam \in BOOLEAN
    BY <1>1, <1>2, Zenon DEF OptionsOK
  <2>2. Named(<<>>, DevSteps) /\ Named(release, DevSteps)
    <3>1. Do("DevExecDel", <<>>).do \in DevSteps
      BY StepParts DEF DevSteps
    <3> QED BY <3>1, NamedParts, Zenon
  <2>3. ASSUME NEW n \in DevSteps PROVE P(<<Do(n, <<>>)>>) /\ P(<<Do(n, release)>>)
    <3> HIDE DEF release
    <3>1. Do(n, <<>>) = Step(n, <<>>, <<>>) /\ Do(n, release) = Step(n, <<>>, release)
      BY Zenon DEF Do
    <3>2. P(<<Step(n, <<>>, <<>>)>>)
      BY <2>2, UndoneWords, Zenon
    <3>3. P(<<Step(n, <<>>, release)>>)
      BY <2>2, UndoneWords, Zenon
    <3> QED BY <3>1, <3>2, <3>3, Zenon
  <2> HIDE DEF release
  <2>4. /\ P(<<>>) /\ P(moveLinkIn) /\ \A s, t : P(s) /\ P(t) => P(s \o t)
        /\ \A b \in BOOLEAN : \A s : P(s) => P(When(b, s))
    BY ProgParts, MoveProgs, Zenon
  <2>5. P(<<Do("DevExecAdd", <<>>), Do("DevCheck", release), Do("DevCheck", <<>>)>>)
    <3> DEFINE x == Do("DevExecAdd", <<>>)
               y == Do("DevCheck", release)
               z == Do("DevCheck", <<>>)
    <3>1. P(<<x>>) /\ P(<<y>>) /\ P(<<z>>)
      BY <2>3, Zenon DEF DevSteps
    <3> HIDE DEF x, y, z
    <3>2. IsSeq(<<x, y, z>>) /\ Elems(<<x, y, z>>) = {x, y, z}
      BY ShortElems
    <3>3. \A u : P(<<u>>) => u.do \in DevSteps /\ Word("adding", a, u)
      BY ShortElems, Zenon DEF Prog
    <3>4. P(<<x, y, z>>)
      BY <3>1, <3>2, <3>3, Zenon DEF Prog
    <3> QED BY <3>4, Zenon DEF x, y, z
  <2>6. P(<<Do("getLink", <<>>)>>) /\ P(<<Do("DevConfigureIface", release)>>)
    BY <2>3, Zenon DEF DevSteps
  <2> HIDE DEF P
  <2>7. P(HostDeviceAdd(c))
    <3>1. P(When(~c.dpdk, <<Do("getLink", <<>>)>> \o moveLinkIn))
      BY <2>1, <2>4, <2>6, Zenon
    <3>2. P(When(c.ipam, << Do("DevExecAdd", <<>>), Do("DevCheck", release),
                            Do("DevCheck", <<>>) >>
                         \o When(~c.dpdk, <<Do("DevConfigureIface", release)>>)))
      BY <2>1, <2>4, <2>5, <2>6, Zenon
    <3> QED BY <3>1, <3>2, <2>4, Zenon DEF HostDeviceAdd, release
  <2>8. Prog("deleting", a, HostDeviceDel, DevSteps)
    BY <2>2, UndoneWords, Zenon DEF HostDeviceDel, Do, DevSteps
  <2> QED BY <1>2, <2>7, <2>8, Zenon DEF P, PluginAdd, PluginDel, StepsOf
<1>3. CASE p = "tuning"
  <2> DEFINE P(s) == Prog("adding", a, s, TunSteps)
  <2>1. \A n \in TunSteps : \A arg : P(<<Step(n, arg, <<>>)>>)
    <3>1. ASSUME NEW n \in TunSteps, NEW arg PROVE P(<<Step(n, arg, <<>>)>>)
      <4>1. Step(n, arg, <<>>).do \in TunSteps /\ Word("adding", a, Step(n, arg, <<>>))
        BY StepParts DEF Word, TunWord
      <4> QED BY <4>1, ProgParts, Zenon
    <3> QED BY <3>1, Zenon
  <2>2. /\ P(<<>>) /\ \A s, t : P(s) /\ P(t) => P(s \o t)
    BY ProgParts, Zenon
  <2>3. /\ P(<<Do("validateSysctlConf", <<>>)>>) /\ P(<<Do("WriteSysctl", <<>>)>>)
        /\ P(<<Do("createBackup", <<>>)>>) /\ P(<<Step("change", c.tunes, <<>>)>>)
    BY <2>1, Zenon DEF Do, TunSteps
  <2> HIDE DEF P
  <2>4. /\ P(When(c.sysctl # "none", <<Do("WriteSysctl", <<>>)>>))
        /\ P(When(c.tunes # {}, <<Do("createBackup", <<>>)>>)) /\ P(Changes(c.tunes))
    BY <2>2, <2>3, Zenon DEF When, Changes
  <2>5. P(TuningAdd(c))
    BY <2>2, <2>3, <2>4, Zenon DEF TuningAdd
  <2>6. Prog("deleting", a, TuningDel, TunSteps)
    <3> DEFINE x == Do("readBackup", <<>>)
    <3>1. x.do \in TunSteps /\ Word("deleting", a, x)
      BY StepParts DEF Word, TunWord, TunSteps
    <3>2. TuningDel = <<x>>
      BY Zenon DEF TuningDel
    <3> HIDE DEF x
    <3> QED BY <3>1, <3>2, ProgParts, Zenon
  <2> QED BY <1>3, <2>5, <2>6, Zenon DEF P, PluginAdd, PluginDel, StepsOf
<1>4. CASE p \in {"ipMasq", "portmap", "firewall"}
  <2>1. p = "portmap" => c.snat \in BOOLEAN
    BY <1>1, Zenon DEF OptionsOK
  <2> HIDE DEF c
  <2>2. \A ph : /\ Prog(ph, a, FirewallAdd(a, c), NfSteps)
                /\ \A res : Prog(ph, a, FirewallDel(a, c, res), NfSteps)
                /\ Prog(ph, a, SetupIPMasqForNetworks(a, c), NfSteps)
                /\ p = "portmap" => Prog(ph, a, PortmapAdd(a, c), NfSteps)
                /\ p = "portmap" => Prog(ph, a, PortmapDel(c), NfSteps)
    BY <2>1, NfProgs, Zenon
  <2>3. StepsOf(p) = NfSteps
    BY <1>4, Zenon DEF StepsOf
  <2>5. CASE p = "ipMasq"
    <3>1. PluginAdd(a, p) = SetupIPMasqForNetworks(a, c) /\ PluginDel(a, p) = <<>>
      BY <2>5, Zenon DEF PluginAdd, PluginDel, c
    <3> QED BY <2>5, <2>2, <2>3, <3>1, ProgParts, Zenon
  <2>6. CASE p = "portmap"
    <3>1. PluginAdd(a, p) = PortmapAdd(a, c) /\ PluginDel(a, p) = PortmapDel(c)
      BY <2>6, Zenon DEF PluginAdd, PluginDel, c
    <3> QED BY <2>6, <2>2, <2>3, <3>1, Zenon
  <2>7. CASE p = "firewall"
    <3>1. PluginAdd(a, p) = FirewallAdd(a, c) /\ PluginDel(a, p) = FirewallDel(a, c, a \in result)
      BY <2>7, Zenon DEF PluginAdd, PluginDel, c
    <3> QED BY <2>7, <2>2, <2>3, <3>1, Zenon
  <2> QED BY <1>4, <2>5, <2>6, <2>7, Zenon
<1>5. CASE p \in {"veth", "bridge"}
  <2> DEFINE N == VethSteps \cup BridgeSteps
             P(s) == Prog("adding", a, s, N)
  <2>1. VethWord("adding", a, Do("SetupVeth", <<>>)) /\ VethWord("deleting", a, Do("DelLinkByName", <<>>))
    BY <1>5, StepParts, ZenonT(60) DEF VethWord, Uses
  <2>2. P(VethAdd) /\ Prog("deleting", a, VethDel, N)
    BY <2>1, LinkWords, Zenon DEF VethAdd, VethDel, Do
  <2>3. ASSUME p = "bridge" PROVE P(BridgeAdd(c))
    <3>1. \A n \in {"ensureBridge", "PortOfBridge", "PortUp"} :
            BridgeWord("adding", a, Do(n, <<>>))
      BY <2>3, StepParts, ZenonT(60) DEF BridgeWord, BridgeSteps, GwSteps
    <3>2. \A n \in {"ensureBridge", "PortOfBridge", "PortUp"} : P(<<Do(n, <<>>)>>)
      BY <3>1, LinkWords, Zenon DEF Do
    <3>3. P(<<Do("ensureBridge", <<>>), Do("SetupVeth", <<>>), Do("PortOfBridge", <<>>)>>)
      <4> DEFINE x == Do("ensureBridge", <<>>)
                 y == Do("SetupVeth", <<>>)
                 z == Do("PortOfBridge", <<>>)
      <4>1. P(<<x>>) /\ P(<<y>>) /\ P(<<z>>)
        BY <3>2, <2>2, Zenon DEF VethAdd
      <4> HIDE DEF x, y, z
      <4>2. IsSeq(<<x, y, z>>) /\ Elems(<<x, y, z>>) = {x, y, z}
        BY ShortElems
      <4>3. \A u : P(<<u>>) => u.do \in N /\ Word("adding", a, u)
        BY ShortElems, Zenon DEF Prog
      <4>4. P(<<x, y, z>>)
        BY <4>1, <4>2, <4>3, Zenon DEF Prog
      <4> QED BY <4>4, Zenon DEF x, y, z
    <3>4. P(BridgeGateways(c, 1))
      BY <2>3, PartProgs
    <3>5. \A s, t : P(s) /\ P(t) => P(s \o t)
      BY ProgParts, Zenon
    <3> HIDE DEF P
    <3> QED BY <3>2, <3>3, <3>4, <3>5, Zenon DEF BridgeAdd
  <2>4. StepsOf(p) = N
    BY <1>5, Zenon DEF StepsOf
  <2> HIDE DEF N
  <2> QED BY <1>5, <2>2, <2>3, <2>4, Zenon DEF PluginAdd, PluginDel
<1>6. CASE p = "bandwidth"
  <2> DEFINE N == BwAddSteps \cup {"TeardownIfb"}
             P(s) == Prog("adding", a, s, N)
  <2>1. c.ingress \in BOOLEAN /\ c.egress \in BOOLEAN
    BY <1>1, <1>6, Zenon DEF OptionsOK
  <2>2. \A n \in BwAddSteps : P(<<Do(n, <<>>)>>)
    <3>1. \A n \in BwAddSteps : BwWord("adding", a, Do(n, <<>>))
      BY <1>6, StepParts DEF BwWord
    <3> QED BY <3>1, LinkWords, Zenon DEF Do
  <2>3. Prog("deleting", a, BandwidthDel, N)
    <3>1. BwWord("deleting", a, Do("TeardownIfb", <<>>))
      BY <1>6, StepParts, Zenon DEF BwWord
    <3> QED BY <3>1, LinkWords, Zenon DEF BandwidthDel, Do
  <2>4. P(<<Do("CreateIfb", <<>>), Do("AddIngressQdisc", <<>>),
            Do("FilterAdd", <<>>), Do("createTBF", <<>>)>>)
    <3> DEFINE x == Do("CreateIfb", <<>>)
               y == Do("AddIngressQdisc", <<>>)
               z == Do("FilterAdd", <<>>)
               w == Do("createTBF", <<>>)
    <3>1. P(<<x>>) /\ P(<<y>>) /\ P(<<z>>) /\ P(<<w>>)
      BY <2>2, Zenon DEF BwAddSteps
    <3> HIDE DEF x, y, z, w
    <3>2. IsSeq(<<x, y, z, w>>) /\ Elems(<<x, y, z, w>>) = {x, y, z, w}
      BY ShortElems
    <3>3. \A u : P(<<u>>) => u.do \in N /\ Word("adding", a, u)
      BY ShortElems, Zenon DEF Prog
    <3>4. P(<<x, y, z, w>>)
      BY <3>1, <3>2, <3>3, Zenon DEF Prog
    <3> QED BY <3>4, Zenon DEF x, y, z, w
  <2>5. /\ P(<<>>) /\ \A s, t : P(s) /\ P(t) => P(s \o t)
        /\ P(<<Do("getHostInterface", <<>>)>>) /\ P(<<Do("CreateIngressQdisc", <<>>)>>)
    BY <2>2, ProgParts, Zenon DEF BwAddSteps
  <2> HIDE DEF P
  <2>6. P(BandwidthAdd(c))
    <3>1. /\ P(When(c.ingress \/ c.egress, <<Do("getHostInterface", <<>>)>>))
          /\ P(When(c.ingress, <<Do("CreateIngressQdisc", <<>>)>>))
          /\ P(When(c.egress, << Do("CreateIfb", <<>>), Do("AddIngressQdisc", <<>>),
                                 Do("FilterAdd", <<>>), Do("createTBF", <<>>) >>))
      BY <2>1, <2>4, <2>5, Zenon DEF When
    <3> QED BY <3>1, <2>5, Zenon DEF BandwidthAdd
  <2> QED BY <1>6, <2>3, <2>6, Zenon DEF P, PluginAdd, PluginDel, StepsOf
<1>7. CASE p = "vrf"
  <2> DEFINE N == VrfAddSteps \cup VrfDelSteps
             P(s) == Prog("adding", a, s, N)
  <2>1. \A n \in VrfAddSteps : Do(n, <<>>).do \in N /\ Word("adding", a, Do(n, <<>>))
    BY <1>7, StepParts, Zenon DEF VrfWord, Word, LinkWord
  <2>2. P(VrfAdd)
    <3> DEFINE x == Do("findVRF", <<>>)
               y == Do("saveAddresses", <<>>)
               z == Do("LinkSetMaster", <<>>)
               w == Do("restoreAddresses", <<>>)
               u == Do("restoreRoutes", <<>>)
    <3>1. \A e \in {x, y, z, w, u} : e.do \in N /\ Word("adding", a, e)
      BY <2>1, Zenon DEF VrfAddSteps
    <3>2. VrfAdd = <<x, y, z, w, u>>
      BY Zenon DEF VrfAdd
    <3> HIDE DEF x, y, z, w, u, N
    <3>3. IsSeq(<<x, y, z, w, u>>) /\ Elems(<<x, y, z, w, u>>) = {x, y, z, w, u}
      BY ShortElems
    <3> QED BY <3>1, <3>2, <3>3, Zenon DEF Prog
  <2>3. Prog("deleting", a, VrfDel, N)
    <3>1. VrfWord("deleting", a, Do("findVRFToLeave", <<>>))
      BY <1>7, StepParts, Zenon DEF VrfWord, VrfDelSteps
    <3> QED BY <3>1, LinkWords, Zenon DEF VrfDel, Do
  <2> QED BY <1>7, <2>2, <2>3, Zenon DEF PluginAdd, PluginDel, StepsOf
<1>8. CASE p = "sbr"
  <2> DEFINE P(s) == Prog("adding", a, s, SbrSteps)
  <2>1. P(<<Do("sbrLock", <<>>)>>) /\ P(<<Do("sbrUnlock", <<>>)>>)
        /\ (c.table = 0 => P(<<Do("sbrList", <<>>)>>))
    <3>1. /\ SbrWord("adding", a, Do("sbrLock", <<>>)) /\ SbrWord("adding", a, Do("sbrUnlock", <<>>))
          /\ c.table = 0 => SbrWord("adding", a, Do("sbrList", <<>>))
      <4>1. /\ Do("sbrLock", <<>>).do = "sbrLock" /\ Do("sbrUnlock", <<>>).do = "sbrUnlock"
            /\ Do("sbrList", <<>>).do = "sbrList" /\ \A n : Do(n, <<>>).undo = <<>>
        BY StepParts, Zenon
      <4>2. ASSUME NEW n \in {"sbrLock", "sbrUnlock", "sbrList"}, NEW y, y.do = n, y.undo = <<>>,
                   n = "sbrList" => c.table = 0
            PROVE  SbrWord("adding", a, y)
        BY <1>8, <4>2, Zenon DEF SbrWord, SbrSteps, Choosing
      <4> QED BY <4>1, <4>2, Zenon
    <3> QED BY <3>1, LinkWords, Zenon DEF Do
  <2>2. P(doRoutesWithTable(c, 1))
    BY <1>8, PartProgs
  <2>3. \A s, t : P(s) /\ P(t) => P(s \o t)
    BY ProgParts, Zenon
  <2>4. P(SbrAdd(c))
    <3> HIDE DEF P
    <3> QED BY <2>1, <2>2, <2>3, Zenon DEF SbrAdd
  <2>5. Prog("deleting", a, SbrDel, SbrSteps)
    <3> DEFINE x == Do("sbrLock", <<>>)
               y == Do("tidyRules", <<>>)
               z == Do("sbrUnlock", <<>>)
    <3>1. \A e \in {x, y, z} : e.do \in SbrSteps /\ SbrWord("deleting", a, e)
      BY <1>8, StepParts DEF SbrWord, SbrSteps, Choosing
    <3>2. SbrDel = <<x, y, z>>
      BY Zenon DEF SbrDel
    <3> HIDE DEF x, y, z
    <3>3. IsSeq(<<x, y, z>>) /\ Elems(<<x, y, z>>) = {x, y, z}
      BY ShortElems
    <3> QED BY <3>1, <3>2, <3>3, Zenon DEF Prog, Word, LinkWord
  <2> QED BY <1>8, <2>4, <2>5, Zenon DEF PluginAdd, PluginDel, StepsOf
<1> QED BY <1>1, <1>2, <1>3, <1>4, <1>5, <1>6, <1>7, <1>8, Zenon
       DEF AllPlugins, MainPlugins, ChainedPlugins

-----------------------------------------------------------------------------
(* Every step of a plugin goes on with steps of the plugin, or fails.      *)

(* It may go on with the next step of the command.                         *)
LEMMA SucceedShape ==
  ASSUME Mech, NEW a \in Att, rest[a] # <<>>, Succeed(a) \/ Fail(a) \/ Idled, NEW steps
  PROVE  Shape(a, steps)
<1>1. Succeed(a) => Push(a, <<>>)
  BY SucceedPush, Zenon
<1>2. Prog(rt[a], a, <<>>, steps)
  BY ProgParts, Zenon
<1> QED BY <1>1, <1>2, Zenon DEF Shape

(* It may go on with a program.                                            *)
LEMMA PushShape ==
  ASSUME NEW a \in Att, rest[a] # <<>>, NEW s, NEW steps, Push(a, s), Prog(rt[a], a, s, steps)
  PROVE  Shape(a, steps)
BY Zenon DEF Shape

(* The first step is one of those that are left.                           *)
LEMMA HeadFacts ==
  ASSUME Mech, NEW a \in Att, rest[a] # <<>>
  PROVE  Head(rest[a]) \in Left(a) /\ Left(a) = {Head(rest[a])} \cup Behind(a)
BY TailElems, Zenon DEF Mech, Left, Behind

(* Steps of host-device lead to steps of host-device.                      *)
LEMMA DeviceShape ==
  ASSUME Mech, NEW a \in Att, HostDeviceStep(a)
  PROVE  Shape(a, DevSteps)
<1>1. /\ rest[a] # <<>>
      /\ \/ Succeed(a) \/ Fail(a) \/ Push(a, moveBack)
         \/ Push(a, HostDeviceReturn(conf[a]))
  BY Zenon DEF HostDeviceStep, getLink, TempNetNS, LinkSetNsFd, LinkSetName, LinkSetAlias, Find,
     FindAgain, FindToReturn, LinkSetUp, Close, DevCheck, DevGetNS, DevExecAdd, DevExecDel,
     DevConfigureIface, At, FailHurts, FailPlain
<1>2. CASE Succeed(a) \/ Fail(a)
  BY <1>1, <1>2, SucceedShape, Zenon
<1>3. CASE Push(a, moveBack)
  BY <1>1, <1>3, MoveProgs, PushShape, Zenon
<1>4. CASE Push(a, HostDeviceReturn(conf[a]))
  <2>1. Named(<<>>, DevSteps) /\ "DevExecDel" \in DevSteps
    BY NamedParts, Zenon DEF DevSteps
  <2>2. Prog(rt[a], a, <<Do("DevExecDel", <<>>)>>, DevSteps)
    BY <2>1, UndoneWords, Zenon DEF Do
  <2>3. Prog(rt[a], a, moveLinkOut, DevSteps)
    BY MoveProgs, Zenon
  <2>4. /\ Prog(rt[a], a, When(conf[a].ipam, <<Do("DevExecDel", <<>>)>>), DevSteps)
        /\ Prog(rt[a], a, When(~conf[a].dpdk, moveLinkOut), DevSteps)
    BY <2>2, <2>3, ProgParts, Zenon
  <2>5. Prog(rt[a], a, HostDeviceReturn(conf[a]), DevSteps)
    BY <2>4, ProgParts, Zenon DEF HostDeviceReturn
  <2> QED BY <1>1, <1>4, <2>5, PushShape, Zenon
<1> QED BY <1>1, <1>2, <1>3, <1>4, Zenon

(* Steps of tuning lead to steps of tuning.                                *)
LEMMA TuningShape ==
  ASSUME Mech, NEW a \in Att, TuningStep(a)
  PROVE  Shape(a, TunSteps)
<1>1. /\ rest[a] # <<>> /\ Head(rest[a]).do \in TunSteps
      /\ \/ Succeed(a) \/ Fail(a) \/ \E xs : Push(a, Changes(xs))
         \/ \E xs, failed : Push(a, Restores(xs, failed))
  BY Zenon DEF TuningStep, validateSysctlConf, WriteSysctl, createBackup, change, readBackup,
     restore, removeBackup, At, TunSteps
<1>2. rt[a] \in {"adding", "deleting"}
  BY <1>1, HeadFacts, WordIs, Zenon DEF TunWord
<1>3. ASSUME NEW n \in TunSteps, NEW arg
      PROVE  Prog(rt[a], a, <<Step(n, arg, <<>>)>>, TunSteps)
  <2>1. Step(n, arg, <<>>).do \in TunSteps /\ Word(rt[a], a, Step(n, arg, <<>>))
    BY <1>2, StepParts DEF Word, TunWord
  <2> QED BY <2>1, ProgParts, Zenon
<1>4. CASE Succeed(a) \/ Fail(a)
  BY <1>1, <1>4, SucceedShape, Zenon
<1>5. ASSUME NEW xs, Push(a, Changes(xs)) PROVE Shape(a, TunSteps)
  <2>1. Prog(rt[a], a, <<Step("change", xs, <<>>)>>, TunSteps)
    BY <1>3, Zenon DEF TunSteps
  <2>2. Prog(rt[a], a, Changes(xs), TunSteps)
    BY <2>1, ProgParts, Zenon DEF Changes
  <2> QED BY <1>1, <1>5, <2>2, PushShape, Zenon
<1>6. ASSUME NEW xs, NEW failed, Push(a, Restores(xs, failed)) PROVE Shape(a, TunSteps)
  <2> DEFINE arg == [xs |-> xs, failed |-> failed]
  <2>1. Restores(xs, failed) = IF xs # {} THEN <<Step("restore", arg, <<>>)>>
                               ELSE When(~failed, <<Do("removeBackup", <<>>)>>)
    BY Zenon DEF Restores
  <2> HIDE DEF arg
  <2>2. /\ Prog(rt[a], a, <<Step("restore", arg, <<>>)>>, TunSteps)
        /\ Prog(rt[a], a, <<Do("removeBackup", <<>>)>>, TunSteps)
    BY <1>3, Zenon DEF TunSteps, Do
  <2>3. Prog(rt[a], a, Restores(xs, failed), TunSteps)
    BY <2>1, <2>2, ProgParts, Zenon
  <2> QED BY <1>1, <1>6, <2>3, PushShape, Zenon
<1> QED BY <1>1, <1>4, <1>5, <1>6, Zenon

(* Steps that change chains or rules lead to steps that do.                *)
LEMMA NetfilterShape ==
  ASSUME Mech, NEW a \in Att, IptablesStep(a) \/ PortmapStep(a) \/ FirewallStep(a) \/ IPMasqStep(a)
  PROVE  Shape(a, NfSteps)
<1>1. Named(<<>>, NfSteps)
  BY NamedParts, Zenon
<1>2. ASSUME NEW n \in NfSteps, NEW arg, Push(a, <<Step(n, arg, <<>>)>>), rest[a] # <<>>
      PROVE  Shape(a, NfSteps)
  BY <1>1, <1>2, UndoneWords, PushShape, Zenon
<1>3. ASSUME NEW ch, NEW refs, Push(a, DeleteEach(ch, refs)), rest[a] # <<>>
      PROVE  Shape(a, NfSteps)
  <2> DEFINE arg == [chain |-> ch, rules |-> refs]
  <2>1. DeleteEach(ch, refs) = When(refs # {}, <<Step("DeleteEach", arg, <<>>)>>)
    BY Zenon DEF DeleteEach
  <2> HIDE DEF arg
  <2>2. "DeleteEach" \in NfSteps
    BY Zenon DEF NfSteps
  <2>3. Prog(rt[a], a, <<Step("DeleteEach", arg, <<>>)>>, NfSteps)
    BY <1>1, <2>2, UndoneWords, Zenon
  <2>4. Prog(rt[a], a, DeleteEach(ch, refs), NfSteps)
    BY <2>1, <2>3, ProgParts, Zenon
  <2> QED BY <1>3, <2>4, PushShape, Zenon
<1>4. ASSUME Succeed(a) \/ Fail(a), rest[a] # <<>> PROVE Shape(a, NfSteps)
  BY <1>4, SucceedShape, Zenon
<1>5. ASSUME Exists(a) PROVE Shape(a, NfSteps)
  <2>1. rest[a] # <<>> /\ Head(rest[a]).do = "Exists"
    BY <1>5, Zenon DEF Exists, At
  <2>2. CASE Push(a, <<Step("Insert", Arg(a), Head(rest[a]).undo)>>)
    <3>1. "Exists" \in NfSteps /\ "Insert" \in NfSteps
      BY Zenon DEF NfSteps
    <3>2. NfWord(rt[a], Head(rest[a]))
      BY <2>1, <3>1, HeadFacts, WordIs, Zenon
    <3> DEFINE x == Step("Insert", Arg(a), Head(rest[a]).undo)
    <3>3. x.do = "Insert" /\ x.undo = Head(rest[a]).undo
      BY StepParts
    <3>4. Word(rt[a], a, x)
      BY <3>1, <3>2, <3>3, Zenon DEF Word, NfWord, Undoes
    <3>5. Prog(rt[a], a, <<x>>, NfSteps)
      BY <3>1, <3>3, <3>4, ProgParts, Zenon
    <3> QED BY <2>1, <2>2, <3>5, PushShape, Zenon
  <2> QED BY <2>1, <2>2, <1>4, <1>5, Zenon DEF Exists
<1>6. ASSUME TryDeleteChain(a) PROVE Shape(a, NfSteps)
  <2>1. rest[a] # <<>>
    BY <1>6, Zenon DEF TryDeleteChain, At
  <2>2. CASE Push(a, << Step("FindReferences", Arg(a), <<>>),
                        Step("ClearAndDeleteChain", Arg(a), <<>>) >>)
    <3> DEFINE x == Step("FindReferences", Arg(a), <<>>)
               y == Step("ClearAndDeleteChain", Arg(a), <<>>)
    <3>1. "FindReferences" \in NfSteps /\ "ClearAndDeleteChain" \in NfSteps
      BY Zenon DEF NfSteps
    <3>2. Word(rt[a], a, x) /\ Word(rt[a], a, y) /\ x.do \in NfSteps /\ y.do \in NfSteps
      <4>1. x.do \in NfSteps /\ y.do \in NfSteps
        BY <3>1, StepParts
      <4>2. Word(rt[a], a, x)
        BY <1>1, <3>1, UndoneWords, Zenon
      <4>3. Word(rt[a], a, y)
        BY <1>1, <3>1, UndoneWords, Zenon
      <4> QED BY <4>1, <4>2, <4>3, Zenon
    <3> HIDE DEF x, y
    <3>3. Prog(rt[a], a, <<x, y>>, NfSteps)
      BY <3>2, ShortElems DEF Prog
    <3> QED BY <2>1, <2>2, <3>3, PushShape, Zenon DEF x, y
  <2> QED BY <2>1, <2>2, <1>4, <1>6, Zenon DEF TryDeleteChain
<1>7. ASSUME FindReferences(a) \/ DeleteEachStep(a) PROVE Shape(a, NfSteps)
  BY <1>3, <1>4, <1>7, Zenon DEF FindReferences, DeleteEachStep, IptFail, At
<1>8. ASSUME ChainExists(a) PROVE Shape(a, NfSteps)
  <2>1. "TryDeleteChain" \in NfSteps
    BY Zenon DEF NfSteps
  <2> QED BY <2>1, <1>2, <1>4, <1>8, Zenon DEF ChainExists, At
<1>9. ASSUME maybeGetIptables(a) PROVE Shape(a, NfSteps)
  <2> DEFINE arg == [chain |-> DN(a), entry |-> TOPDNAT]
  <2>1. "ChainExists" \in NfSteps
    BY Zenon DEF NfSteps
  <2>2. Teardown(DN(a), TOPDNAT) = <<Step("ChainExists", arg, <<>>)>>
    BY Zenon DEF Teardown
  <2> HIDE DEF arg
  <2> QED BY <2>1, <2>2, <1>2, <1>4, <1>9, Zenon DEF maybeGetIptables, At
<1>10. ASSUME listRulesNft(a) PROVE Shape(a, NfSteps)
  <2>1. "unforwardPortsNft" \in NfSteps
    BY Zenon DEF NfSteps
  <2> QED BY <2>1, <1>2, <1>4, <1>10, Zenon DEF listRulesNft, At
<1>11. ASSUME \/ EnsureChainStep(a) \/ Insert(a) \/ ClearAndDeleteChain(a) \/ DeleteRule(a)
              \/ TryDeleteRule(a) \/ enableLocalnetRouting(a) \/ forwardPortsNft(a)
              \/ unforwardPortsNft(a) \/ FirewallStep(a) \/ IPMasqStep(a)
       PROVE  Shape(a, NfSteps)
  <2>1. rest[a] # <<>> /\ (Succeed(a) \/ Fail(a))
    BY <1>11, Zenon DEF EnsureChainStep, Insert, ClearAndDeleteChain, DeleteRule, TryDeleteRule,
       enableLocalnetRouting, forwardPortsNft, unforwardPortsNft, FirewallStep, addSource,
       removeSource, IPMasqStep, NewMasqChain, ClearMasqChain, DeleteMasqChain,
       setupIPMasqNft, teardownIPMasqNft, IptFail, At
  <2> QED BY <2>1, <1>4, Zenon
<1> QED BY <1>5, <1>6, <1>7, <1>8, <1>9, <1>10, <1>11, Zenon DEF IptablesStep, PortmapStep

(* Steps of the interface and of the bridge lead to steps of the bridge.   *)
LEMMA BridgeShape ==
  ASSUME Mech, NEW a \in Att, SetupVeth(a) \/ BridgeStep(a)
  PROVE  Shape(a, VethSteps \cup BridgeSteps)
<1>1. CASE SetupVeth(a)
  <2>1. rest[a] # <<>> /\ (Succeed(a) \/ Fail(a))
    BY <1>1, Zenon DEF SetupVeth, At
  <2> QED BY <2>1, SucceedShape, Zenon
<1>2. CASE BridgeStep(a)
  <2>1. /\ rest[a] # <<>> /\ Head(rest[a]).do \in BridgeSteps
        /\ \/ Succeed(a) \/ Fail(a) \/ Idled
           \/ /\ Head(rest[a]).do \in GwSteps
              /\ \/ \E n \in GwSteps : Push(a, <<Step(n, Arg(a), <<>>)>>)
                 \/ Push(a, AfterGateway(conf[a], Arg(a)))
                 \/ Push(a, BridgeGateways(conf[a], Arg(a) + 1))
    BY <1>2, Zenon DEF BridgeStep, ensureBridge, PortOfBridge, ensureVlanInterface, AddrList,
       ensureAddr, LinkSetHardwareAddr, enableIPForward, PortUp, At, BridgeSteps, GwSteps, Idled
  <2>2. CASE Succeed(a) \/ Fail(a) \/ Idled
    BY <2>1, <2>2, SucceedShape, Zenon
  <2>3. BridgeWord(rt[a], a, Head(rest[a])) /\ Uses(a, "bridge") /\ rt[a] = "adding"
    BY <2>1, HeadFacts, WordIs, ZenonT(60) DEF BridgeWord
  <2>4. Head(rest[a]).do \in GwSteps => Arg(a) \in DOMAIN conf[a].gws /\ Arg(a) \in Nat \ {0}
    <3>1. OptionsOK("bridge", conf[a])
      BY <2>3, ConfFacts, Zenon DEF Uses
    <3>2. DOMAIN conf[a].gws = 1..Len(conf[a].gws) /\ Len(conf[a].gws) \in Nat
      BY <3>1 DEF OptionsOK
    <3> QED BY <3>2, <2>3 DEF BridgeWord, Arg
  <2>5. ASSUME NEW n \in GwSteps, Push(a, <<Step(n, Arg(a), <<>>)>>),
               Arg(a) \in DOMAIN conf[a].gws
        PROVE  Shape(a, VethSteps \cup BridgeSteps)
    <3>1. BridgeWord("adding", a, Step(n, Arg(a), <<>>))
      BY <2>3, <2>5, StepParts, SMTT(30) DEF BridgeWord, BridgeSteps
    <3>2. Prog(rt[a], a, <<Step(n, Arg(a), <<>>)>>, VethSteps \cup BridgeSteps)
      BY <3>1, <2>3, LinkWords, Zenon
    <3> QED BY <2>1, <2>5, <3>2, PushShape, ZenonT(60)
  <2>6. ASSUME Push(a, AfterGateway(conf[a], Arg(a))), Arg(a) \in DOMAIN conf[a].gws,
               Arg(a) \in Nat \ {0}
        PROVE  Shape(a, VethSteps \cup BridgeSteps)
    <3>1. Prog(rt[a], a, AfterGateway(conf[a], Arg(a)), VethSteps \cup BridgeSteps)
      BY <2>3, <2>6, PartProgs, Zenon
    <3> QED BY <2>1, <2>6, <3>1, PushShape, Zenon
  <2>7. ASSUME Push(a, BridgeGateways(conf[a], Arg(a) + 1)), Arg(a) \in Nat \ {0}
        PROVE  Shape(a, VethSteps \cup BridgeSteps)
    <3>1. Arg(a) + 1 \in Nat \ {0}
      BY <2>7
    <3>2. Prog(rt[a], a, BridgeGateways(conf[a], Arg(a) + 1), VethSteps \cup BridgeSteps)
      BY <2>3, <3>1, PartProgs, Zenon
    <3> QED BY <2>1, <2>7, <3>2, PushShape, Zenon
  <2> QED BY <2>1, <2>2, <2>4, <2>5, <2>6, <2>7, Zenon
<1> QED BY <1>1, <1>2, Zenon

(* An interface that is deleted leads to the rules of its masquerading.    *)
LEMMA DelLinkShape ==
  ASSUME Mech, NEW a \in Att, DelLink(a)
  PROVE  /\ rest[a] # <<>> /\ Head(rest[a]).do = "DelLinkByName" /\ Shape(a, NfSteps)
         /\ \/ Fail(a) /\ UNCHANGED vethVars
            \/ NoVeth({a}) /\ \E s : Prog(rt[a], a, s, NfSteps) /\ Push(a, s)
<1> DEFINE t == TeardownIPMasqForNetworks(a)
           u == When(Uses(a, "ipMasq"), t)
           s == When(a \in veth, u)
<1>1. /\ rest[a] # <<>> /\ Head(rest[a]).do = "DelLinkByName"
      /\ (Fail(a) /\ UNCHANGED vethVars) \/ (NoVeth({a}) /\ Push(a, s))
  BY Zenon DEF DelLink, DelLinkByName, At
<1>2. Prog(rt[a], a, t, NfSteps) /\ Prog(rt[a], a, <<>>, NfSteps)
  BY NfProgs, ProgParts, Zenon
<1> HIDE DEF t
<1>3. Prog(rt[a], a, s, NfSteps)
  BY <1>2, Zenon DEF When
<1> HIDE DEF s
<1> QED BY <1>1, <1>3, Zenon DEF Shape

(* Steps of bandwidth lead to steps of bandwidth.                          *)
LEMMA BandwidthShape ==
  ASSUME Mech, NEW a \in Att, BandwidthStep(a)
  PROVE  Shape(a, BwAddSteps \cup {"TeardownIfb"})
<1>1. rest[a] # <<>> /\ (Succeed(a) \/ Fail(a))
  BY Zenon DEF BandwidthStep, getHostInterface, CreateIngressQdisc, CreateIfb, AddIngressQdisc,
     FilterAdd, createTBF, TeardownIfb, TcFail, At
<1> QED BY <1>1, SucceedShape, Zenon

(* Steps of vrf lead to steps of vrf.                                      *)
LEMMA VrfShape ==
  ASSUME Mech, NEW a \in Att, VrfStep(a)
  PROVE  Shape(a, VrfAddSteps \cup VrfDelSteps)
<1> DEFINE x == Do("createVRF", <<>>)
           y == Do("LinkSetUpVRF", <<>>)
           u == Do("resetMaster", <<>>)
           w == Do("LinkDelVRF", <<>>)
<1>1. /\ rest[a] # <<>>
      /\ \/ Succeed(a) \/ Fail(a)
         \/ Head(rest[a]).do = "findVRF" /\ Push(a, <<x, y>>)
         \/ Head(rest[a]).do = "findVRFToLeave" /\ Push(a, <<u, w>>)
  BY Zenon DEF VrfStep, findOrCreate, createVRF, LinkSetUpVRF, saveAddresses, LinkSetMaster,
     restoreAddresses, restoreRoutes, findVRFToLeave, resetMaster, LinkDelVRF, VrfFail, At
<1>2. /\ x.do = "createVRF" /\ y.do = "LinkSetUpVRF" /\ x.undo = <<>> /\ y.undo = <<>>
      /\ u.do = "resetMaster" /\ w.do = "LinkDelVRF" /\ u.undo = <<>> /\ w.undo = <<>>
  BY StepParts, ZenonT(60)
<1> HIDE DEF x, y, u, w
<1>3. CASE Succeed(a) \/ Fail(a)
  BY <1>1, <1>3, SucceedShape, Zenon
<1>4. CASE Head(rest[a]).do = "findVRF" /\ Push(a, <<x, y>>)
  <2>1. Uses(a, "vrf") /\ rt[a] = "adding"
    BY <1>1, <1>4, HeadFacts, WordIs, Zenon DEF VrfWord, VrfAddSteps, VrfDelSteps
  <2>2. \A e \in {x, y} : e.do \in VrfAddSteps \cup VrfDelSteps /\ Word(rt[a], a, e)
    BY <1>2, <2>1, Zenon DEF Word, LinkWord, VrfWord, VrfAddSteps
  <2>3. Prog(rt[a], a, <<x, y>>, VrfAddSteps \cup VrfDelSteps)
    BY <2>2, ShortElems DEF Prog
  <2> QED BY <1>1, <1>4, <2>3, PushShape, Zenon
<1>5. CASE Head(rest[a]).do = "findVRFToLeave" /\ Push(a, <<u, w>>)
  <2>1. Uses(a, "vrf") /\ rt[a] = "deleting"
    BY <1>1, <1>5, HeadFacts, WordIs, Zenon DEF VrfWord, VrfAddSteps, VrfDelSteps
  <2>2. \A e \in {u, w} : e.do \in VrfAddSteps \cup VrfDelSteps /\ Word(rt[a], a, e)
    BY <1>2, <2>1, Zenon DEF Word, LinkWord, VrfWord, VrfDelSteps
  <2>3. Prog(rt[a], a, <<u, w>>, VrfAddSteps \cup VrfDelSteps)
    BY <2>2, ShortElems DEF Prog
  <2> QED BY <1>1, <1>5, <2>3, PushShape, Zenon
<1> QED BY <1>1, <1>3, <1>4, <1>5, Zenon

(* Steps of sbr lead to steps of sbr.                                      *)
LEMMA SbrShape ==
  ASSUME Mech, NEW a \in Att, SbrStep(a)
  PROVE  Shape(a, SbrSteps)
<1>1. /\ rest[a] # <<>> /\ Head(rest[a]).do \in SbrSteps
      /\ \/ Succeed(a) \/ Fail(a)
         \/ Head(rest[a]).do = "sbrList" /\ Push(a, doRoutes(conf[a], 1))
         \/ Head(rest[a]).do = "RuleAdd" /\ Push(a, AfterRule(conf[a], Arg(a)))
         \/ Head(rest[a]).do = "RouteAdd" /\ Push(a, <<Step("copyRoutes", Arg(a), <<>>)>>)
         \/ Head(rest[a]).do = "copyRoutes" /\ Push(a, doRoutes(conf[a], Arg(a) + 1))
  BY Zenon DEF SbrStep, sbrLock, sbrUnlock, sbrList, RuleAdd, RouteAdd, copyRoutes, RouteDel,
     tidyRules, SbrFail, At, SbrSteps, Choosing
<1>2. SbrWord(rt[a], a, Head(rest[a])) /\ Uses(a, "sbr")
  BY <1>1, HeadFacts, WordIs, Zenon DEF SbrWord
<1>3. conf[a].ips \in Nat
  <2>1. OptionsOK("sbr", conf[a])
    BY <1>2, ConfFacts, Zenon DEF Uses
  <2> QED BY <2>1, Zenon DEF OptionsOK
<1>4. CASE Succeed(a) \/ Fail(a)
  BY <1>1, <1>4, SucceedShape, Zenon
<1>5. Head(rest[a]).do \in Choosing => rt[a] = "adding" /\ Arg(a) \in 1..conf[a].ips
  BY <1>2, Zenon DEF SbrWord, Choosing, Arg
<1>6. CASE Head(rest[a]).do = "sbrList" /\ Push(a, doRoutes(conf[a], 1))
  <2>1. rt[a] = "adding" /\ conf[a].table = 0
    BY <1>2, <1>6, Zenon DEF SbrWord
  <2>2. Prog(rt[a], a, doRoutes(conf[a], 1), SbrSteps)
    BY <1>2, <2>1, PartProgs
  <2> QED BY <1>1, <1>6, <2>2, PushShape, Zenon
<1>7. CASE Head(rest[a]).do = "RuleAdd" /\ Push(a, AfterRule(conf[a], Arg(a)))
  <2>1. rt[a] = "adding" /\ Arg(a) \in 1..conf[a].ips /\ Arg(a) \in Nat \ {0}
    BY <1>3, <1>5, <1>7 DEF Choosing
  <2>2. Prog(rt[a], a, AfterRule(conf[a], Arg(a)), SbrSteps)
    BY <1>2, <2>1, PartProgs, Zenon
  <2> QED BY <1>1, <1>7, <2>2, PushShape, Zenon
<1>8. CASE Head(rest[a]).do = "RouteAdd" /\ Push(a, <<Step("copyRoutes", Arg(a), <<>>)>>)
  <2>1. rt[a] = "adding" /\ Arg(a) \in 1..conf[a].ips /\ conf[a].table = 0
    BY <1>2, <1>5, <1>8, ZenonT(60) DEF Choosing, SbrWord
  <2>2. SbrWord(rt[a], a, Step("copyRoutes", Arg(a), <<>>))
    BY <1>2, <2>1, StepParts DEF SbrWord, SbrSteps, Choosing
  <2>3. Prog(rt[a], a, <<Step("copyRoutes", Arg(a), <<>>)>>, SbrSteps)
    BY <2>2, LinkWords, Zenon
  <2> QED BY <1>1, <1>8, <2>3, PushShape, Zenon
<1>9. CASE Head(rest[a]).do = "copyRoutes" /\ Push(a, doRoutes(conf[a], Arg(a) + 1))
  <2>1. /\ rt[a] = "adding" /\ Arg(a) \in 1..conf[a].ips /\ conf[a].table = 0
        /\ Arg(a) + 1 \in Nat \ {0}
    BY <1>2, <1>3, <1>5, <1>9 DEF Choosing, SbrWord
  <2>2. Prog(rt[a], a, doRoutes(conf[a], Arg(a) + 1), SbrSteps)
    BY <1>2, <2>1, PartProgs, Zenon
  <2> QED BY <1>1, <1>9, <2>2, PushShape, ZenonT(60)
<1> QED BY <1>1, <1>4, <1>6, <1>7, <1>8, <1>9, Zenon

(* A plugin that is run leads to its own steps.                            *)
LEMMA InvokeShape ==
  ASSUME Mech, NEW a \in Att, Invoke(a)
  PROVE  /\ Call(rt[a], a, Head(rest[a])) /\ Head(rest[a]).do \in AllPlugins
         /\ Shape(a, StepsOf(Head(rest[a]).do))
<1> DEFINE p == Head(rest[a]).do
<1>1. /\ rest[a] # <<>> /\ Uses(a, p)
      /\ Push(a, IF rt[a] = "adding" THEN PluginAdd(a, p) ELSE PluginDel(a, p))
  BY Zenon DEF Invoke
<1>2. p \in AllPlugins
  BY <1>1, ConfFacts, Zenon DEF Uses
<1>3. Call(rt[a], a, Head(rest[a]))
  BY <1>1, <1>2, HeadFacts, WordIs, Zenon
<1>4. rt[a] \in {"adding", "deleting"}
  BY <1>3, Zenon DEF Call
<1> HIDE DEF p
<1>5. Prog(rt[a], a, IF rt[a] = "adding" THEN PluginAdd(a, p) ELSE PluginDel(a, p), StepsOf(p))
  BY <1>1, <1>4, PluginProgs, Zenon
<1>6. Shape(a, StepsOf(p))
  BY <1>1, <1>5, PushShape, Zenon
<1> QED BY <1>2, <1>3, <1>6, Zenon DEF p

-----------------------------------------------------------------------------
(* What a step of Chain does to the programs of its commands, and in which *)
(* order the steps that are left come.                                     *)

(* A command starts with all the plugins of its list.                      *)
LEMMA StartProgs ==
  ASSUME Mech, NEW a \in Att
  PROVE  /\ IsSeq(CmdAdd(a)) /\ Elems(CmdAdd(a)) = {Do(p, <<>>) : p \in Plugins(a)}
         /\ IsSeq(CmdDel(a)) /\ Elems(CmdDel(a)) = {Do(p, <<>>) : p \in Plugins(a)}
         /\ CmdAdd(a) # <<>> /\ CmdDel(a) # <<>> /\ Plugins(a) # {}
<1> DEFINE ch == conf[a].chain
           n == Len(ch)
<1>1. /\ ch \in Seq(AllPlugins) /\ n \in Nat /\ DOMAIN ch = 1..n /\ n # 0
      /\ \A i \in 1..n : ch[i] \in AllPlugins
  <2>1. ch \in Seq(AllPlugins) /\ ch # <<>>
    BY ConfFacts, Zenon DEF ConfOK, ListOK, AllPlugins
  <2> QED BY <2>1
<1>2. CmdAdd(a) = [i \in 1..n |-> Do(ch[i], <<>>)]
  BY <1>1, Zenon DEF CmdAdd
<1>3. CmdDel(a) = [i \in 1..n |-> Do(ch[n + 1 - i], <<>>)]
  BY <1>1, Zenon DEF CmdDel
<1>4. Plugins(a) = {ch[i] : i \in 1..n}
  BY <1>1, Zenon DEF Plugins
<1> HIDE DEF ch, n
<1>5. Elems(CmdAdd(a)) = {Do(p, <<>>) : p \in Plugins(a)}
  BY <1>2, <1>4 DEF Elems
<1>6. Elems(CmdDel(a)) = {Do(p, <<>>) : p \in Plugins(a)}
  <2>1. \A i \in 1..n : n + 1 - i \in 1..n /\ n + 1 - (n + 1 - i) = i
    BY <1>1
  <2>2. Elems(CmdDel(a)) = {Do(ch[n + 1 - i], <<>>) : i \in 1..n}
    BY <1>3, Zenon DEF Elems
  <2>3. ASSUME NEW i \in 1..n PROVE Do(ch[i], <<>>) \in Elems(CmdDel(a))
    <3>1. n + 1 - i \in 1..n /\ ch[n + 1 - (n + 1 - i)] = ch[i]
      BY <2>1, Zenon
    <3> QED BY <2>2, <3>1, Zenon
  <2>4. ASSUME NEW i \in 1..n
        PROVE  Do(ch[n + 1 - i], <<>>) \in {Do(p, <<>>) : p \in Plugins(a)}
    BY <2>1, <1>4, Zenon
  <2> QED BY <1>4, <2>2, <2>3, <2>4, Zenon
<1>7. IsSeq(CmdAdd(a)) /\ IsSeq(CmdDel(a)) /\ CmdAdd(a) # <<>> /\ CmdDel(a) # <<>>
  <2>1. CmdAdd(a) \in [1..n -> Elems(CmdAdd(a))] /\ CmdDel(a) \in [1..n -> Elems(CmdDel(a))]
    BY <1>2, <1>3, Zenon DEF Elems
  <2>2. IsSeq(CmdAdd(a)) /\ IsSeq(CmdDel(a))
    BY <1>1, <2>1 DEF IsSeq
  <2>3. 1 \in DOMAIN CmdAdd(a)
    BY <1>1, <1>2
  <2>4. 1 \in DOMAIN CmdDel(a)
    BY <1>1, <1>3
  <2> QED BY <2>2, <2>3, <2>4
<1>8. Plugins(a) # {}
  BY <1>1, <1>4
<1> QED BY <1>5, <1>6, <1>7, <1>8, Zenon

(* What a command that starts has left to do.                              *)
Started(a, ph) ==
  /\ rt[a] \in Idle /\ UNCHANGED <<conf, ns, devVars, tunVars, linkVars>>
  /\ \A b \in Att \ {a} : rest'[b] = rest[b] /\ rt'[b] = rt[b]
  /\ rt'[a] = ph /\ Left(a)' = {Do(p, <<>>) : p \in Plugins(a)}
  /\ ph = "adding" => rt[a] = "detached" /\ ns[a] /\ rest'[a] = CmdAdd(a)
  /\ ph = "deleting" => rest'[a] = CmdDel(a)

(* The runtime starts a command.                                           *)
LEMMA StartSteps ==
  ASSUME Mech, NEW a \in Att, StartAdd(a) \/ StartDel(a)
  PROVE  /\ Mech' /\ \E ph \in {"adding", "deleting"} : Started(a, ph)
         /\ MayRun(a)
<1>1. PICK ph \in {"adding", "deleting"} :
        /\ ph = "adding" => rt[a] = "detached" /\ ns[a]
        /\ Start(a, ph, IF ph = "adding" THEN CmdAdd(a) ELSE CmdDel(a))
  BY Zenon DEF StartAdd, StartDel
<1> DEFINE s == IF ph = "adding" THEN CmdAdd(a) ELSE CmdDel(a)
<1>2. /\ IsSeq(s) /\ Elems(s) = {Do(p, <<>>) : p \in Plugins(a)} /\ s # <<>>
      /\ ph = "adding" => s = CmdAdd(a)
      /\ ph = "deleting" => s = CmdDel(a)
  BY StartProgs, Zenon
<1>3. /\ MayRun(a) /\ rt' = [rt EXCEPT ![a] = ph] /\ rest' = [rest EXCEPT ![a] = s]
      /\ UNCHANGED <<conf, ns, devVars, tunVars, linkVars>>
  BY <1>1, Zenon DEF Start
<1> HIDE DEF s
<1>4. /\ rt \in [Att -> Phases] /\ DOMAIN rest = Att /\ ph \in Phases /\ ph \notin Idle
      /\ rt[a] \in Idle
  BY <1>3, Zenon DEF Mech, Phases, Idle, Final, MayRun
<1>5. /\ rt' \in [Att -> Phases] /\ DOMAIN rest' = Att /\ rt'[a] = ph /\ rest'[a] = s
      /\ \A b \in Att \ {a} : rest'[b] = rest[b] /\ rt'[b] = rt[b]
  BY <1>3, <1>4, Zenon
<1>6. Started(a, ph)
  BY <1>1, <1>2, <1>3, <1>4, <1>5, Zenon DEF Started, Left
<1>7. ASSUME NEW b \in Att, NEW x \in Left(b)' PROVE Word(rt[b], b, x)'
  <2>1. CASE b # a
    <3>1. Word(rt[b], b, x) /\ rt'[b] = rt[b]
      BY <1>5, <1>7, <2>1, Zenon DEF Mech, Left
    <3> QED BY <3>1, <1>3, WordKept, Zenon
  <2>2. CASE b = a
    <3>1. PICK p \in Plugins(a) : x = Do(p, <<>>)
      BY <1>2, <1>5, <1>7, <2>2, Zenon DEF Left
    <3>2. x.do = p /\ Call(ph, a, x)
      BY <3>1, StepParts, ZenonT(60) DEF Call, Uses
    <3> QED BY <3>2, <1>3, <1>5, <2>2, WordKept, Zenon DEF Word
  <2> QED BY <2>1, <2>2, Zenon
<1>8. ASSUME NEW b \in Att
      PROVE  /\ IsSeq(rest'[b]) /\ (rt'[b] \in Idle <=> rest'[b] = <<>>)
             /\ rt'[b] = "adding" => ns[b]
  BY <1>1, <1>2, <1>4, <1>5, SMTT(30) DEF Mech
<1>9. Mech'
  BY <1>3, <1>5, <1>7, <1>8, Zenon DEF Mech
<1> QED BY <1>3, <1>6, <1>9, Zenon

(* A process is killed, and its command with it.                           *)
LEMMA CrashSteps ==
  ASSUME Mech, NEW a \in Att, Crash(a)
  PROVE  /\ Mech' /\ Failed(a) /\ Left(a)' = {} /\ rt'[a] = "dirty"
         /\ \A b \in Att \ {a} : rest'[b] = rest[b]
<1>1. /\ rest' = [rest EXCEPT ![a] = <<>>] /\ rt' = [rt EXCEPT ![a] = "dirty"]
      /\ UNCHANGED <<conf, ns>>
  BY Zenon DEF Crash, Die
<1>2. rt \in [Att -> Phases] /\ DOMAIN rest = Att /\ "dirty" \in Phases /\ "dirty" \in Idle
  BY Zenon DEF Mech, Phases, Idle
<1>3. /\ rt' \in [Att -> Phases] /\ DOMAIN rest' = Att /\ rt'[a] = "dirty" /\ rest'[a] = <<>>
      /\ \A b \in Att \ {a} : rest'[b] = rest[b] /\ rt'[b] = rt[b]
  BY <1>1, <1>2, Zenon
<1>4. Left(a)' = {} /\ IsSeq(rest'[a])
  BY <1>3, ShortElems, Zenon DEF Left
<1>5. ASSUME NEW b \in Att, NEW x \in Left(b)' PROVE Word(rt[b], b, x)'
  <2>1. b # a
    BY <1>4, <1>5, Zenon
  <2>2. Word(rt[b], b, x) /\ rt'[b] = rt[b]
    BY <1>3, <1>5, <2>1, Zenon DEF Mech, Left
  <2> QED BY <2>2, <1>1, WordKept, Zenon
<1>6. ASSUME NEW b \in Att
      PROVE  /\ IsSeq(rest'[b]) /\ (rt'[b] \in Idle <=> rest'[b] = <<>>)
             /\ rt'[b] = "adding" => ns[b]
  BY <1>2, <1>3, <1>4, Zenon DEF Mech
<1>7. Mech'
  BY <1>1, <1>3, <1>5, <1>6, Zenon DEF Mech
<1>8. Failed(a)
  BY <1>3, Zenon DEF Failed, Left, Ended
<1> QED BY <1>3, <1>4, <1>7, <1>8, Zenon

(* The namespace of a container in which no command runs goes.             *)
LEMMA NetnsGoneSteps ==
  ASSUME Mech, NEW a \in Att, NetnsGone(a)
  PROVE  /\ Mech' /\ UNCHANGED <<conf, rt, rest>> /\ ns[a]
         /\ \A b \in Att : conf[b].cid = conf[a].cid => rt[b] \in Idle /\ ~ns'[b] /\ ns[b]
         /\ \A b \in Att : conf[b].cid # conf[a].cid => (ns'[b] <=> ns[b])
<1> DEFINE gone == {b \in Att : conf[b].cid = conf[a].cid}
<1>1. /\ ns[a] /\ \A b \in gone : rt[b] \in Idle
      /\ ns' = [b \in Att |-> ns[b] /\ b \notin gone] /\ UNCHANGED <<conf, rt, rest>>
  BY Zenon DEF NetnsGone
<1>2. /\ ns \in [Att -> BOOLEAN] /\ DOMAIN rest = Att /\ rt \in [Att -> Phases]
      /\ \A b, d \in Att : conf[b].cid = conf[d].cid => (ns[b] <=> ns[d])
  BY Zenon DEF Mech
<1>3. /\ \A b \in Att : b \in gone => rt[b] \in Idle /\ ~ns'[b]
      /\ \A b \in Att : b \notin gone => (ns'[b] <=> ns[b])
      /\ \A b \in Att : b \in gone => ns[b]
      /\ ns' \in [Att -> BOOLEAN]
  BY <1>1, <1>2, Zenon
<1>4. ASSUME NEW b \in Att, NEW x \in Left(b)' PROVE Word(rt[b], b, x)'
  <2>1. Word(rt[b], b, x) /\ rt'[b] = rt[b]
    BY <1>1, <1>4, ZenonT(60) DEF Mech, Left
  <2> QED BY <2>1, <1>1, WordKept, Zenon
<1>5. ASSUME NEW b \in Att
      PROVE  /\ IsSeq(rest'[b]) /\ (rt'[b] \in Idle <=> rest'[b] = <<>>)
             /\ rt'[b] = "adding" => ns'[b]
  <2>1. "adding" \notin Idle
    BY Zenon DEF Idle
  <2> QED BY <2>1, <1>1, <1>3 DEF Mech
<1>6. ASSUME NEW b \in Att, NEW d \in Att, conf[b].cid = conf[d].cid
      PROVE  ns'[b] <=> ns'[d]
  BY <1>1, <1>2, <1>6, Zenon
<1>7. Mech'
  BY <1>1, <1>2, <1>3, <1>4, <1>5, <1>6, Zenon DEF Mech
<1> QED BY <1>1, <1>3, <1>7, Zenon

(* The commands have only their own steps left.                            *)
LEMMA MechInit == ASSUME Init PROVE Mech
<1>1. /\ conf \in Confs /\ rt = [a \in Att |-> "detached"] /\ rest = [a \in Att |-> <<>>]
      /\ ns = [a \in Att |-> TRUE]
  BY Zenon DEF Init
<1>2. \A a \in Att : rt[a] = "detached" /\ rest[a] = <<>> /\ Left(a) = {}
  BY <1>1, ShortElems, Zenon DEF Left
<1>3. "detached" \in Phases /\ "detached" \in Idle
  BY Zenon DEF Phases, Idle
<1> QED BY <1>1, <1>2, <1>3, ShortElems, Zenon DEF Mech

(* Whatever runs, it does.                                                 *)
LEMMA MechNext ==
  ASSUME Mech, [Next]_vars
  PROVE  Mech'
<1>1. ASSUME NEW a \in Att, DeviceStep(a) PROVE Mech'
  BY <1>1, DeviceShape, TuningShape, MechStep, Zenon DEF DeviceStep
<1>2. ASSUME NEW a \in Att, NetfilterStep(a) PROVE Mech'
  BY <1>2, NetfilterShape, MechStep, Zenon DEF NetfilterStep
<1>3. ASSUME NEW a \in Att, LinkStep(a) PROVE Mech'
  BY <1>3, BridgeShape, DelLinkShape, BandwidthShape, VrfShape, SbrShape, MechStep, Zenon
  DEF LinkStep
<1>4. ASSUME NEW a \in Att, Invoke(a) PROVE Mech'
  BY <1>4, InvokeShape, MechStep, Zenon DEF Invoke
<1>5. ASSUME UNCHANGED vars PROVE Mech'
  <2>1. UNCHANGED <<conf, rt, rest, ns>>
    BY <1>5, Zenon DEF vars
  <2>2. ASSUME NEW b \in Att, NEW x \in Left(b)' PROVE Word(rt[b], b, x)'
    <3>1. Word(rt[b], b, x) /\ rt'[b] = rt[b]
      BY <2>1, <2>2, Zenon DEF Mech, Left
    <3> QED BY <3>1, <2>1, WordKept, Zenon
  <2> QED BY <2>1, <2>2, Zenon DEF Mech
<1> QED BY <1>1, <1>2, <1>3, <1>4, <1>5, StartSteps, CrashSteps, NetnsGoneSteps, Zenon DEF Next

-----------------------------------------------------------------------------
(* The order of the steps that are left, as the pairs of names of which    *)
(* the first never comes before the second.                                *)

Ordered(s, bad) == \A i, j \in DOMAIN s : i < j => <<s[i].do, s[j].do>> \notin bad

MainNames == {"veth", "bridge", "SetupVeth"}
Routing == {"sbrList", "RouteDel"} \cup Choosing
Leaving == {"vrf", "findVRFToLeave", "LinkDelVRF"}

(* ADD makes the interface before it is used, looks at one gateway and at  *)
(* one address at a time, restores addresses last, and unlocks at the end. *)
AddBad ==
  (({"bridge"} \cup GwSteps) \X GwSteps)
    \cup ({"vrf", "restoreAddresses"} \X {"LinkSetMaster"})
    \cup ({"vrf", "restoreAddresses", "restoreRoutes"} \X MainNames)
    \cup (({"sbr"} \cup Routing) \X
            (MainNames \cup {"sbr", "sbrLock", "sbrList"} \cup Choosing))
    \cup ({"sbr", "sbrUnlock"} \X SbrSteps)

(* DEL leaves a VRF before it deletes it, and deletes the rules of an      *)
(* interface before the interface.                                         *)
DelBad ==
  (Leaving \X {"vrf", "findVRFToLeave", "resetMaster"})
    \cup ({"veth", "bridge", "DelLinkByName"} \X {"sbr", "tidyRules"})

LinkBad(ph) == IF ph = "adding" THEN AddBad ELSE DelBad

LinkOrder ==
  \A a \in Att : rt[a] \in {"adding", "deleting"} => Ordered(rest[a], LinkBad(rt[a]))

-----------------------------------------------------------------------------
(* Sequences are ordered part by part.                                     *)
LEMMA OrderParts ==
  ASSUME NEW bad
  PROVE  /\ Ordered(<<>>, bad) /\ \A x : Ordered(<<x>>, bad)
         /\ \A s, t : /\ IsSeq(s) /\ IsSeq(t) /\ Ordered(s, bad) /\ Ordered(t, bad)
                      /\ \A x \in Elems(s), y \in Elems(t) : <<x.do, y.do>> \notin bad
                      => Ordered(s \o t, bad)
         /\ \A s : IsSeq(s) /\ s # <<>> /\ Ordered(s, bad) =>
              /\ Ordered(Tail(s), bad)
              /\ \A y \in Elems(Tail(s)) : <<Head(s).do, y.do>> \notin bad
         /\ \A s : (\A x \in Elems(s), y \in Elems(s) : <<x.do, y.do>> \notin bad) =>
              Ordered(s, bad)
<1>1. Ordered(<<>>, bad) /\ \A x : Ordered(<<x>>, bad)
  BY DEF Ordered
<1>2. ASSUME NEW s, NEW t, IsSeq(s), IsSeq(t), Ordered(s, bad), Ordered(t, bad),
             \A x \in Elems(s), y \in Elems(t) : <<x.do, y.do>> \notin bad,
             NEW i \in DOMAIN (s \o t), NEW j \in DOMAIN (s \o t), i < j
      PROVE  <<(s \o t)[i].do, (s \o t)[j].do>> \notin bad
  <2> DEFINE u == s \o t
             m == Len(s)
             n == Len(t)
  <2>1. /\ m \in Nat /\ n \in Nat /\ DOMAIN s = 1..m /\ DOMAIN t = 1..n
        /\ DOMAIN u = 1..(m + n)
        /\ \A k \in 1..m : u[k] = s[k]
        /\ \A k \in 1..n : u[m + k] = t[k]
    BY <1>2, ConcatElems
  <2>2. i \in 1..(m + n) /\ j \in 1..(m + n)
    BY <1>2, <2>1, Zenon
  <2> HIDE DEF u, m, n
  <2>3. CASE j <= m
    <3>1. i \in 1..m /\ j \in 1..m
      BY <1>2, <2>1, <2>2, <2>3, SMTT(30)
    <3> QED BY <1>2, <2>1, <3>1, Zenon DEF Ordered, u
  <2>4. CASE i <= m /\ j > m
    <3>1. i \in 1..m /\ j - m \in 1..n /\ m + (j - m) = j
      BY <2>1, <2>2, <2>4
    <3>2. u[i] = s[i] /\ u[j] = t[j - m]
      BY <2>1, <3>1, Zenon
    <3>3. s[i] \in Elems(s) /\ t[j - m] \in Elems(t)
      BY <2>1, <3>1, Zenon DEF Elems
    <3> QED BY <1>2, <3>2, <3>3, Zenon DEF u
  <2>5. CASE i > m
    <3>1. i - m \in 1..n /\ j - m \in 1..n /\ m + (j - m) = j /\ m + (i - m) = i /\ i - m < j - m
      BY <1>2, <2>1, <2>2, <2>5, SMTT(30)
    <3>2. u[i] = t[i - m] /\ u[j] = t[j - m]
      BY <2>1, <3>1, Zenon
    <3> QED BY <1>2, <2>1, <3>1, <3>2, ZenonT(60) DEF Ordered, u
  <2>6. j <= m \/ (i <= m /\ j > m) \/ i > m
    BY <2>1, <2>2
  <2> QED BY <2>3, <2>4, <2>5, <2>6, Zenon
<1>3. ASSUME NEW s, IsSeq(s), s # <<>>, Ordered(s, bad)
      PROVE  /\ Ordered(Tail(s), bad)
             /\ \A y \in Elems(Tail(s)) : <<Head(s).do, y.do>> \notin bad
  <2>1. /\ Len(s) \in Nat \ {0} /\ DOMAIN s = 1..Len(s) /\ DOMAIN Tail(s) = 1..(Len(s) - 1)
        /\ \A i \in DOMAIN Tail(s) : Tail(s)[i] = s[i + 1]
    BY <1>3, TailElems, Zenon
  <2>2. Head(s) = s[1]
    BY <1>3 DEF IsSeq
  <2>3. \A i \in DOMAIN Tail(s) : i + 1 \in DOMAIN s /\ 1 < i + 1
    BY <2>1
  <2>4. \A i, j \in DOMAIN Tail(s) : i < j => i + 1 < j + 1
    BY <2>1
  <2>5. 1 \in DOMAIN s
    BY <2>1
  <2>6. Ordered(Tail(s), bad)
    BY <1>3, <2>1, <2>3, <2>4, Zenon DEF Ordered
  <2>7. \A y \in Elems(Tail(s)) : <<Head(s).do, y.do>> \notin bad
    BY <1>3, <2>1, <2>2, <2>3, <2>5 DEF Ordered, Elems
  <2> QED BY <2>6, <2>7, Zenon
<1>4. ASSUME NEW s, \A x \in Elems(s), y \in Elems(s) : <<x.do, y.do>> \notin bad
      PROVE  Ordered(s, bad)
  BY <1>4, Zenon DEF Ordered, Elems
<1>5. ASSUME NEW s, NEW t, IsSeq(s), IsSeq(t), Ordered(s, bad), Ordered(t, bad),
             \A x \in Elems(s), y \in Elems(t) : <<x.do, y.do>> \notin bad
      PROVE  Ordered(s \o t, bad)
  BY <1>2, <1>5, Zenon DEF Ordered
<1>6. \A s, t : /\ IsSeq(s) /\ IsSeq(t) /\ Ordered(s, bad) /\ Ordered(t, bad)
                /\ \A x \in Elems(s), y \in Elems(t) : <<x.do, y.do>> \notin bad
                => Ordered(s \o t, bad)
  BY <1>5, Zenon
<1> QED BY <1>1, <1>3, <1>4, <1>6, Zenon

(* What a step leads to comes in order.                                    *)
Sorted(a, s) ==
  LET bad == LinkBad(rt[a]) IN
  /\ IsSeq(s) /\ Ordered(s, bad)
  /\ \A x \in Elems(s) : \A m : <<x.do, m>> \in bad => <<Head(rest[a]).do, m>> \in bad

(* Some steps may come before any other.                                   *)
Free ==
  DevSteps \cup TunSteps \cup NfSteps \cup BwAddSteps
    \cup {"TeardownIfb", "ensureBridge", "PortOfBridge", "PortUp", "SetupVeth"}

(* The steps that are left are in order, always.                           *)
LEMMA OrderNext ==
  ASSUME Mech, LinkOrder, [Next]_vars
  PROVE  LinkOrder'
(* Two sequences make one that is in order if they are, and if the steps   *)
(* of one may come before those of the other.                              *)
<1>OrderConcat. ASSUME NEW bad, NEW s, NEW t, IsSeq(s), IsSeq(t), Ordered(s, bad), Ordered(t, bad),
             \A x \in Elems(s), y \in Elems(t) : <<x.do, y.do>> \notin bad
      PROVE  /\ IsSeq(s \o t) /\ Elems(s \o t) = Elems(s) \cup Elems(t)
             /\ Ordered(s \o t, bad)
  <2> USE <1>OrderConcat
  <2>1. IsSeq(s \o t) /\ Elems(s \o t) = Elems(s) \cup Elems(t)
    BY ConcatElems, Zenon
  <2>2. Ordered(s \o t, bad)
    BY OrderParts, Zenon
  <2> QED BY <2>1, <2>2, Zenon
(* Steps that have no more steps before them than the one they follow from *)
(* keep the order.                                                         *)
<1>OrderPush. ASSUME Mech, NEW a \in Att, rest[a] # <<>>, NEW bad, Ordered(rest[a], bad),
             NEW s, IsSeq(s), Push(a, s), Ordered(s, bad),
             \A x \in Elems(s) : \A m : <<x.do, m>> \in bad => <<Head(rest[a]).do, m>> \in bad
      PROVE  Ordered(rest'[a], bad)
  <2> USE <1>OrderPush
  <2>1. IsSeq(rest[a]) /\ IsSeq(Tail(rest[a])) /\ rest'[a] = s \o Tail(rest[a])
    BY Pushed, TailElems, Zenon DEF Mech
  <2>2. /\ Ordered(Tail(rest[a]), bad)
        /\ \A y \in Elems(Tail(rest[a])) : <<Head(rest[a]).do, y.do>> \notin bad
    BY <2>1, OrderParts, Zenon
  <2>3. \A x \in Elems(s), y \in Elems(Tail(rest[a])) : <<x.do, y.do>> \notin bad
    BY <2>2, Zenon
  <2> DEFINE t == Tail(rest[a])
  <2>4. IsSeq(t) /\ Ordered(t, bad) /\ \A x \in Elems(s), y \in Elems(t) : <<x.do, y.do>> \notin bad
    BY <2>1, <2>2, <2>3, Zenon
  <2>5. rest'[a] = s \o t
    BY <2>1, Zenon
  <2> HIDE DEF t
  <2>6. Ordered(s \o t, bad)
    BY <2>4, OrderParts, Zenon
  <2> QED BY <2>5, <2>6, Zenon
(* The order is kept by a step that leads to steps in order.               *)
<1>OrderStep. ASSUME Mech, LinkOrder, NEW a \in Att, rest[a] # <<>>,
             Idled \/ Fail(a) \/ \E s : Sorted(a, s) /\ Push(a, s)
      PROVE  LinkOrder'
  <2> USE <1>OrderStep
  <2>1. CASE Idled
    BY <2>1, Zenon DEF Idled, LinkOrder
  <2>2. CASE Fail(a)
    <3>1. /\ \A b \in Att \ {a} : rest'[b] = rest[b] /\ rt'[b] = rt[b]
          /\ rt'[a] \notin Ended
      BY <2>2, FailedSteps, Zenon DEF Failed
    <3> QED BY <3>1, Zenon DEF LinkOrder, Ended
  <2>3. ASSUME NEW s, Sorted(a, s), Push(a, s) PROVE LinkOrder'
    <3>1. /\ Did(a, s) /\ \A b \in Att \ {a} : rest'[b] = rest[b] /\ rt'[b] = rt[b]
          /\ rt[a] \in DOMAIN Final
      BY <2>3, Pushed, Zenon DEF Sorted, Did, Mech, Phases
    <3>2. rt'[a] \in {"adding", "deleting"} => rt'[a] = rt[a]
      BY <3>1, FinalIs, Zenon DEF Did
    <3>3. rt'[a] \in {"adding", "deleting"} => Ordered(rest'[a], LinkBad(rt[a]))
      BY <2>3, <3>2, <1>OrderPush, Zenon DEF Sorted, LinkOrder
    <3> QED BY <3>1, <3>2, <3>3, Zenon DEF LinkOrder
  <2> QED BY <2>1, <2>2, <2>3, Zenon
(* A program of these is in order.                                         *)
<1>FreeSteps. /\ \A ph, m : \A n \in Free : <<n, m>> \notin LinkBad(ph)
      /\ \A a, s : Named(s, Free) => Sorted(a, s)
  <2>1. ASSUME NEW ph, NEW m, NEW n \in Free PROVE <<n, m>> \notin LinkBad(ph)
    <3>1. n \notin {"bridge", "vrf", "restoreAddresses", "restoreRoutes", "sbr", "sbrUnlock",
                    "veth", "DelLinkByName"} \cup GwSteps \cup Routing \cup Leaving
      BY Zenon
         DEF Free, DevSteps, TunSteps, NfSteps, BwAddSteps, GwSteps, Routing, Choosing, Leaving
    <3> QED BY <3>1, Zenon DEF LinkBad, AddBad, DelBad
  <2>2. ASSUME NEW a, NEW s, Named(s, Free) PROVE Sorted(a, s)
    <3>1. \A x \in Elems(s) : \A m : <<x.do, m>> \notin LinkBad(rt[a])
      BY <2>1, <2>2, Zenon DEF Named
    <3>2. Ordered(s, LinkBad(rt[a])) /\ IsSeq(s)
      BY <2>2, <3>1, OrderParts, Zenon DEF Named
    <3> QED BY <3>1, <3>2, Zenon DEF Sorted
  <2> QED BY <2>1, <2>2, Zenon
(* One step is in order if what comes after it may come after the one it   *)
(* follows from.                                                           *)
<1>SortedOne. ASSUME NEW a, NEW x,
             \A m : <<x.do, m>> \in LinkBad(rt[a]) => <<Head(rest[a]).do, m>> \in LinkBad(rt[a])
      PROVE  Sorted(a, <<x>>) /\ Sorted(a, <<>>)
  <2> USE <1>SortedOne
  <2> DEFINE bad == LinkBad(rt[a])
  <2> HIDE DEF bad
  <2>1. Ordered(<<x>>, bad) /\ Ordered(<<>>, bad)
    BY OrderParts, Zenon
  <2>2. IsSeq(<<x>>) /\ Elems(<<x>>) = {x} /\ IsSeq(<<>>) /\ Elems(<<>>) = {}
    BY ShortElems, Zenon
  <2> QED BY <2>1, <2>2, Zenon DEF Sorted, bad
(* Steps of which none has an order lead to the like.                      *)
<1>OrderFree. ASSUME Mech, LinkOrder, NEW a \in Att, NEW steps, Shape(a, steps), steps \subseteq Free
      PROVE  LinkOrder'
  <2> USE <1>OrderFree
  <2>1. ASSUME NEW s, Prog(rt[a], a, s, steps) PROVE Sorted(a, s)
    BY <2>1, <1>FreeSteps, Zenon DEF Prog, Named
  <2> QED BY <2>1, <1>OrderStep, Zenon DEF Shape
(* The steps of the gateways are in order.                                 *)
<1>OrderBridge. ASSUME Mech, LinkOrder, NEW a \in Att, SetupVeth(a) \/ BridgeStep(a)
      PROVE  LinkOrder'
  <2> USE <1>OrderBridge
  <2>1. Shape(a, VethSteps \cup BridgeSteps) /\ rest[a] # <<>>
    BY BridgeShape, Zenon DEF Shape
  <2>2. Sorted(a, <<>>)
    BY <1>FreeSteps, NamedParts, Zenon
  <2>3. ASSUME Succeed(a) \/ Fail(a) \/ Idled PROVE LinkOrder'
    BY <2>1, <2>2, <2>3, SucceedPush, <1>OrderStep, Zenon
  <2>4. ASSUME Head(rest[a]).do \in GwSteps, NEW n \in GwSteps, NEW i
        PROVE  Sorted(a, <<Step(n, i, <<>>)>>)
    <3>1. Step(n, i, <<>>).do = n
      BY StepParts, Zenon
    <3>2. rt[a] = "adding"
      BY <2>1, <2>4, HeadFacts, WordIs, Zenon DEF BridgeWord, BridgeSteps
    <3>3. \A m : <<n, m>> \in AddBad => <<Head(rest[a]).do, m>> \in AddBad
      <4>1. n \notin {"bridge", "vrf", "restoreAddresses", "restoreRoutes", "sbr", "sbrUnlock"}
                       \cup Routing
        BY Zenon DEF GwSteps, Routing, Choosing
      <4> QED BY <2>4, <4>1, Zenon DEF AddBad
    <3> QED BY <3>1, <3>2, <3>3, <1>SortedOne, Zenon DEF LinkBad
  <2>5. ASSUME BridgeStep(a) PROVE LinkOrder'
    <3>1. /\ \/ Succeed(a) \/ Fail(a) \/ Idled
             \/ /\ Head(rest[a]).do \in GwSteps
                /\ \/ \E n \in GwSteps : Push(a, <<Step(n, Arg(a), <<>>)>>)
                   \/ Push(a, AfterGateway(conf[a], Arg(a)))
                   \/ Push(a, BridgeGateways(conf[a], Arg(a) + 1))
      BY <2>5, Zenon DEF BridgeStep, ensureBridge, PortOfBridge, ensureVlanInterface, AddrList,
         ensureAddr, LinkSetHardwareAddr, enableIPForward, PortUp, At, GwSteps, Idled
    <3>2. ASSUME Head(rest[a]).do \in GwSteps, NEW j
          PROVE  Sorted(a, BridgeGateways(conf[a], j)) /\ Sorted(a, AfterGateway(conf[a], Arg(a)))
      <4> DEFINE n == IF conf[a].vlan # 0 THEN "FindVlan" ELSE "AddrList"
      <4>1. n \in GwSteps /\ "enableIPForward" \in GwSteps
        BY Zenon DEF GwSteps
      <4>2. \A k : BridgeGateways(conf[a], k) \in {<<>>, <<Step(n, k, <<>>)>>}
        BY Zenon DEF BridgeGateways, When
      <4> HIDE DEF n
      <4>3. \A k : Sorted(a, BridgeGateways(conf[a], k))
        BY <2>2, <2>4, <3>2, <4>1, <4>2, Zenon
      <4>4. Sorted(a, <<Step("enableIPForward", Arg(a), <<>>)>>)
        BY <2>4, <3>2, <4>1, Zenon
      <4> QED BY <4>3, <4>4, Zenon DEF AfterGateway
    <3> QED BY <2>1, <2>3, <2>4, <3>1, <3>2, <1>OrderStep, Zenon
  <2> QED BY <2>3, <2>5, Zenon DEF SetupVeth
(* The steps of vrf are in order.                                          *)
<1>OrderVrf. ASSUME Mech, LinkOrder, NEW a \in Att, VrfStep(a)
      PROVE  LinkOrder'
  <2> USE <1>OrderVrf
  <2> DEFINE x == Do("createVRF", <<>>)
             y == Do("LinkSetUpVRF", <<>>)
             u == Do("resetMaster", <<>>)
             w == Do("LinkDelVRF", <<>>)
  <2>1. /\ rest[a] # <<>>
        /\ \/ Succeed(a) \/ Fail(a)
           \/ Head(rest[a]).do = "findVRF" /\ Push(a, <<x, y>>)
           \/ Head(rest[a]).do = "findVRFToLeave" /\ Push(a, <<u, w>>)
    BY Zenon DEF VrfStep, findOrCreate, createVRF, LinkSetUpVRF, saveAddresses, LinkSetMaster,
       restoreAddresses, restoreRoutes, findVRFToLeave, resetMaster, LinkDelVRF, VrfFail, At
  <2>2. /\ x.do = "createVRF" /\ y.do = "LinkSetUpVRF"
        /\ u.do = "resetMaster" /\ w.do = "LinkDelVRF"
    BY StepParts, Zenon
  <2> HIDE DEF x, y, u, w
  <2>3. CASE Succeed(a) \/ Fail(a)
    <3>1. Sorted(a, <<>>)
      BY <1>FreeSteps, NamedParts, Zenon
    <3> QED BY <2>1, <2>3, <3>1, SucceedPush, <1>OrderStep, Zenon
  <2>4. CASE Head(rest[a]).do = "findVRF" /\ Push(a, <<x, y>>)
    <3>1. rt[a] = "adding"
      BY <2>1, <2>4, HeadFacts, WordIs, Zenon DEF VrfWord, VrfAddSteps, VrfDelSteps
    <3>2. IsSeq(<<x, y>>) /\ Elems(<<x, y>>) = {x, y}
      BY ShortElems, Zenon
    <3>3. \A e \in {x, y} : \A m : <<e.do, m>> \notin AddBad
      BY <2>2, Zenon DEF AddBad, GwSteps, Routing, Choosing
    <3>4. Ordered(<<x, y>>, AddBad)
      BY <3>2, <3>3, OrderParts, Zenon
    <3>5. Sorted(a, <<x, y>>)
      BY <3>1, <3>2, <3>3, <3>4, Zenon DEF Sorted, LinkBad
    <3> QED BY <2>1, <2>4, <3>5, <1>OrderStep, Zenon
  <2>5. CASE Head(rest[a]).do = "findVRFToLeave" /\ Push(a, <<u, w>>)
    <3>1. rt[a] = "deleting"
      BY <2>1, <2>5, HeadFacts, WordIs, Zenon DEF VrfWord, VrfAddSteps, VrfDelSteps
    <3>2. IsSeq(<<u, w>>) /\ Elems(<<u, w>>) = {u, w}
      BY ShortElems, Zenon
    <3>3. /\ \A m : <<u.do, m>> \notin DelBad
          /\ \A m : <<w.do, m>> \in DelBad => <<"findVRFToLeave", m>> \in DelBad
      BY <2>2, Zenon DEF DelBad, Leaving
    <3>4. Ordered(<<u, w>>, DelBad)
      BY <3>3 DEF Ordered
    <3>5. Sorted(a, <<u, w>>)
      BY <2>5, <3>1, <3>2, <3>3, <3>4, Zenon DEF Sorted, LinkBad
    <3> QED BY <2>1, <2>5, <3>5, <1>OrderStep, Zenon
  <2> QED BY <2>1, <2>3, <2>4, <2>5, Zenon
(* The steps of sbr are in order.                                          *)
<1>OrderSbr. ASSUME Mech, LinkOrder, NEW a \in Att, SbrStep(a)
      PROVE  LinkOrder'
  <2> USE <1>OrderSbr
  <2>1. /\ rest[a] # <<>>
        /\ \/ Succeed(a) \/ Fail(a)
           \/ Head(rest[a]).do = "sbrList" /\ Push(a, doRoutes(conf[a], 1))
           \/ Head(rest[a]).do = "RuleAdd" /\ Push(a, AfterRule(conf[a], Arg(a)))
           \/ Head(rest[a]).do = "RouteAdd" /\ Push(a, <<Step("copyRoutes", Arg(a), <<>>)>>)
           \/ Head(rest[a]).do = "copyRoutes" /\ Push(a, doRoutes(conf[a], Arg(a) + 1))
    BY Zenon DEF SbrStep, sbrLock, sbrUnlock, sbrList, RuleAdd, RouteAdd, copyRoutes, RouteDel,
       tidyRules, SbrFail, At
  <2>2. Sorted(a, <<>>)
    BY <1>FreeSteps, NamedParts, Zenon
  <2>3. CASE Succeed(a) \/ Fail(a)
    BY <2>1, <2>2, <2>3, SucceedPush, <1>OrderStep, Zenon
  <2>4. CASE Head(rest[a]).do \in Routing
    <3>1. rt[a] = "adding"
      BY <2>1, <2>4, HeadFacts, WordIs, Zenon DEF SbrWord, SbrSteps, Routing, Choosing
    <3>2. ASSUME NEW n \in Routing, NEW i PROVE Sorted(a, <<Step(n, i, <<>>)>>)
      <4>1. Step(n, i, <<>>).do = n
        BY StepParts, Zenon
      <4>2. n \notin {"bridge", "vrf", "restoreAddresses", "restoreRoutes", "sbr", "sbrUnlock"}
                       \cup GwSteps
        BY Zenon DEF GwSteps, Routing, Choosing
      <4>3. \A m : <<n, m>> \in AddBad => <<Head(rest[a]).do, m>> \in AddBad
        BY <2>4, <4>2, Zenon DEF AddBad
      <4> QED BY <3>1, <4>1, <4>3, <1>SortedOne, Zenon DEF LinkBad
    <3>3. /\ "RuleAdd" \in Routing /\ "RouteDel" \in Routing /\ "RouteAdd" \in Routing
          /\ "copyRoutes" \in Routing
      BY Zenon DEF Routing, Choosing
    <3>4. \A i : Sorted(a, doRoutes(conf[a], i)) /\ Sorted(a, doRoutesWithTable(conf[a], i))
      BY <2>2, <3>2, <3>3, Zenon DEF doRoutes, doRoutesWithTable, When, Do
    <3>5. Sorted(a, AfterRule(conf[a], Arg(a)))
      <4> DEFINE n == IF conf[a].gateway THEN "RouteAdd" ELSE "copyRoutes"
      <4>1. Sorted(a, <<Step(n, Arg(a), <<>>)>>)
        BY <3>2, <3>3, Zenon
      <4>2. AfterRule(conf[a], Arg(a)) = IF conf[a].table # 0
               THEN doRoutesWithTable(conf[a], Arg(a) + 1) ELSE <<Step(n, Arg(a), <<>>)>>
        BY Zenon DEF AfterRule
      <4> HIDE DEF n
      <4> QED BY <3>4, <4>1, <4>2, Zenon
    <3>6. Sorted(a, <<Step("copyRoutes", Arg(a), <<>>)>>)
      BY <3>2, <3>3, Zenon
    <3> QED BY <2>1, <2>3, <3>4, <3>5, <3>6, <1>OrderStep, Zenon
  <2> QED BY <2>1, <2>3, <2>4, Zenon DEF Routing, Choosing
(* The programs of the plugins are in order.                               *)
<1>OrderInvoke. ASSUME Mech, LinkOrder, NEW a \in Att, Invoke(a)
      PROVE  LinkOrder'
  <2> USE <1>OrderInvoke
  <2> DEFINE p == Head(rest[a]).do
             c == conf[a]
  <2>1. /\ Shape(a, StepsOf(p)) /\ p \in AllPlugins /\ Uses(a, p) /\ rest[a] # <<>>
        /\ rt[a] \in {"adding", "deleting"}
        /\ Push(a, IF rt[a] = "adding" THEN PluginAdd(a, p) ELSE PluginDel(a, p))
    BY InvokeShape, Zenon DEF Shape, Invoke, Call
  <2>2. SUFFICES ASSUME StepsOf(p) \subseteq Free => FALSE
                 PROVE  Sorted(a, IF rt[a] = "adding" THEN PluginAdd(a, p) ELSE PluginDel(a, p))
    BY <2>1, <1>OrderFree, <1>OrderStep, Zenon
  <2>3. p \in {"veth", "bridge", "vrf", "sbr"}
    BY <2>1, <2>2, Zenon DEF StepsOf, Free, AllPlugins, MainPlugins, ChainedPlugins
  <2>4. CASE p \in {"veth", "bridge"} /\ rt[a] = "deleting"
    <3>1. PluginDel(a, p) = <<Do("DelLinkByName", <<>>)>>
      BY <2>4, Zenon DEF PluginDel, VethDel
    <3>2. Do("DelLinkByName", <<>>).do = "DelLinkByName"
      BY StepParts, Zenon
    <3>3. \A m : <<"DelLinkByName", m>> \in DelBad => <<p, m>> \in DelBad
      BY <2>4, Zenon DEF DelBad, Leaving
    <3> HIDE DEF p
    <3> QED BY <2>4, <3>1, <3>2, <3>3, <1>SortedOne, Zenon DEF LinkBad, p
  <2>5. CASE p = "veth" /\ rt[a] = "adding"
    <3>1. PluginAdd(a, p) = <<Do("SetupVeth", <<>>)>>
      BY <2>5, Zenon DEF PluginAdd, VethAdd
    <3>2. Do("SetupVeth", <<>>).do \in Free
      BY StepParts DEF Free
    <3>3. Named(<<Do("SetupVeth", <<>>)>>, Free)
      BY <3>2, NamedParts, Zenon
    <3> HIDE DEF p
    <3> QED BY <2>5, <3>1, <3>3, <1>FreeSteps, Zenon
  <2>6. CASE p = "bridge" /\ rt[a] = "adding"
    <3> DEFINE n == IF c.vlan # 0 THEN "FindVlan" ELSE "AddrList"
               x == Do("ensureBridge", <<>>)
               y == Do("SetupVeth", <<>>)
               z == Do("PortOfBridge", <<>>)
               w == Do("PortUp", <<>>)
               g == BridgeGateways(c, 1)
    <3>1. PluginAdd(a, p) = <<x, y, z>> \o g \o <<w>>
      BY <2>6, Zenon DEF PluginAdd, BridgeAdd
    <3>2. x.do \in Free /\ y.do \in Free /\ z.do \in Free /\ w.do \in Free /\ w.do = "PortUp"
      BY StepParts DEF Free
    <3>3. g = <<>> \/ g = <<Step(n, 1, <<>>)>>
      BY Zenon DEF BridgeGateways, When
    <3>4. n \in GwSteps
      BY Zenon DEF GwSteps
    <3> HIDE DEF n, x, y, z, w, g, p, c
    <3>5. /\ IsSeq(<<x, y, z>>) /\ Elems(<<x, y, z>>) = {x, y, z}
          /\ IsSeq(<<w>>) /\ Elems(<<w>>) = {w}
          /\ IsSeq(g) /\ \A e \in Elems(g) : e.do \in GwSteps
      BY <3>3, <3>4, ShortElems, StepParts, SMTT(30)
    <3>6. Ordered(<<x, y, z>>, AddBad) /\ Ordered(g, AddBad) /\ Ordered(<<w>>, AddBad)
      <4>1. \A e \in {x, y, z}, f \in {x, y, z} : <<e.do, f.do>> \notin AddBad
        BY <3>2, <1>FreeSteps, Zenon DEF LinkBad
      <4> QED BY <4>1, <3>3, <3>5, OrderParts, Zenon
    <3>7. /\ IsSeq(<<x, y, z>> \o g) /\ Elems(<<x, y, z>> \o g) = {x, y, z} \cup Elems(g)
          /\ Ordered(<<x, y, z>> \o g, AddBad)
      <4>1. \A e \in {x, y, z}, f \in Elems(g) : <<e.do, f.do>> \notin AddBad
        BY <3>2, <1>FreeSteps, Zenon DEF LinkBad
      <4> DEFINE r == <<x, y, z>>
      <4>2. IsSeq(r) /\ Ordered(r, AddBad) /\ Elems(r) = {x, y, z}
        BY <3>5, <3>6, Zenon
      <4> HIDE DEF r
      <4>3. \A e \in Elems(r), f \in Elems(g) : <<e.do, f.do>> \notin AddBad
        BY <4>1, <4>2, Zenon
      <4>4. /\ IsSeq(r \o g) /\ Elems(r \o g) = Elems(r) \cup Elems(g)
            /\ Ordered(r \o g, AddBad)
        BY <3>5, <3>6, <4>2, <4>3, <1>OrderConcat, Zenon
      <4> QED BY <4>2, <4>4, Zenon DEF r
    <3> DEFINE s == <<x, y, z>> \o g
    <3> HIDE DEF s
    <3>8. /\ IsSeq(s \o <<w>>) /\ Elems(s \o <<w>>) = {x, y, z, w} \cup Elems(g)
          /\ Ordered(s \o <<w>>, AddBad)
      <4>1. \A e \in {x, y, z} \cup Elems(g), f \in {w} : <<e.do, f.do>> \notin AddBad
        <5>1. "PortUp" \notin GwSteps \cup MainNames \cup SbrSteps \cup {"sbr", "LinkSetMaster"}
                               \cup Choosing
          BY Zenon DEF GwSteps, MainNames, SbrSteps, Choosing
        <5>2. \A m : <<m, "PortUp">> \notin AddBad
          BY <5>1, Zenon DEF AddBad, SbrSteps, Choosing
        <5> QED BY <3>2, <5>2, Zenon
      <4>2. Elems(s) = {x, y, z} \cup Elems(g) /\ IsSeq(s) /\ Ordered(s, AddBad)
        BY <3>7, Zenon DEF s
      <4>3. IsSeq(s \o <<w>>) /\ Elems(s \o <<w>>) = Elems(s) \cup {w}
        BY <4>2, <3>5, ConcatElems
      <4>4. Ordered(s \o <<w>>, AddBad)
        BY <4>1, <4>2, <3>5, <3>6, OrderParts, Zenon
      <4> QED BY <4>2, <4>3, <4>4, Zenon
    <3>9. \A e \in {x, y, z, w} \cup Elems(g) : \A m : <<e.do, m>> \in AddBad => <<p, m>> \in AddBad
      <4>1. \A e \in {x, y, z, w} : \A m : <<e.do, m>> \notin AddBad
        BY <3>2, <1>FreeSteps, Zenon DEF LinkBad
      <4>2. ASSUME NEW e \in Elems(g), NEW m, <<e.do, m>> \in AddBad PROVE <<p, m>> \in AddBad
        <5>1. e.do \notin {"bridge", "vrf", "restoreAddresses", "restoreRoutes", "sbr", "sbrUnlock"}
                          \cup Routing
          BY <3>5, Zenon DEF GwSteps, Routing, Choosing
        <5> QED BY <2>6, <4>2, <5>1, Zenon DEF AddBad
      <4> QED BY <4>1, <4>2, Zenon
    <3> QED BY <2>6, <3>1, <3>8, <3>9, Zenon DEF Sorted, LinkBad, s, p
  <2>7. CASE p = "vrf" /\ rt[a] = "adding"
    <3> DEFINE x == Do("findVRF", <<>>)
               y == Do("saveAddresses", <<>>)
               z == Do("LinkSetMaster", <<>>)
               u == Do("restoreAddresses", <<>>)
               w == Do("restoreRoutes", <<>>)
    <3>1. PluginAdd(a, p) = <<x, y, z, u, w>>
      BY <2>7, Zenon DEF PluginAdd, VrfAdd
    <3>2. /\ x.do = "findVRF" /\ y.do = "saveAddresses" /\ z.do = "LinkSetMaster"
          /\ u.do = "restoreAddresses" /\ w.do = "restoreRoutes"
      BY StepParts, Zenon
    <3> HIDE DEF x, y, z, u, w, p
    <3>3. IsSeq(<<x, y, z, u, w>>) /\ Elems(<<x, y, z, u, w>>) = {x, y, z, u, w}
      BY ShortElems, SMTT(30)
    <3>4. /\ \A e \in {x, y, z} : \A m : <<e.do, m>> \notin AddBad
          /\ \A e \in {u, w} : \A m : <<e.do, m>> \in AddBad => <<"vrf", m>> \in AddBad
          /\ <<u.do, w.do>> \notin AddBad
      BY <3>2 DEF AddBad, GwSteps, Routing, Choosing, MainNames
    <3>5. Ordered(<<x, y, z, u, w>>, AddBad)
      BY <3>4 DEF Ordered
    <3> QED BY <2>7, <3>1, <3>3, <3>4, <3>5, Zenon DEF Sorted, LinkBad, p
  <2>8. CASE p = "vrf" /\ rt[a] = "deleting"
    <3>1. PluginDel(a, p) = <<Do("findVRFToLeave", <<>>)>>
      BY <2>8, Zenon DEF PluginDel, VrfDel
    <3>2. Do("findVRFToLeave", <<>>).do = "findVRFToLeave"
      BY StepParts, Zenon
    <3>3. \A m : <<"findVRFToLeave", m>> \in DelBad => <<p, m>> \in DelBad
      BY <2>8, Zenon DEF DelBad, Leaving
    <3> HIDE DEF p
    <3> QED BY <2>8, <3>1, <3>2, <3>3, <1>SortedOne, Zenon DEF LinkBad, p
  <2>9. CASE p = "sbr" /\ rt[a] = "adding"
    <3> DEFINE x == Do("sbrLock", <<>>)
               w == Do("sbrUnlock", <<>>)
               g == IF c.table = 0 THEN <<Do("sbrList", <<>>)>> ELSE doRoutesWithTable(c, 1)
    <3>1. PluginAdd(a, p) = <<x>> \o g \o <<w>>
      BY <2>9, Zenon DEF PluginAdd, SbrAdd
    <3>2. x.do = "sbrLock" /\ w.do = "sbrUnlock"
      BY StepParts, Zenon
    <3>3. g = <<>> \/ \E e : e.do \in {"sbrList", "RuleAdd"} /\ g = <<e>>
      BY StepParts, SMTT(30) DEF doRoutesWithTable, When
    <3> HIDE DEF x, w, g, p, c
    <3>4. /\ IsSeq(<<x>>) /\ Elems(<<x>>) = {x} /\ IsSeq(<<w>>) /\ Elems(<<w>>) = {w}
          /\ IsSeq(g) /\ \A e \in Elems(g) : e.do \in {"sbrList", "RuleAdd"}
          /\ Ordered(g, AddBad)
      <4>1. ASSUME NEW e, e.do \in {"sbrList", "RuleAdd"}, g = <<e>>
            PROVE  /\ IsSeq(g) /\ \A f \in Elems(g) : f.do \in {"sbrList", "RuleAdd"}
                   /\ Ordered(g, AddBad)
        <5>1. IsSeq(g) /\ Elems(g) = {e}
          BY <4>1, ShortElems, Zenon
        <5>2. Ordered(g, AddBad)
          BY <4>1, OrderParts, Zenon
        <5> QED BY <4>1, <5>1, <5>2, Zenon
      <4>2. CASE g = <<>>
        <5>1. IsSeq(g) /\ Elems(g) = {}
          BY <4>2, ShortElems, Zenon
        <5>2. Ordered(g, AddBad)
          BY <4>2, OrderParts, Zenon
        <5> QED BY <5>1, <5>2, ShortElems, Zenon
      <4>3. IsSeq(<<x>>) /\ Elems(<<x>>) = {x} /\ IsSeq(<<w>>) /\ Elems(<<w>>) = {w}
        BY ShortElems, Zenon
      <4> QED BY <3>3, <4>1, <4>2, <4>3
    <3>5. Ordered(<<x>>, AddBad) /\ Ordered(g, AddBad) /\ Ordered(<<w>>, AddBad)
      BY <3>4, OrderParts, ZenonT(60)
    <3>6. /\ \A m : <<"sbrLock", m>> \notin AddBad
          /\ <<"sbrList", "sbrUnlock">> \notin AddBad /\ <<"RuleAdd", "sbrUnlock">> \notin AddBad
          /\ \A n \in {"sbrList", "RuleAdd", "sbrUnlock"} :
               \A m : <<n, m>> \in AddBad => <<"sbr", m>> \in AddBad
      BY DEF AddBad, GwSteps, Routing, Choosing, MainNames, SbrSteps
    <3> DEFINE s == <<x>> \o g
    <3>7. IsSeq(s) /\ Elems(s) = {x} \cup Elems(g) /\ Ordered(s, AddBad)
      <4> DEFINE r == <<x>>
      <4>1. IsSeq(r) /\ Elems(r) = {x} /\ Ordered(r, AddBad)
        BY <3>4, <3>5, Zenon
      <4> HIDE DEF r
      <4>2. \A e \in Elems(r), f \in Elems(g) : <<e.do, f.do>> \notin AddBad
        BY <3>2, <3>6, <4>1, Zenon
      <4>3. /\ IsSeq(r \o g) /\ Elems(r \o g) = Elems(r) \cup Elems(g)
            /\ Ordered(r \o g, AddBad)
        BY <3>4, <3>5, <4>1, <4>2, <1>OrderConcat, ZenonT(60)
      <4> QED BY <4>1, <4>3, Zenon DEF r
    <3> HIDE DEF s
    <3>8. IsSeq(s \o <<w>>) /\ Elems(s \o <<w>>) = {x, w} \cup Elems(g)
      BY <3>4, <3>7, ConcatElems, SMTT(30)
    <3>9. Ordered(s \o <<w>>, AddBad)
      <4>1. \A e \in Elems(s), f \in Elems(<<w>>) : <<e.do, f.do>> \notin AddBad
        BY <3>2, <3>4, <3>6, <3>7, Zenon
      <4> QED BY <4>1, <3>4, <3>5, <3>7, OrderParts, Zenon
    <3>10. \A e \in {x, w} \cup Elems(g) : \A m : <<e.do, m>> \in AddBad => <<"sbr", m>> \in AddBad
      BY <3>2, <3>4, <3>6, Zenon
    <3> QED BY <2>9, <3>1, <3>8, <3>9, <3>10, Zenon DEF Sorted, LinkBad, s, p
  <2>10. CASE p = "sbr" /\ rt[a] = "deleting"
    <3> DEFINE x == Do("sbrLock", <<>>)
               y == Do("tidyRules", <<>>)
               z == Do("sbrUnlock", <<>>)
    <3>1. PluginDel(a, p) = <<x, y, z>>
      BY <2>10, Zenon DEF PluginDel, SbrDel
    <3>2. x.do = "sbrLock" /\ y.do = "tidyRules" /\ z.do = "sbrUnlock"
      BY StepParts, Zenon
    <3> HIDE DEF x, y, z, p
    <3>3. IsSeq(<<x, y, z>>) /\ Elems(<<x, y, z>>) = {x, y, z}
      BY ShortElems
    <3>4. \A e \in {x, y, z} : \A m : <<e.do, m>> \notin DelBad
      BY <3>2, Zenon DEF DelBad, Leaving
    <3>5. Ordered(<<x, y, z>>, DelBad)
      BY <3>3, <3>4, OrderParts, Zenon
    <3> QED BY <2>10, <3>1, <3>3, <3>4, <3>5, Zenon DEF Sorted, LinkBad, p
  <2> QED BY <2>1, <2>3, <2>4, <2>5, <2>6, <2>7, <2>8, <2>9, <2>10, ZenonT(60)
(* The plugins of a list are in order.                                     *)
<1>OrderStart. ASSUME Mech, NEW a \in Att
      PROVE  Ordered(CmdAdd(a), AddBad) /\ Ordered(CmdDel(a), DelBad)
  <2> USE <1>OrderStart
  <2> DEFINE ch == conf[a].chain
             n == Len(ch)
  <2>1. /\ ch \in Seq(AllPlugins) /\ n \in Nat /\ DOMAIN ch = 1..n
        /\ \A i \in 1..n : ch[i] \in AllPlugins
        /\ \A i, j \in 1..n : ch[i] = ch[j] => i = j
        /\ \A i \in 1..n : ch[i] \in MainPlugins => i = 1
    <3>1. ListOK(ch)
      BY ConfFacts, Zenon DEF ConfOK
    <3>2. ch \in Seq(AllPlugins)
      BY <3>1, Zenon DEF ListOK, AllPlugins
    <3> QED BY <3>1, <3>2 DEF ListOK
  <2>2. \A i \in 1..n : n + 1 - i \in 1..n
    BY <2>1
  <2>3. CmdAdd(a) = [i \in 1..n |-> Do(ch[i], <<>>)]
    BY <2>1, Zenon DEF CmdAdd
  <2>4. CmdDel(a) = [i \in 1..n |-> Do(ch[n + 1 - i], <<>>)]
    BY <2>1, Zenon DEF CmdDel
  <2> HIDE DEF ch, n
  <2>5. ASSUME NEW p \in AllPlugins, NEW q \in AllPlugins
        PROVE  /\ <<p, q>> \in AddBad => q \in MainPlugins \/ p = q
               /\ <<p, q>> \in DelBad => p \in MainPlugins \/ p = q
    BY Zenon
       DEF AllPlugins, MainPlugins, ChainedPlugins, AddBad, DelBad, GwSteps, MainNames, Routing,
       Choosing, SbrSteps, Leaving
  <2>6. ASSUME NEW i \in 1..n, NEW j \in 1..n, i < j
        PROVE  /\ <<ch[i], ch[j]>> \notin AddBad
               /\ <<ch[n + 1 - i], ch[n + 1 - j]>> \notin DelBad
    <3>1. ch[j] \notin MainPlugins /\ ch[i] # ch[j]
      BY <2>1, <2>6, SMTT(30)
    <3>2. n + 1 - i # 1 /\ n + 1 - i # n + 1 - j
      BY <2>1, <2>6
    <3>3. ch[n + 1 - i] \notin MainPlugins /\ ch[n + 1 - i] # ch[n + 1 - j]
      BY <2>1, <2>2, <3>2, Zenon
    <3>4. /\ ch[i] \in AllPlugins /\ ch[j] \in AllPlugins
          /\ ch[n + 1 - i] \in AllPlugins /\ ch[n + 1 - j] \in AllPlugins
      BY <2>1, <2>2, Zenon
    <3> QED BY <2>5, <3>1, <3>3, <3>4, Zenon
  <2>7. /\ DOMAIN CmdAdd(a) = 1..n /\ \A i \in 1..n : CmdAdd(a)[i].do = ch[i]
        /\ DOMAIN CmdDel(a) = 1..n /\ \A i \in 1..n : CmdDel(a)[i].do = ch[n + 1 - i]
    BY <2>3, <2>4, StepParts
  <2>8. Ordered(CmdAdd(a), AddBad)
    BY <2>6, <2>7, Zenon DEF Ordered
  <2>9. Ordered(CmdDel(a), DelBad)
    BY <2>6, <2>7, ZenonT(60) DEF Ordered
  <2> QED BY <2>8, <2>9, ZenonT(60)
<1>1. ASSUME NEW a \in Att, DeviceStep(a) PROVE LinkOrder'
  <2>1. DevSteps \subseteq Free /\ TunSteps \subseteq Free
    BY Zenon DEF Free
  <2> QED BY <1>1, <2>1, DeviceShape, TuningShape, <1>OrderFree, Zenon DEF DeviceStep
<1>2. ASSUME NEW a \in Att, NetfilterStep(a) PROVE LinkOrder'
  <2>1. NfSteps \subseteq Free
    BY Zenon DEF Free
  <2> QED BY <1>2, <2>1, NetfilterShape, <1>OrderFree, Zenon DEF NetfilterStep
<1>3. ASSUME NEW a \in Att, LinkStep(a) PROVE LinkOrder'
  <2>1. BwAddSteps \cup {"TeardownIfb"} \subseteq Free /\ NfSteps \subseteq Free
    BY Zenon DEF Free
  <2> QED BY <1>3, <2>1, BandwidthShape, DelLinkShape, <1>OrderFree, <1>OrderBridge, <1>OrderVrf,
     <1>OrderSbr, Zenon DEF LinkStep
<1>4. ASSUME NEW a \in Att, Invoke(a) PROVE LinkOrder'
  BY <1>4, <1>OrderInvoke, Zenon
<1>5. ASSUME UNCHANGED <<rest, rt>> PROVE LinkOrder'
  BY <1>5, Zenon DEF LinkOrder
<1>6. ASSUME NEW a \in Att, StartAdd(a) \/ StartDel(a) PROVE LinkOrder'
  <2>1. PICK ph \in {"adding", "deleting"} : Started(a, ph)
    BY <1>6, StartSteps, Zenon
  <2>2. Ordered(rest'[a], LinkBad(ph))
    BY <2>1, <1>OrderStart, Zenon DEF Started, LinkBad
  <2> QED BY <2>1, <2>2, Zenon DEF Started, LinkOrder
<1>7. ASSUME NEW a \in Att, Crash(a) PROVE LinkOrder'
  BY <1>7, CrashSteps, Zenon DEF Failed, LinkOrder
<1>8. ASSUME NEW a \in Att, NetnsGone(a) PROVE LinkOrder'
  BY <1>5, <1>8, NetnsGoneSteps, Zenon
<1> QED BY <1>1, <1>2, <1>3, <1>4, <1>5, <1>6, <1>7, <1>8, Zenon DEF Next, vars

(* A step that may not come before another has none of it behind.          *)
LEMMA NotBehind ==
  ASSUME Mech, LinkOrder, NEW a \in Att, rest[a] # <<>>, rt[a] \in {"adding", "deleting"},
         NEW m, <<Head(rest[a]).do, m>> \in LinkBad(rt[a])
  PROVE  \A x \in Behind(a) : x.do # m
BY OrderParts, Zenon DEF LinkOrder, Mech, Behind

-----------------------------------------------------------------------------
(* What a step does to the commands as far as these steps matter: nothing, *)
(* but for the commands that fail.                                         *)

Adds(a) == rt[a] \in {"adding", "attached"}
Removes(a) == rt[a] \in {"deleting", "detached"}

Kept(steps) ==
  \A b \in Att : rt'[b] \in Ended =>
    /\ \A x : x.do \in steps => (x \in Left(b)' <=> x \in Left(b))
    /\ (Adds(b)' <=> Adds(b)) /\ (Removes(b)' <=> Removes(b))

(* The first step of a command gives way to others.                        *)
Went(a, s) ==
  /\ \A b \in Att : (Adds(b)' <=> Adds(b)) /\ (Removes(b)' <=> Removes(b))
  /\ \A b \in Att \ {a} : Left(b)' = Left(b)
  /\ Left(a) = {Head(rest[a])} \cup Behind(a) /\ Left(a)' = Elems(s) \cup Behind(a)

(* A command that fails or is killed is none that matters.                 *)
LEMMA FailKept ==
  ASSUME Mech, NEW a \in Att, Failed(a), NEW steps
  PROVE  Kept(steps)
BY Zenon DEF Failed, Kept, Adds, Removes

(* Nor do steps of another kind.                                           *)
LEMMA Foreign ==
  ASSUME Mech, NEW a \in Att, NEW own, Shape(a, own), NEW steps,
         Head(rest[a]).do \notin steps, own \cap steps = {}
  PROVE  Kept(steps)
<1>1. CASE Idled
  BY <1>1, Zenon DEF Idled, Kept, Left, Adds, Removes
<1>2. CASE Fail(a)
  BY <1>2, FailedSteps, FailKept, Zenon DEF Shape
<1>3. ASSUME NEW s, Prog(rt[a], a, s, own), Push(a, s) PROVE Kept(steps)
  <2>1. Did(a, s) /\ rt[a] \in DOMAIN Final /\ \A x \in Elems(s) : x.do \notin steps
    BY <1>3, Pushed, Zenon DEF Shape, Prog, Mech, Phases
  <2>2. \A x : x.do \in steps => (x \in Left(a)' <=> x \in Left(a))
    BY <2>1, Zenon DEF Did
  <2>3. rt'[a] \in Ended => (Adds(a)' <=> Adds(a)) /\ (Removes(a)' <=> Removes(a))
    BY <2>1, FinalIs, Zenon DEF Did, Ended, Adds, Removes
  <2> QED BY <2>1, <2>2, <2>3, Zenon DEF Did, Kept, Adds, Removes
<1> QED BY <1>1, <1>2, <1>3, Zenon DEF Shape

(* A command that goes on is still of its kind.                            *)
LEMMA Going ==
  ASSUME Mech, NEW a \in Att, rest[a] # <<>>, rt[a] \in {"adding", "deleting"}, NEW s,
         IsSeq(s), Push(a, s)
  PROVE  Went(a, s)
<1>1. Did(a, s)
  BY Pushed, Zenon
<1>2. (Adds(a)' <=> Adds(a)) /\ (Removes(a)' <=> Removes(a))
  BY <1>1, FinalIs, Zenon DEF Did, Adds, Removes
<1> QED BY <1>1, <1>2, Zenon DEF Did, Went, Adds, Removes

(* The names of the steps of the plugins.                                  *)
LEMMA StepNames ==
  ASSUME NEW a
  PROVE  /\ HostDeviceStep(a) => rest[a] # <<>> /\ Head(rest[a]).do \in DevSteps
         /\ TuningStep(a) => rest[a] # <<>> /\ Head(rest[a]).do \in TunSteps
         /\ IptablesStep(a) \/ PortmapStep(a) \/ FirewallStep(a) \/ IPMasqStep(a) =>
              rest[a] # <<>> /\ Head(rest[a]).do \in NfSteps
         /\ SetupVeth(a) \/ DelLink(a) \/ BridgeStep(a) =>
              rest[a] # <<>> /\ Head(rest[a]).do \in VethSteps \cup BridgeSteps
         /\ BandwidthStep(a) =>
              rest[a] # <<>> /\ Head(rest[a]).do \in BwAddSteps \cup {"TeardownIfb"}
         /\ VrfStep(a) => rest[a] # <<>> /\ Head(rest[a]).do \in VrfAddSteps \cup VrfDelSteps
         /\ SbrStep(a) => rest[a] # <<>> /\ Head(rest[a]).do \in SbrSteps
<1>1. HostDeviceStep(a) => rest[a] # <<>> /\ Head(rest[a]).do \in DevSteps
  BY Zenon DEF HostDeviceStep, getLink, TempNetNS, LinkSetNsFd, LinkSetName, LinkSetAlias, Find,
     FindAgain, FindToReturn, LinkSetUp, Close, DevCheck, DevGetNS, DevExecAdd, DevExecDel,
     DevConfigureIface, At, DevSteps
<1>2. TuningStep(a) => rest[a] # <<>> /\ Head(rest[a]).do \in TunSteps
  BY Zenon DEF TuningStep, validateSysctlConf, WriteSysctl, createBackup, change, readBackup,
     restore, removeBackup, At, TunSteps
<1>3. IptablesStep(a) => rest[a] # <<>> /\ Head(rest[a]).do \in NfSteps
  BY Zenon DEF IptablesStep, EnsureChainStep, Exists, Insert, ChainExists, TryDeleteChain,
     FindReferences, DeleteEachStep, ClearAndDeleteChain, DeleteRule, TryDeleteRule, At, NfSteps
<1>4. PortmapStep(a) \/ FirewallStep(a) \/ IPMasqStep(a) =>
        rest[a] # <<>> /\ Head(rest[a]).do \in NfSteps
  BY Zenon
     DEF PortmapStep, maybeGetIptables, enableLocalnetRouting, forwardPortsNft, listRulesNft,
     unforwardPortsNft, FirewallStep, addSource, removeSource, IPMasqStep, NewMasqChain,
     ClearMasqChain, DeleteMasqChain, setupIPMasqNft, teardownIPMasqNft, At, NfSteps
<1>5. SetupVeth(a) \/ DelLink(a) \/ BridgeStep(a) =>
        rest[a] # <<>> /\ Head(rest[a]).do \in VethSteps \cup BridgeSteps
  BY Zenon
     DEF SetupVeth, DelLink, DelLinkByName, BridgeStep, ensureBridge, PortOfBridge,
     ensureVlanInterface, AddrList, ensureAddr, LinkSetHardwareAddr, enableIPForward, PortUp, At, VethSteps, BridgeSteps, GwSteps
<1>6. BandwidthStep(a) => rest[a] # <<>> /\ Head(rest[a]).do \in BwAddSteps \cup {"TeardownIfb"}
  BY Zenon DEF BandwidthStep, getHostInterface, CreateIngressQdisc, CreateIfb, AddIngressQdisc,
     FilterAdd, createTBF, TeardownIfb, At, BwAddSteps
<1>7. VrfStep(a) => rest[a] # <<>> /\ Head(rest[a]).do \in VrfAddSteps \cup VrfDelSteps
  BY Zenon DEF VrfStep, findOrCreate, createVRF, LinkSetUpVRF, saveAddresses, LinkSetMaster,
     restoreAddresses, restoreRoutes, findVRFToLeave, resetMaster, LinkDelVRF, At, VrfAddSteps,
     VrfDelSteps
<1>8. SbrStep(a) => rest[a] # <<>> /\ Head(rest[a]).do \in SbrSteps
  BY Zenon DEF SbrStep, sbrLock, sbrUnlock, sbrList, RuleAdd, RouteAdd, copyRoutes, RouteDel,
     tidyRules, At, SbrSteps, Choosing
<1> QED BY <1>1, <1>2, <1>3, <1>4, <1>5, <1>6, <1>7, <1>8, Zenon

(* The steps of a plugin do not touch the steps of others.                 *)
LEMMA PluginKept ==
  ASSUME Mech, NEW a \in Att, NEW steps
  PROVE  /\ DeviceStep(a) /\ (DevSteps \cup TunSteps) \cap steps = {} => Kept(steps)
         /\ NetfilterStep(a) /\ NfSteps \cap steps = {} => Kept(steps)
         /\ SetupVeth(a) \/ BridgeStep(a) =>
              ((VethSteps \cup BridgeSteps) \cap steps = {} => Kept(steps))
         /\ DelLink(a) /\ (VethSteps \cup NfSteps) \cap steps = {} => Kept(steps)
         /\ BandwidthStep(a) /\ (BwAddSteps \cup {"TeardownIfb"}) \cap steps = {} => Kept(steps)
         /\ VrfStep(a) /\ (VrfAddSteps \cup VrfDelSteps) \cap steps = {} => Kept(steps)
         /\ SbrStep(a) /\ SbrSteps \cap steps = {} => Kept(steps)
         /\ Invoke(a) /\ Head(rest[a]).do \notin steps
              /\ StepsOf(Head(rest[a]).do) \cap steps = {} => Kept(steps)
<1>1. DeviceStep(a) /\ (DevSteps \cup TunSteps) \cap steps = {} => Kept(steps)
  BY DeviceShape, TuningShape, StepNames, Foreign, Zenon DEF DeviceStep
<1>2. NetfilterStep(a) /\ NfSteps \cap steps = {} => Kept(steps)
  BY NetfilterShape, StepNames, Foreign, Zenon DEF NetfilterStep
<1>3. SetupVeth(a) \/ BridgeStep(a) =>
        ((VethSteps \cup BridgeSteps) \cap steps = {} => Kept(steps))
  BY BridgeShape, StepNames, Foreign, Zenon
<1>8. DelLink(a) /\ (VethSteps \cup NfSteps) \cap steps = {} => Kept(steps)
  BY DelLinkShape, Foreign, Zenon DEF VethSteps
<1>4. BandwidthStep(a) /\ (BwAddSteps \cup {"TeardownIfb"}) \cap steps = {} => Kept(steps)
  BY BandwidthShape, StepNames, Foreign, Zenon
<1>5. VrfStep(a) /\ (VrfAddSteps \cup VrfDelSteps) \cap steps = {} => Kept(steps)
  BY VrfShape, StepNames, Foreign, Zenon
<1>6. SbrStep(a) /\ SbrSteps \cap steps = {} => Kept(steps)
  BY SbrShape, StepNames, Foreign, Zenon
<1>7. Invoke(a) /\ Head(rest[a]).do \notin steps
        /\ StepsOf(Head(rest[a]).do) \cap steps = {} => Kept(steps)
  BY InvokeShape, Foreign, Zenon
<1> QED BY <1>1, <1>2, <1>3, <1>4, <1>5, <1>6, <1>7, <1>8, Zenon

-----------------------------------------------------------------------------
(* What is there of an interface, by the steps that are left.  A command   *)
(* that is done has none left, so that what holds of an attachment that is *)
(* being added holds of one that is attached.                              *)

Linked(a) == Plugins(a) \cap {"veth", "bridge"} # {}

VethInv ==
  /\ veth \subseteq Att /\ v6 \subseteq veth /\ main \subseteq veth
  /\ \A a \in Att :
       /\ a \in veth => ns[a] /\ Linked(a)
       /\ Adds(a) /\ ns[a] /\ Linked(a) => a \in veth \/ Due(a, MainNames)
       /\ Removes(a) => a \notin veth \/ Due(a, {"veth", "bridge", "DelLinkByName"})


-----------------------------------------------------------------------------
(* The steps of the plugins of interfaces.                                 *)
LEMMA LinkPrograms ==
  ASSUME NEW a \in Att
  PROVE  /\ Elems(PluginAdd(a, "veth")) = {Do("SetupVeth", <<>>)}
         /\ Elems(PluginAdd(a, "bridge")) =
              {Do("ensureBridge", <<>>), Do("SetupVeth", <<>>), Do("PortOfBridge", <<>>),
               Do("PortUp", <<>>)} \cup Elems(BridgeGateways(conf[a], 1))
         /\ \A p \in {"veth", "bridge"} : Elems(PluginDel(a, p)) = {Do("DelLinkByName", <<>>)}
         /\ Elems(PluginAdd(a, "vrf")) =
              {Do("findVRF", <<>>), Do("saveAddresses", <<>>), Do("LinkSetMaster", <<>>),
               Do("restoreAddresses", <<>>), Do("restoreRoutes", <<>>)}
         /\ Elems(PluginDel(a, "vrf")) = {Do("findVRFToLeave", <<>>)}
         /\ Elems(PluginAdd(a, "sbr")) =
              {Do("sbrLock", <<>>), Do("sbrUnlock", <<>>)}
                \cup (IF conf[a].table = 0 THEN {Do("sbrList", <<>>)}
                      ELSE Elems(doRoutesWithTable(conf[a], 1)))
         /\ Elems(PluginDel(a, "sbr")) =
              {Do("sbrLock", <<>>), Do("tidyRules", <<>>), Do("sbrUnlock", <<>>)}
<1> DEFINE c == conf[a]
<1>1. Elems(PluginAdd(a, "veth")) = {Do("SetupVeth", <<>>)}
  <2>1. PluginAdd(a, "veth") = <<Do("SetupVeth", <<>>)>>
    BY Zenon DEF PluginAdd, VethAdd
  <2> QED BY <2>1, ShortElems, Zenon
<1>2. Elems(PluginAdd(a, "bridge")) =
        {Do("ensureBridge", <<>>), Do("SetupVeth", <<>>), Do("PortOfBridge", <<>>),
         Do("PortUp", <<>>)} \cup Elems(BridgeGateways(c, 1))
  <2> DEFINE x == Do("ensureBridge", <<>>)
             y == Do("SetupVeth", <<>>)
             z == Do("PortOfBridge", <<>>)
             w == Do("PortUp", <<>>)
             g == BridgeGateways(c, 1)
             u == <<x, y, z>>
             v == <<w>>
             e == Step(IF c.vlan # 0 THEN "FindVlan" ELSE "AddrList", 1, <<>>)
  <2>1. PluginAdd(a, "bridge") = (u \o g) \o v
    BY Zenon DEF PluginAdd, BridgeAdd
  <2>2. g = <<>> \/ g = <<e>>
    BY Zenon DEF BridgeGateways, When
  <2> HIDE DEF x, y, z, w, g, e, c
  <2>3. IsSeq(u) /\ Elems(u) = {x, y, z} /\ IsSeq(v) /\ Elems(v) = {w}
    BY ShortElems
  <2>4. IsSeq(g)
    BY <2>2, ShortElems, Zenon
  <2> HIDE DEF u, v
  <2>5. IsSeq(u \o g) /\ Elems(u \o g) = {x, y, z} \cup Elems(g)
    BY <2>3, <2>4, ConcatElems, SMTT(30)
  <2>6. Elems((u \o g) \o v) = {x, y, z} \cup Elems(g) \cup {w}
    BY <2>3, <2>5, ConcatElems
  <2> QED BY <2>1, <2>6, Zenon DEF x, y, z, w, g
<1>3. ASSUME NEW p \in {"veth", "bridge"} PROVE Elems(PluginDel(a, p)) = {Do("DelLinkByName", <<>>)}
  <2>1. PluginDel(a, p) = <<Do("DelLinkByName", <<>>)>>
    BY Zenon DEF PluginDel, VethDel
  <2> QED BY <2>1, ShortElems, Zenon
<1>4. /\ Elems(PluginAdd(a, "vrf")) =
           {Do("findVRF", <<>>), Do("saveAddresses", <<>>), Do("LinkSetMaster", <<>>),
            Do("restoreAddresses", <<>>), Do("restoreRoutes", <<>>)}
      /\ Elems(PluginDel(a, "vrf")) = {Do("findVRFToLeave", <<>>)}
  <2>1. /\ PluginAdd(a, "vrf") = VrfAdd /\ PluginDel(a, "vrf") = <<Do("findVRFToLeave", <<>>)>>
    BY Zenon DEF PluginAdd, PluginDel, VrfDel
  <2>2. Elems(PluginDel(a, "vrf")) = {Do("findVRFToLeave", <<>>)}
    BY <2>1, ShortElems, Zenon
  <2>3. Elems(VrfAdd) =
          {Do("findVRF", <<>>), Do("saveAddresses", <<>>), Do("LinkSetMaster", <<>>),
           Do("restoreAddresses", <<>>), Do("restoreRoutes", <<>>)}
    <3> DEFINE u == Do("findVRF", <<>>)
               v == Do("saveAddresses", <<>>)
               w == Do("LinkSetMaster", <<>>)
               x == Do("restoreAddresses", <<>>)
               y == Do("restoreRoutes", <<>>)
    <3>1. VrfAdd = <<u, v, w, x, y>>
      BY Zenon DEF VrfAdd
    <3> HIDE DEF u, v, w, x, y
    <3>2. Elems(<<u, v, w, x, y>>) = {u, v, w, x, y}
      BY ShortElems
    <3> QED BY <3>1, <3>2, Zenon DEF u, v, w, x, y
  <2> QED BY <2>1, <2>2, <2>3, Zenon
<1>5. Elems(PluginAdd(a, "sbr")) =
        {Do("sbrLock", <<>>), Do("sbrUnlock", <<>>)}
          \cup (IF c.table = 0 THEN {Do("sbrList", <<>>)} ELSE Elems(doRoutesWithTable(c, 1)))
  <2> DEFINE x == Do("sbrLock", <<>>)
             w == Do("sbrUnlock", <<>>)
             l == Do("sbrList", <<>>)
             m == <<l>>
             e == Step("RuleAdd", 1, <<>>)
             d == doRoutesWithTable(c, 1)
             g == IF c.table = 0 THEN m ELSE d
             u == <<x>>
             v == <<w>>
  <2>1. PluginAdd(a, "sbr") = (u \o g) \o v
    BY Zenon DEF PluginAdd, SbrAdd
  <2>2. d = <<>> \/ d = <<e>>
    BY Zenon DEF doRoutesWithTable, When
  <2> HIDE DEF x, w, l, d, e, c
  <2>3. /\ IsSeq(u) /\ Elems(u) = {x} /\ IsSeq(v) /\ Elems(v) = {w}
        /\ IsSeq(m) /\ Elems(m) = {l}
    BY ShortElems, Zenon
  <2>4. IsSeq(d)
    BY <2>2, ShortElems, Zenon
  <2> HIDE DEF u, v, m
  <2>5. IsSeq(g) /\ Elems(g) = (IF c.table = 0 THEN {l} ELSE Elems(d))
    BY <2>3, <2>4, Zenon
  <2> HIDE DEF g
  <2>6. IsSeq(u \o g) /\ Elems(u \o g) = {x} \cup Elems(g)
    BY <2>3, <2>5, ConcatElems, SMTT(30)
  <2>7. Elems((u \o g) \o v) = {x} \cup Elems(g) \cup {w}
    BY <2>3, <2>6, ConcatElems, SMTT(30)
  <2>8. Elems(PluginAdd(a, "sbr")) = {x, w} \cup (IF c.table = 0 THEN {l} ELSE Elems(d))
    BY <2>1, <2>5, <2>7, Zenon
  <2> QED BY <2>8, Zenon DEF x, w, l, d, c
<1>6. Elems(PluginDel(a, "sbr")) =
        {Do("sbrLock", <<>>), Do("tidyRules", <<>>), Do("sbrUnlock", <<>>)}
  <2> DEFINE u == Do("sbrLock", <<>>)
             v == Do("tidyRules", <<>>)
             w == Do("sbrUnlock", <<>>)
  <2>1. PluginDel(a, "sbr") = <<u, v, w>>
    BY Zenon DEF PluginDel, SbrDel
  <2> HIDE DEF u, v, w
  <2>2. Elems(<<u, v, w>>) = {u, v, w}
    BY ShortElems
  <2> QED BY <2>1, <2>2, Zenon DEF u, v, w
<1> QED BY <1>1, <1>2, <1>3, <1>4, <1>5, <1>6, Zenon

(* A plugin that is run goes on with its own steps.                        *)
LEMMA Invoked ==
  ASSUME Mech, NEW a \in Att, Invoke(a), NEW s,
         s = IF rt[a] = "adding" THEN PluginAdd(a, Head(rest[a]).do)
                                 ELSE PluginDel(a, Head(rest[a]).do)
  PROVE  /\ rest[a] # <<>> /\ rt[a] \in {"adding", "deleting"} /\ Uses(a, Head(rest[a]).do)
         /\ Head(rest[a]).do \in AllPlugins /\ Went(a, s)
         /\ UNCHANGED <<conf, ns, vethVars, bridgeVars, tcVars, vrfVars, sbrVars>>
<1>1. /\ rest[a] # <<>> /\ Uses(a, Head(rest[a]).do) /\ Push(a, s)
      /\ UNCHANGED <<conf, ns, vethVars, bridgeVars, tcVars, vrfVars, sbrVars>>
  BY Zenon DEF Invoke, linkVars
<1>2. rt[a] \in {"adding", "deleting"} /\ Head(rest[a]).do \in AllPlugins
  BY InvokeShape, Zenon DEF Call
<1>3. IsSeq(s)
  BY <1>1, PluginProgs, Zenon DEF Prog
<1> QED BY <1>1, <1>2, <1>3, Going, Zenon

(* Steps of other kinds do not matter.                                     *)
LEMMA WentKept ==
  ASSUME Mech, NEW a \in Att, NEW s, Went(a, s), NEW steps, Head(rest[a]).do \notin steps,
         \A x \in Elems(s) : x.do \notin steps
  PROVE  Kept(steps)
BY Zenon DEF Went, Kept

(* A command that starts has its plugins to run.                           *)
LEMMA StartedDue ==
  ASSUME Mech, NEW a \in Att, NEW ph, Started(a, ph)
  PROVE  /\ \A p \in Plugins(a) : \E x \in Left(a)' : x.do = p
         /\ \A x \in Left(a)' : x.do \in Plugins(a) /\ x.do \in AllPlugins
         /\ \A b \in Att \ {a} : Left(b)' = Left(b) /\ rt'[b] = rt[b]
<1>1. \A p : Do(p, <<>>).do = p
  BY StepParts, Zenon
<1>2. Plugins(a) \subseteq AllPlugins
  BY ConfFacts, Zenon
<1> QED BY <1>1, <1>2 DEF Started, Left

(* A successful or failed step that no others follow.                      *)
LEMMA PlainKept ==
  ASSUME Mech, NEW a \in Att, rest[a] # <<>>, Succeed(a) \/ Fail(a) \/ Idled, NEW steps,
         Head(rest[a]).do \notin steps
  PROVE  Kept(steps)
<1>1. Shape(a, {})
  BY SucceedShape, Zenon
<1> QED BY <1>1, Foreign

(* A step that succeeds is gone.                                           *)
LEMMA Succeeded ==
  ASSUME Mech, NEW a \in Att, rest[a] # <<>>, rt[a] \in {"adding", "deleting"}, Succeed(a)
  PROVE  Went(a, <<>>) /\ Left(a)' = Behind(a)
<1>1. Push(a, <<>>) /\ IsSeq(<<>>) /\ Elems(<<>>) = {}
  BY SucceedPush, ShortElems, Zenon
<1>2. Went(a, <<>>)
  BY <1>1, Going, Zenon
<1> QED BY <1>1, <1>2, Zenon DEF Went

(* Steps that change no program change none of it.                         *)
LEMMA IdleKept ==
  ASSUME Idled, NEW steps
  PROVE  Kept(steps)
BY Zenon DEF Idled, Kept, Left, Adds, Removes

(* What is known at the step of a gateway.                                 *)
LEMMA AtGateway ==
  ASSUME Mech, NEW a \in Att, rest[a] # <<>>, Head(rest[a]).do \in GwSteps
  PROVE  /\ Head(rest[a]) \in Left(a) /\ rt[a] = "adding" /\ Uses(a, "bridge") /\ Adds(a)
         /\ Len(conf[a].gws) \in Nat /\ DOMAIN conf[a].gws = 1..Len(conf[a].gws)
         /\ Arg(a) \in DOMAIN conf[a].gws /\ Head(rest[a]).arg = Arg(a)
         /\ \A s : IsSeq(s) /\ Push(a, s) => Went(a, s)
<1> DEFINE h == Head(rest[a])
<1>1. h \in Left(a)
  BY HeadFacts, Zenon
<1>2. BridgeWord(rt[a], a, h)
  BY <1>1, WordIs, Zenon DEF BridgeSteps
<1>3. OptionsOK("bridge", conf[a])
  BY <1>2, ConfFacts, Zenon DEF BridgeWord, Uses
<1>4. Len(conf[a].gws) \in Nat /\ DOMAIN conf[a].gws = 1..Len(conf[a].gws)
  BY <1>3 DEF OptionsOK
<1>5. \A s : IsSeq(s) /\ Push(a, s) => Went(a, s)
  BY <1>2, Going, Zenon DEF BridgeWord
<1> QED BY <1>1, <1>2, <1>4, <1>5, Zenon DEF BridgeWord, Adds, Arg

-----------------------------------------------------------------------------
(* The lists of these plugins make an interface.                           *)
LEMMA UsesLinked ==
  ASSUME Mech, NEW a \in Att, NEW p \in {"bandwidth", "vrf", "sbr"}, Uses(a, p)
  PROVE  Linked(a)
<1>1. ListOK(conf[a].chain)
  BY ConfFacts, Zenon DEF ConfOK
<1>2. PICK i \in DOMAIN conf[a].chain : conf[a].chain[i] = p
  BY ZenonT(60) DEF Uses, Plugins
<1>3. conf[a].chain[1] \in {"veth", "bridge"} /\ 1 \in DOMAIN conf[a].chain
  BY <1>1, <1>2 DEF ListOK
<1> QED BY <1>3, Zenon DEF Linked, Plugins

(* An interface is there when its list has come past its main plugin.      *)
LEMMA HasInterface ==
  ASSUME Mech, LinkOrder, VethInv, NEW a \in Att, rest[a] # <<>>, rt[a] = "adding", Linked(a),
         Head(rest[a]).do \notin MainNames, {Head(rest[a]).do} \X MainNames \subseteq AddBad
  PROVE  a \in veth /\ ~Due(a, MainNames)
<1>1. \A x \in Behind(a) : x.do \notin MainNames
  <2>1. \A m \in MainNames : <<Head(rest[a]).do, m>> \in LinkBad(rt[a])
    BY Zenon DEF LinkBad
  <2> QED BY <2>1, NotBehind, Zenon
<1>2. ~Due(a, MainNames)
  BY <1>1, HeadFacts, Zenon DEF Due
<1>3. Adds(a) /\ ns[a]
  BY Zenon DEF Adds, Mech
<1> QED BY <1>2, <1>3, Zenon DEF VethInv

(* What the plugins of VRFs and of routes do to interfaces.                *)
LEMMA VethRest ==
  ASSUME Mech, LinkOrder, VethInv, NEW a \in Att, VrfStep(a) \/ SbrStep(a)
  PROVE  veth' = veth /\ v6' \subseteq veth /\ main' \subseteq veth
<1>1. veth' = veth /\ main' \subseteq main /\ (v6' \subseteq v6 \/ (restoreAddresses(a) /\ v6' = v6 \cup {a}))
  <2>1. CASE VrfStep(a)
    BY <2>1, Zenon
       DEF VrfStep, findOrCreate, createVRF, LinkSetUpVRF, saveAddresses, LinkSetMaster,
       restoreAddresses, restoreRoutes, findVRFToLeave, resetMaster, LinkDelVRF, VrfFail, vethVars
  <2>2. CASE SbrStep(a)
    BY <2>2, Zenon
       DEF SbrStep, sbrLock, sbrUnlock, sbrList, RuleAdd, RouteAdd, copyRoutes, RouteDel,
       tidyRules, SbrFail, vethVars
  <2> QED BY <2>1, <2>2, Zenon
<1>2. ASSUME restoreAddresses(a) PROVE a \in veth
  <2>1. rest[a] # <<>> /\ Head(rest[a]).do = "restoreAddresses"
    BY <1>2, Zenon DEF restoreAddresses, At
  <2>2. VrfWord(rt[a], a, Head(rest[a]))
    BY <2>1, HeadFacts, WordIs, Zenon DEF VrfAddSteps
  <2>3. rt[a] = "adding" /\ Linked(a)
    BY <2>1, <2>2, UsesLinked, Zenon DEF VrfWord, VrfDelSteps
  <2>4. Head(rest[a]).do \notin MainNames /\ {Head(rest[a]).do} \X MainNames \subseteq AddBad
    BY <2>1, Zenon DEF MainNames, AddBad
  <2> QED BY <2>1, <2>3, <2>4, HasInterface, Zenon
<1> QED BY <1>1, <1>2, Zenon DEF VethInv

(* A step of the bridge plugin adds none but the bridge plugin's own.      *)
LEMMA BridgePlain ==
  ASSUME Mech, NEW a \in Att, BridgeStep(a),
         NEW steps, BridgeSteps \cap steps = {}
  PROVE Kept(steps)
<1>a. /\ GwSteps \cap steps = {}
      /\ {"ensureBridge", "PortOfBridge", "PortUp"} \cap steps = {}
  BY Zenon DEF BridgeSteps
<1>1. CASE ensureBridge(a) \/ PortOfBridge(a) \/ PortUp(a)
  <2>1. /\ rest[a] # <<>> /\ Head(rest[a]).do \in {"ensureBridge", "PortOfBridge", "PortUp"}
        /\ Succeed(a) \/ Fail(a)
    BY <1>1, Zenon DEF ensureBridge, PortOfBridge, PortUp, At
  <2>2. Kept(steps)
    BY <1>a, <2>1, PlainKept, Zenon
  <2> QED BY <2>2, Zenon
<1>2. CASE \/ ensureVlanInterface(a) \/ AddrList(a) \/ ensureAddr(a)
           \/ LinkSetHardwareAddr(a) \/ enableIPForward(a)
  <2>1. rest[a] # <<>> /\ Head(rest[a]).do \in GwSteps
    BY <1>2, Zenon DEF ensureVlanInterface, AddrList, ensureAddr, LinkSetHardwareAddr,
       enableIPForward, At, GwSteps
  <2>2. Head(rest[a]).do \notin steps
    BY <1>a, <2>1, Zenon
  <2>3. PICK k : k = Arg(a)
    BY Zenon
  <2>4. /\ k \in DOMAIN conf[a].gws /\ DOMAIN conf[a].gws = 1..Len(conf[a].gws)
        /\ Len(conf[a].gws) \in Nat /\ Uses(a, "bridge")
    BY <2>1, <2>3, AtGateway, Zenon
  <2>5. ASSUME NEW n \in GwSteps, NEW i, Push(a, <<Step(n, i, <<>>)>>) PROVE Kept(steps)
    <3>1. PICK x : x = Step(n, i, <<>>)
      BY Zenon
    <3>2. IsSeq(<<x>>) /\ Elems(<<x>>) = {x} /\ x.do = n
      BY <3>1, ShortElems, StepParts, Zenon
    <3>3. Went(a, <<x>>)
      BY <2>1, <2>5, <3>1, <3>2, AtGateway, Zenon
    <3>4. n \notin steps
      BY <1>a, Zenon
    <3> QED BY <2>2, <3>2, <3>3, <3>4, WentKept, Zenon
  <2>6. ASSUME Push(a, <<>>) PROVE Kept(steps)
    <3>1. IsSeq(<<>>) /\ Elems(<<>>) = {}
      BY ShortElems, Zenon
    <3>2. Went(a, <<>>)
      BY <2>1, <2>6, <3>1, AtGateway, Zenon
    <3> QED BY <2>2, <3>1, <3>2, WentKept, Zenon
  <2>7. \/ Fail(a) \/ Idled
        \/ \E n \in {"VlanVeth", "VlanPort", "AddrList", "ensureAddr", "LinkSetHardwareAddr"} :
             Push(a, <<Step(n, k, <<>>)>>)
        \/ Push(a, AfterGateway(conf[a], k)) \/ Push(a, BridgeGateways(conf[a], k + 1))
    BY <1>2, <2>3, Zenon DEF ensureVlanInterface, AddrList, ensureAddr, LinkSetHardwareAddr,
       enableIPForward, Idled
  <2>8. \A j : \/ BridgeGateways(conf[a], j) = <<>>
               \/ \E n \in {"FindVlan", "AddrList"} :
                    BridgeGateways(conf[a], j) = <<Step(n, j, <<>>)>>
    BY Zenon DEF BridgeGateways, When
  <2>9. \/ AfterGateway(conf[a], k) = <<Step("enableIPForward", k, <<>>)>>
        \/ AfterGateway(conf[a], k) = BridgeGateways(conf[a], k + 1)
    BY Zenon DEF AfterGateway
  <2>10. \/ Fail(a) \/ Idled \/ Push(a, <<>>)
         \/ \E n \in GwSteps : \E i : Push(a, <<Step(n, i, <<>>)>>)
    <3>1. {"FindVlan", "AddrList", "VlanVeth", "VlanPort", "ensureAddr", "LinkSetHardwareAddr",
           "enableIPForward"} = GwSteps
      BY Zenon DEF GwSteps
    <3>2. Push(a, BridgeGateways(conf[a], k + 1)) =>
            Push(a, <<>>) \/ \E n \in {"FindVlan", "AddrList"} : Push(a, <<Step(n, k + 1, <<>>)>>)
      BY <2>8, Zenon
    <3> QED BY <2>7, <2>9, <3>1, <3>2, Zenon
  <2>11. Kept(steps)
    BY <2>1, <2>2, <2>5, <2>6, <2>10, PlainKept, ZenonT(60)
  <2> QED BY <2>11, Zenon
<1> QED BY <1>1, <1>2, Zenon DEF BridgeStep

(* Steps keep what is known of the interfaces.                             *)
LEMMA VethNext ==
  ASSUME Mech, LinkOrder, VethInv, [Next]_vars
  PROVE  VethInv'
(* Where only other steps are done the interfaces stay.                    *)
<1>VethKept. ASSUME VethInv, Kept(MainNames \cup {"DelLinkByName"}), UNCHANGED <<conf, ns, veth>>,
             v6' \subseteq veth', main' \subseteq veth'
      PROVE  VethInv'
  <2> USE <1>VethKept
  <2>1. ASSUME NEW a \in Att
        PROVE  /\ a \in veth' => ns'[a] /\ Linked(a)'
               /\ Adds(a)' /\ ns'[a] /\ Linked(a)' => a \in veth' \/ Due(a, MainNames)'
               /\ Removes(a)' => a \notin veth' \/ Due(a, {"veth", "bridge", "DelLinkByName"})'
    <3>1. (Linked(a)' <=> Linked(a)) /\ ns'[a] = ns[a]
      BY Zenon DEF Linked, Plugins
    <3>2. (Adds(a)' => rt'[a] \in Ended) /\ (Removes(a)' => rt'[a] \in Ended)
      BY Zenon DEF Adds, Removes, Ended
    <3>3. Adds(a)' => Adds(a) /\ (Due(a, MainNames) => Due(a, MainNames)')
      BY <3>2, Zenon DEF Kept, Due
    <3>4. LET S == {"veth", "bridge", "DelLinkByName"}
          IN Removes(a)' => Removes(a) /\ (Due(a, S) => Due(a, S)')
      BY <3>2, Zenon DEF Kept, Due, MainNames
    <3> QED BY <3>1, <3>3, <3>4, Zenon DEF VethInv
  <2> QED BY <2>1, Zenon DEF VethInv
(* The steps that make and delete an interface.                            *)
<1>VethActs. ASSUME Mech, VethInv, NEW a \in Att, SetupVeth(a) \/ DelLink(a), UNCHANGED <<conf, ns>>
      PROVE  VethInv'
  <2> USE <1>VethActs
  <2>1. /\ rest[a] # <<>> /\ Head(rest[a]).do \in VethSteps
        /\ Fail(a) \/ \E s : IsSeq(s) /\ Push(a, s)
    <3>1. CASE SetupVeth(a)
      <4>1. rest[a] # <<>> /\ Head(rest[a]).do = "SetupVeth" /\ (Fail(a) \/ Succeed(a))
        BY <3>1, Zenon DEF SetupVeth, At
      <4>2. Succeed(a) => Push(a, <<>>) /\ IsSeq(<<>>)
        BY <4>1, SucceedPush, ShortElems, Zenon
      <4> QED BY <4>1, <4>2, Zenon DEF VethSteps
    <3>2. CASE DelLink(a)
      BY <3>2, DelLinkShape, Zenon DEF VethSteps, Prog
    <3> QED BY <3>1, <3>2, Zenon
  <2>2. VethWord(rt[a], a, Head(rest[a]))
    BY <2>1, HeadFacts, WordIs, Zenon
  <2>3. CASE Fail(a) /\ UNCHANGED vethVars
    <3>1. Kept(MainNames \cup {"DelLinkByName"})
      BY <2>1, <2>3, FailedSteps, FailKept, Zenon
    <3>2. UNCHANGED <<veth, v6, main>>
      BY <2>3, Zenon DEF vethVars
    <3> QED BY <3>1, <3>2, <1>VethKept, Zenon DEF VethInv
  <2>4. ASSUME NEW s, IsSeq(s), Push(a, s), NEW b \in Att \ {a}, b \in veth' <=> b \in veth
        PROVE  /\ b \in veth' => ns'[b] /\ Linked(b)'
               /\ Adds(b)' /\ ns'[b] /\ Linked(b)' => b \in veth' \/ Due(b, MainNames)'
               /\ Removes(b)' => b \notin veth' \/ Due(b, {"veth", "bridge", "DelLinkByName"})'
    <3>1. Left(b)' = Left(b) /\ (Adds(b)' <=> Adds(b)) /\ (Removes(b)' <=> Removes(b))
      BY <2>1, <2>2, <2>4, Going, Zenon DEF Went, VethWord
    <3>2. (Linked(b)' <=> Linked(b)) /\ ns'[b] = ns[b]
      BY Zenon DEF Linked, Plugins
    <3> QED BY <2>4, <3>1, <3>2, Zenon DEF VethInv, Due
  <2>5. CASE /\ At(a, "SetupVeth") /\ ns[a] /\ veth' = veth \cup {a} /\ v6' = v6 \cup {a}
             /\ main' = main \cup {a} /\ Succeed(a)
    <3>1. rt[a] = "adding" /\ Linked(a) /\ Adds(a)' /\ ~Removes(a)'
      <4>1. rt[a] = "adding" /\ Linked(a)
        BY <2>2, <2>5, Zenon DEF VethWord, At, Linked
      <4>2. Went(a, <<>>)
        BY <2>1, <2>5, <4>1, Succeeded, Zenon
      <4> QED BY <4>1, <4>2, Zenon DEF Went, Adds, Removes
    <3>2. Linked(a)' /\ ns'[a]
      BY <2>5, <3>1, Zenon DEF Linked, Plugins
    <3>3. Push(a, <<>>) /\ IsSeq(<<>>)
      BY <2>1, <2>5, SucceedPush, ShortElems, Zenon
    <3> QED BY <2>4, <2>5, <3>1, <3>2, <3>3, Zenon DEF VethInv
  <2>6. ASSUME Head(rest[a]).do = "DelLinkByName", NoVeth({a}), NEW s, IsSeq(s), Push(a, s)
        PROVE  VethInv'
    <3>1. rt[a] = "deleting" /\ ~Adds(a)'
      <4>1. rt[a] = "deleting"
        BY <2>2, <2>6, Zenon DEF VethWord
      <4>2. Went(a, s)
        BY <2>1, <2>6, <4>1, Going, Zenon
      <4> QED BY <4>1, <4>2, Zenon DEF Went, Adds
    <3>2. veth' = veth \ {a} /\ v6' = v6 \ {a} /\ main' = main \ {a}
      BY <2>6, Zenon DEF NoVeth
    <3> QED BY <2>4, <2>6, <3>1, <3>2, Zenon DEF VethInv
  <2>7. CASE DelLink(a)
    BY <2>3, <2>6, <2>7, DelLinkShape, Zenon DEF Prog
  <2> QED BY <2>3, <2>5, <2>7, Zenon DEF SetupVeth
(* The interface of a command that is started is to come, or to go.        *)
<1>VethStarts. ASSUME Mech, VethInv, NEW a \in Att, NEW ph \in {"adding", "deleting"}, Started(a, ph)
      PROVE  VethInv'
  <2> USE <1>VethStarts
  <2>1. UNCHANGED <<conf, ns, veth, v6, main>> /\ rt'[a] = ph
    BY Zenon DEF Started, linkVars, vethVars
  <2>2. /\ \A p \in Plugins(a) : \E x \in Left(a)' : x.do = p
        /\ \A b \in Att \ {a} : Left(b)' = Left(b) /\ rt'[b] = rt[b]
    BY StartedDue, Zenon
  <2>3. \A b \in Att : (Linked(b)' <=> Linked(b)) /\ ns'[b] = ns[b]
    BY <2>1, Zenon DEF Linked, Plugins
  <2>4. Linked(a) => Due(a, MainNames)' /\ Due(a, {"veth", "bridge", "DelLinkByName"})'
    BY <2>2, Zenon DEF Linked, Due, MainNames
  <2>5. \A b \in Att \ {a} : /\ Adds(b)' <=> Adds(b)
                             /\ Removes(b)' <=> Removes(b)
                             /\ \A S : Due(b, S)' <=> Due(b, S)
    BY <2>2, Zenon DEF Adds, Removes, Due
  <2>6. ASSUME NEW b \in Att
        PROVE  /\ b \in veth' => ns'[b] /\ Linked(b)'
               /\ Adds(b)' /\ ns'[b] /\ Linked(b)' => b \in veth' \/ Due(b, MainNames)'
               /\ Removes(b)' => b \notin veth' \/ Due(b, {"veth", "bridge", "DelLinkByName"})'
    <3>1. CASE b = a
      BY <2>1, <2>3, <2>4, <3>1, Zenon DEF VethInv
    <3>2. CASE b # a
      BY <2>1, <2>3, <2>5, <3>2, Zenon DEF VethInv
    <3> QED BY <3>1, <3>2, Zenon
  <2> QED BY <2>1, <2>6, Zenon DEF VethInv
(* The main plugin that is run is about to make or to delete it.           *)
<1>VethInvoke. ASSUME Mech, VethInv, NEW a \in Att, Invoke(a)
      PROVE  VethInv'
  <2> USE <1>VethInvoke
  <2> DEFINE p == Head(rest[a]).do
             N == MainNames \cup {"DelLinkByName"}
  <2>1. PICK s : s = IF rt[a] = "adding" THEN PluginAdd(a, p) ELSE PluginDel(a, p)
    BY Zenon
  <2>2. /\ rest[a] # <<>> /\ rt[a] \in {"adding", "deleting"} /\ Uses(a, p) /\ p \in AllPlugins
        /\ Went(a, s) /\ UNCHANGED <<conf, ns, veth, v6, main>>
    BY <2>1, Invoked, Zenon DEF vethVars
  <2>3. CASE p \notin {"veth", "bridge"}
    <3>1. p \notin N /\ StepsOf(p) \cap N = {}
      BY <2>2, <2>3 DEF StepsOf, MainNames, DevSteps, TunSteps, NfSteps, BwAddSteps, VrfAddSteps,
         VrfDelSteps, SbrSteps, Choosing, AllPlugins, MainPlugins, ChainedPlugins
    <3> QED BY <2>2, <3>1, PluginKept, <1>VethKept, ZenonT(60) DEF VethInv
  <2>4. CASE p \in {"veth", "bridge"}
    <3>1. /\ rt[a] = "adding" => Do("SetupVeth", <<>>) \in Elems(s)
          /\ rt[a] = "deleting" => Do("DelLinkByName", <<>>) \in Elems(s)
      BY <2>1, <2>4, LinkPrograms, Zenon
    <3>2. /\ Do("SetupVeth", <<>>).do = "SetupVeth"
          /\ Do("DelLinkByName", <<>>).do = "DelLinkByName"
      BY StepParts, Zenon
    <3>3. /\ rt[a] = "adding" => Due(a, MainNames)' /\ ~Removes(a)'
          /\ rt[a] = "deleting" => Due(a, {"veth", "bridge", "DelLinkByName"})' /\ ~Adds(a)'
      BY <2>2, <3>1, <3>2, Zenon DEF Went, Due, MainNames, Adds, Removes
    <3>4. \A b \in Att \ {a} : /\ Adds(b)' <=> Adds(b)
                               /\ Removes(b)' <=> Removes(b)
                               /\ \A S : Due(b, S)' <=> Due(b, S)
      BY <2>2, Zenon DEF Went, Due
    <3>5. \A b \in Att : (Linked(b)' <=> Linked(b)) /\ ns'[b] = ns[b]
      BY <2>2, Zenon DEF Linked, Plugins
    <3>6. ASSUME NEW b \in Att
          PROVE  /\ b \in veth' => ns'[b] /\ Linked(b)'
                 /\ Adds(b)' /\ ns'[b] /\ Linked(b)' => b \in veth' \/ Due(b, MainNames)'
                 /\ Removes(b)' => b \notin veth' \/ Due(b, {"veth", "bridge", "DelLinkByName"})'
      <4>1. CASE b = a
        BY <2>2, <3>3, <3>5, <4>1, Zenon DEF VethInv
      <4>2. CASE b # a
        BY <2>2, <3>4, <3>5, <4>2, Zenon DEF VethInv
      <4> QED BY <4>1, <4>2, Zenon
    <3> QED BY <2>2, <3>6, Zenon DEF VethInv
  <2> QED BY <2>3, <2>4, Zenon
<1> DEFINE N == MainNames \cup {"DelLinkByName"}
<1>1. ASSUME Kept(N), UNCHANGED <<conf, ns, vethVars>> PROVE VethInv'
  BY <1>1, <1>VethKept, Zenon DEF VethInv, vethVars
<1>2. ASSUME NEW a \in Att, DeviceStep(a) \/ NetfilterStep(a) PROVE VethInv'
  <2>1. UNCHANGED <<conf, ns, vethVars>>
    BY <1>2, Zenon DEF DeviceStep, NetfilterStep, linkVars
  <2>2. (DevSteps \cup TunSteps) \cap N = {} /\ NfSteps \cap N = {}
    BY Zenon DEF DevSteps, TunSteps, NfSteps, MainNames
  <2> QED BY <1>1, <1>2, <2>1, <2>2, PluginKept, ZenonT(60)
<1>3. ASSUME NEW a \in Att, LinkStep(a) PROVE VethInv'
  <2>1. UNCHANGED <<conf, ns>>
    BY <1>3, Zenon DEF LinkStep
  <2>2. CASE SetupVeth(a) \/ DelLink(a)
    BY <2>1, <2>2, <1>VethActs, Zenon
  <2>3. CASE BridgeStep(a) /\ UNCHANGED vethVars
    <3>1. BridgeSteps \cap N = {}
      BY Zenon DEF BridgeSteps, GwSteps, MainNames
    <3> QED BY <1>1, <2>1, <2>3, <3>1, BridgePlain, ZenonT(60)
  <2>4. CASE BandwidthStep(a) /\ UNCHANGED vethVars
    <3>1. (BwAddSteps \cup {"TeardownIfb"}) \cap N = {}
      BY Zenon DEF BwAddSteps, MainNames
    <3> QED BY <1>1, <2>1, <2>4, <3>1, PluginKept, Zenon
  <2>5. CASE VrfStep(a) \/ SbrStep(a)
    <3>1. (VrfAddSteps \cup VrfDelSteps) \cap N = {} /\ SbrSteps \cap N = {}
      BY Zenon DEF VrfAddSteps, VrfDelSteps, SbrSteps, Choosing, MainNames
    <3>2. Kept(N)
      BY <2>5, <3>1, PluginKept, Zenon
    <3> QED BY <2>1, <2>5, <3>2, VethRest, <1>VethKept, Zenon
  <2> QED BY <1>3, <2>2, <2>3, <2>4, <2>5, Zenon DEF LinkStep
<1>4. ASSUME NEW a \in Att, StartAdd(a) \/ StartDel(a) PROVE VethInv'
  BY <1>4, StartSteps, <1>VethStarts, Zenon
<1>5. ASSUME NEW a \in Att, Invoke(a) PROVE VethInv'
  BY <1>5, <1>VethInvoke, Zenon
<1>6. ASSUME NEW a \in Att, Crash(a) PROVE VethInv'
  BY <1>1, <1>6, CrashSteps, FailKept, Zenon DEF Crash
<1>7. ASSUME NEW a \in Att, NetnsGone(a) PROVE VethInv'
  <2> DEFINE gone == {b \in Att : conf[b].cid = conf[a].cid}
  <2>1. /\ UNCHANGED <<conf, rt, rest>>
        /\ \A b \in Att : IF b \in gone THEN ~ns'[b] ELSE (ns'[b] <=> ns[b])
    BY <1>7, NetnsGoneSteps, Zenon
  <2>2. veth' = veth \ gone /\ v6' = v6 \ gone /\ main' = main \ gone
    BY <1>7, ZenonT(60) DEF NetnsGone, NoVeth
  <2> HIDE DEF gone
  <2>3. ASSUME NEW b \in Att
        PROVE  /\ b \in veth' => ns'[b] /\ Linked(b)'
               /\ Adds(b)' /\ ns'[b] /\ Linked(b)' => b \in veth' \/ Due(b, MainNames)'
               /\ Removes(b)' => b \notin veth' \/ Due(b, {"veth", "bridge", "DelLinkByName"})'
    BY <2>1, <2>2, SMTT(30) DEF VethInv, Linked, Plugins, Adds, Removes, Due, Left
  <2> QED BY <2>2, <2>3, Zenon DEF VethInv
<1>8. CASE UNCHANGED vars
  BY <1>1, <1>8, IdleKept, Zenon DEF vars, linkVars, Idled
<1> QED BY <1>2, <1>3, <1>4, <1>5, <1>6, <1>7, <1>8, ZenonT(60) DEF Next

(* A step leaves the commands of the other attachments alone.              *)
LEMMA Others ==
  ASSUME Mech, NEW a \in Att, NEW steps, Shape(a, steps), NEW b \in Att \ {a}
  PROVE  Left(b)' = Left(b) /\ rt'[b] = rt[b]
<1>1. CASE Idled
  BY <1>1, Zenon DEF Idled, Left
<1>2. CASE Fail(a)
  BY <1>2, FailedSteps, Zenon DEF Shape, Failed
<1>3. ASSUME NEW s, Prog(rt[a], a, s, steps), Push(a, s) PROVE Left(b)' = Left(b) /\ rt'[b] = rt[b]
  BY <1>3, Pushed, Zenon DEF Shape, Prog, Did
<1> QED BY <1>1, <1>2, <1>3, Zenon DEF Shape

-----------------------------------------------------------------------------
Bounded(T) == \E m \in Nat : T \subseteq 0..m

(* Tables that are given up, or one that is added, leave a bound.          *)
LEMMA BoundedTables ==
  /\ Bounded({})
  /\ \A T : Bounded(T) => \A U : U \subseteq T => Bounded(U)
  /\ \A T : Bounded(T) => \A x \in Nat : Bounded(T \cup {x})
<1>1. Bounded({})
  BY Zenon DEF Bounded
<1>2. ASSUME NEW T, Bounded(T), NEW U, U \subseteq T PROVE Bounded(U)
  BY <1>2, Zenon DEF Bounded
<1>3. ASSUME NEW T, Bounded(T), NEW x \in Nat PROVE Bounded(T \cup {x})
  <2>1. PICK m \in Nat : T \subseteq 0..m
    BY <1>3, Zenon DEF Bounded
  <2>2. T \cup {x} \subseteq 0..(m + x) /\ m + x \in Nat
    BY <2>1
  <2> QED BY <2>2, Zenon DEF Bounded
<1> QED BY <1>1, <1>2, <1>3, Zenon

INSTANCE WellFoundedInduction

(* The number that is chosen is not taken.                                 *)
LEMMA FreeFound ==
  ASSUME NEW T, Bounded(T), NEW c \in Nat
  PROVE  /\ FirstFree(T, c) \in Nat /\ c <= FirstFree(T, c) /\ FirstFree(T, c) \notin T
<1>1. PICK m \in Nat : T \subseteq 0..m
  BY Zenon DEF Bounded
<1>2. PICK S : S = {t \in Nat : c <= t /\ t \notin T}
  BY Zenon
<1>3. c + m + 1 \in S /\ S \subseteq Nat
  BY <1>1, <1>2, SMTT(30)
<1>4. PICK t \in S : \A u \in S : t <= u
  <2> DEFINE Less == {p \in Nat \X Nat : p[1] < p[2]}
  <2>1. IsWellFoundedOn(Less, Nat)
    BY NatLessThanWellFounded, Zenon DEF OpToRel
  <2> HIDE DEF Less
  <2>2. PICK t \in S : \A u \in S : ~(<<u, t>> \in Less)
    BY <1>3, <2>1, WFMin, Zenon
  <2>3. ASSUME NEW u \in S, ~(t <= u) PROVE FALSE
    <3>1. u \in Nat /\ t \in Nat
      BY <1>3, Zenon
    <3>2. <<u, t>> \in Less
      BY <2>3, <3>1, SMTT(30) DEF Less
    <3> QED BY <2>2, <3>2, Zenon
  <2> QED BY <2>3, Zenon
<1>5. t \in Nat /\ c <= t /\ t \notin T /\ \A u \in c..(t - 1) : u \in T
  BY <1>2, <1>4, SMTT(30)
<1>6. t \in {c} \cup {u + 1 : u \in T}
  <2>1. CASE t # c
    <3>1. t - 1 \in T /\ t = (t - 1) + 1
      BY <1>5, <2>1, SMTT(30)
    <3> QED BY <3>1, Zenon
  <2> QED BY <2>1, Zenon
<1>7. PICK f : f = FirstFree(T, c)
  BY Zenon
<1>8. f \in {c} \cup {u + 1 : u \in T} /\ c <= f /\ f \notin T
  BY <1>5, <1>6, <1>7, Zenon DEF FirstFree
<1>9. f \in Nat
  BY <1>1, <1>8
<1> QED BY <1>7, <1>8, <1>9, Zenon

=============================================================================
