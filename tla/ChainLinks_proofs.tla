------------------------- MODULE ChainLinks_proofs --------------------------
(***************************************************************************)
(* The interfaces that the commands of Chain make: their gateways and      *)
(* their VRFs, for any lists of plugins.                                   *)
(***************************************************************************)
EXTENDS ChainSteps_proofs

(* Gateway i has its address, unless another attachment was told to        *)
(* replace it; it is yet to be looked at; its family is forwarded, or      *)
(* about to be.                                                            *)
Disputed(a, i) ==
  \E b \in Att : /\ Uses(b, "bridge") /\ conf[b].forceAddress
                 /\ conf[b].vlan = conf[a].vlan
                 /\ \E j \in DOMAIN conf[b].gws : Conflict(conf[a].gws[i], conf[b].gws[j])

HasAddress(a, i) == <<conf[a].vlan, conf[a].gws[i]>> \in gwAddrs \/ Disputed(a, i)
HasVlan(a) == conf[a].vlan # 0 => conf[a].vlan \in vlanGw

(* The steps of a gateway whose interface is there, and those that follow  *)
(* its address.                                                            *)
Vlanned == {"VlanPort", "AddrList", "ensureAddr", "LinkSetHardwareAddr"}
Late == {"LinkSetHardwareAddr", "enableIPForward"}

ToCome(a, i) ==
  \/ Due(a, {"bridge"})
  \/ \E x \in Left(a) : /\ x.do \in GwSteps
                        /\ x.arg < i \/ (x.arg = i /\ x.do \notin Late)

Forwarded(a, i) ==
  \/ conf[a].gws[i].family \in forwarding
  \/ \E x \in Left(a) : /\ x.do \in GwSteps /\ x.arg >= i
                        /\ conf[a].gws[x.arg].family = conf[a].gws[i].family

BridgeOf(a) ==
  Uses(a, "bridge") /\ Adds(a) =>
    /\ \A i \in DOMAIN conf[a].gws :
         ToCome(a, i) \/ (HasAddress(a, i) /\ HasVlan(a) /\ Forwarded(a, i))
    /\ Due(a, Vlanned) => HasVlan(a)
    /\ \A x \in Left(a), h \in listed[a] : x.do = "ensureAddr" =>
         \/ h = conf[a].gws[x.arg] /\ HasAddress(a, x.arg)
         \/ Conflict(conf[a].gws[x.arg], h)

BridgeInv == DOMAIN listed = Att /\ \A a \in Att : BridgeOf(a)

GwPairs == \A x \in gwAddrs : x = <<x[1], x[2]>>

-----------------------------------------------------------------------------
(* An attachment whose command does not go on keeps its gateways while     *)
(* others come, and go only where they are disputed.                       *)
LEMMA BridgeSame ==
  ASSUME NEW a \in Att, BridgeOf(a), UNCHANGED conf,
         Adds(a)' => /\ Adds(a)
                     /\ \A x : x.do \in {"bridge"} \cup GwSteps => (x \in Left(a)' <=> x \in Left(a)),
         \A i \in DOMAIN conf[a].gws : HasAddress(a, i) => HasAddress(a, i)',
         vlanGw \subseteq vlanGw', forwarding \subseteq forwarding', listed'[a] \subseteq listed[a],
         \A x \in Left(a) : x.do \in GwSteps => x.arg \in DOMAIN conf[a].gws
  PROVE  BridgeOf(a)'
<1>1. SUFFICES ASSUME Uses(a, "bridge"), Adds(a)'
               PROVE  /\ \A i \in DOMAIN conf[a].gws :
                           ToCome(a, i)' \/ (HasAddress(a, i)' /\ HasVlan(a)' /\ Forwarded(a, i)')
                      /\ Due(a, Vlanned)' => HasVlan(a)'
                      /\ \A x \in Left(a)', h \in listed'[a] : x.do = "ensureAddr" =>
                           \/ h = conf[a].gws[x.arg] /\ HasAddress(a, x.arg)'
                           \/ Conflict(conf[a].gws[x.arg], h)
  BY Zenon DEF BridgeOf, Uses, Plugins, Conflict
<1>2. /\ \A x : x.do \in {"bridge"} \cup GwSteps => (x \in Left(a)' <=> x \in Left(a))
      /\ HasVlan(a) => HasVlan(a)'
  BY <1>1, Zenon DEF HasVlan
<1>3. ASSUME NEW i \in DOMAIN conf[a].gws
      PROVE  ToCome(a, i)' \/ (HasAddress(a, i)' /\ HasVlan(a)' /\ Forwarded(a, i)')
  <2>1. ToCome(a, i) => ToCome(a, i)'
    BY <1>2, Zenon DEF ToCome, Due
  <2>2. Forwarded(a, i) => Forwarded(a, i)'
    BY <1>2, Zenon DEF Forwarded
  <2> QED BY <1>1, <1>2, <2>1, <2>2, Zenon DEF BridgeOf
<1>4. Due(a, Vlanned)' => HasVlan(a)'
  BY <1>1, <1>2, Zenon DEF BridgeOf, Due, GwSteps, Vlanned
<1>5. ASSUME NEW x \in Left(a)', NEW h \in listed'[a], x.do = "ensureAddr"
      PROVE  \/ h = conf[a].gws[x.arg] /\ HasAddress(a, x.arg)'
             \/ Conflict(conf[a].gws[x.arg], h)
  <2>1. x \in Left(a) /\ x.do \in GwSteps
    BY <1>2, <1>5, Zenon DEF GwSteps
  <2> QED BY <1>1, <1>5, <2>1, Zenon DEF BridgeOf
<1> QED BY <1>3, <1>4, <1>5, Zenon

(* An address that is there is kept or disputed.                           *)
LEMMA AddressKept ==
  ASSUME NEW a \in Att, NEW i, UNCHANGED conf, HasAddress(a, i),
         <<conf[a].vlan, conf[a].gws[i]>> \in gwAddrs =>
           <<conf[a].vlan, conf[a].gws[i]>> \in gwAddrs' \/ Disputed(a, i)
  PROVE  HasAddress(a, i)'
BY ZenonT(60) DEF HasAddress, Disputed, Uses, Plugins, Conflict

(* Where only other steps are done, gateways only come.                    *)
LEMMA BridgeKept ==
  ASSUME Mech, BridgeInv, Kept({"bridge"} \cup GwSteps), UNCHANGED conf,
         gwAddrs \subseteq gwAddrs', vlanGw \subseteq vlanGw', forwarding \subseteq forwarding',
         DOMAIN listed' = Att, \A b \in Att : listed'[b] \subseteq listed[b]
  PROVE  BridgeInv'
<1>1. ASSUME NEW a \in Att PROVE BridgeOf(a)'
  <2>1. Adds(a)' => rt'[a] \in Ended
    BY Zenon DEF Adds, Ended
  <2>2. \A x \in Left(a) : x.do \in GwSteps => x.arg \in DOMAIN conf[a].gws
    BY WordIs, Zenon DEF BridgeWord, BridgeSteps
  <2>3. \A i \in DOMAIN conf[a].gws : HasAddress(a, i) => HasAddress(a, i)'
    BY AddressKept, Zenon
  <2>4. BridgeOf(a) /\ listed'[a] \subseteq listed[a]
    BY Zenon DEF BridgeInv
  <2>5. Adds(a)' =>
          /\ Adds(a)
          /\ \A x : x.do \in {"bridge"} \cup GwSteps => (x \in Left(a)' <=> x \in Left(a))
    BY <2>1, Zenon DEF Kept
  <2> QED BY <2>2, <2>3, <2>4, <2>5, BridgeSame, Zenon
<1> QED BY <1>1, Zenon DEF BridgeInv

(* The step of a gateway is followed by another one of it, or of the next. *)
LEMMA BridgeGoes ==
  ASSUME Mech, LinkOrder, BridgeInv, NEW a \in Att, rest[a] # <<>>,
         Head(rest[a]).do \in GwSteps, NEW s, Went(a, s), NEW y,
         Elems(s) \subseteq {y}, UNCHANGED conf,
         gwAddrs \subseteq gwAddrs', vlanGw \subseteq vlanGw', forwarding \subseteq forwarding',
         DOMAIN listed' = Att, \A b \in Att \ {a} : listed'[b] \subseteq listed[b],
         y \in Elems(s) => y.do \in GwSteps /\ y.arg \in DOMAIN conf[a].gws,
         \A i \in DOMAIN conf[a].gws :
           \/ y \in Elems(s) /\ (y.arg < i \/ (y.arg = i /\ y.do \notin Late))
           \/ /\ i <= Head(rest[a]).arg
              /\ \/ i < Head(rest[a]).arg \/ Head(rest[a]).do \in Late
                 \/ HasAddress(a, i)' /\ HasVlan(a)'
              /\ conf[a].gws[Head(rest[a]).arg].family = conf[a].gws[i].family =>
                   \/ conf[a].gws[i].family \in forwarding'
                   \/ /\ y \in Elems(s) /\ y.arg >= i
                      /\ conf[a].gws[y.arg].family = conf[a].gws[i].family,
         y \in Elems(s) /\ y.do \in Vlanned => HasVlan(a)',
         y \in Elems(s) /\ y.do = "ensureAddr" =>
           \A h \in listed'[a] :
             \/ h = conf[a].gws[y.arg] /\ HasAddress(a, y.arg)'
             \/ Conflict(conf[a].gws[y.arg], h)
  PROVE  BridgeInv'

<1> DEFINE h == Head(rest[a])
           N == {"bridge"} \cup GwSteps
<1>1. /\ h \in Left(a) /\ rt[a] = "adding" /\ Uses(a, "bridge") /\ Adds(a) /\ Adds(a)'
      /\ h.arg \in DOMAIN conf[a].gws /\ DOMAIN conf[a].gws \subseteq Nat
  <2>1. h \in Left(a)
    BY HeadFacts, Zenon
  <2>2. BridgeWord(rt[a], a, h)
    BY <2>1, WordIs, Zenon DEF BridgeSteps
  <2>3. OptionsOK("bridge", conf[a])
    BY <2>2, ConfFacts, ZenonT(60) DEF BridgeWord, Uses
  <2>4. DOMAIN conf[a].gws \subseteq Nat
    BY <2>3 DEF OptionsOK
  <2> QED BY <2>1, <2>2, <2>4, Zenon DEF BridgeWord, Adds, Went
<1>2. \A x \in Behind(a) : x.do \notin GwSteps
  <2>1. \A m \in GwSteps : <<h.do, m>> \in LinkBad(rt[a])
    BY <1>1, Zenon DEF LinkBad, AddBad
  <2> QED BY <2>1, <1>1, NotBehind, Zenon
<1>3. /\ \A x \in Left(a) : x.do \in GwSteps => x = h
      /\ \A x \in Left(a)' : x.do \in GwSteps => x = y /\ y \in Elems(s)
      /\ \A x : x.do = "bridge" => (x \in Left(a)' <=> x \in Left(a))
      /\ Elems(s) \subseteq Left(a)'
  BY <1>2, Zenon DEF Went, GwSteps
<1>4. /\ \A i : HasAddress(a, i) => HasAddress(a, i)'
      /\ (HasVlan(a) => HasVlan(a)') /\ BridgeOf(a)
  BY AddressKept, Zenon DEF HasVlan, BridgeInv
<1> HIDE DEF h
<1>5. ASSUME NEW i \in DOMAIN conf[a].gws
      PROVE  ToCome(a, i)' \/ (HasAddress(a, i)' /\ HasVlan(a)' /\ Forwarded(a, i)')
  <2>1. CASE y \in Elems(s) /\ (y.arg < i \/ (y.arg = i /\ y.do \notin Late))
    BY <1>3, <2>1, Zenon DEF ToCome
  <2>2. CASE Due(a, {"bridge"})
    BY <1>3, <2>2, Zenon DEF ToCome, Due
  <2>3. CASE /\ ~Due(a, {"bridge"}) /\ i <= h.arg
             /\ i < h.arg \/ h.do \in Late \/ (HasAddress(a, i)' /\ HasVlan(a)')
             /\ conf[a].gws[h.arg].family = conf[a].gws[i].family =>
                  \/ conf[a].gws[i].family \in forwarding'
                  \/ /\ y \in Elems(s) /\ y.arg >= i
                     /\ conf[a].gws[y.arg].family = conf[a].gws[i].family
    <3>1. /\ i \in Nat /\ h.arg \in Nat
      BY <1>1, Zenon
    <3>2. conf[a].gws[h.arg].family = conf[a].gws[i].family => Forwarded(a, i)'
      BY <1>3, <2>3, Zenon DEF Forwarded
    <3>3. CASE i < h.arg \/ h.do \in Late
      <4>1. ~ToCome(a, i)
        BY <1>3, <2>3, <3>1, <3>3, SMTT(30) DEF ToCome
      <4>2. HasAddress(a, i) /\ HasVlan(a) /\ Forwarded(a, i)
        BY <1>1, <1>4, <4>1, Zenon DEF BridgeOf
      <4>3. Forwarded(a, i)'
        BY <1>3, <3>2, <4>2, Zenon DEF Forwarded
      <4> QED BY <1>4, <4>2, <4>3, ZenonT(60)
    <3>4. CASE ~(i < h.arg \/ h.do \in Late)
      <4>1. i = h.arg
        BY <2>3, <3>1, <3>4, SMTT(30)
      <4> QED BY <2>3, <3>2, <3>4, <4>1, ZenonT(60)
    <3> QED BY <3>3, <3>4, Zenon
  <2> QED BY <2>1, <2>2, <2>3, Zenon DEF h
<1>6. Due(a, Vlanned)' => HasVlan(a)'
  BY <1>3, Zenon DEF Due, GwSteps, Vlanned
<1>7. \A x \in Left(a)', e \in listed'[a] : x.do = "ensureAddr" =>
        \/ e = conf[a].gws[x.arg] /\ HasAddress(a, x.arg)'
        \/ Conflict(conf[a].gws[x.arg], e)
  BY <1>3, Zenon DEF GwSteps
<1>8. BridgeOf(a)'
  BY <1>5, <1>6, <1>7, ZenonT(60) DEF BridgeOf, Uses, Plugins, Conflict
<1>9. ASSUME NEW b \in Att \ {a} PROVE BridgeOf(b)'
  <2>1. \A x \in Left(b) : x.do \in GwSteps => x.arg \in DOMAIN conf[b].gws
    BY WordIs, Zenon DEF BridgeWord, BridgeSteps
  <2>2. \A i \in DOMAIN conf[b].gws : HasAddress(b, i) => HasAddress(b, i)'
    BY AddressKept, Zenon
  <2>3. BridgeOf(b) /\ listed'[b] \subseteq listed[b] /\ Left(b)' = Left(b) /\ (Adds(b)' <=> Adds(b))
    BY Zenon DEF BridgeInv, Went
  <2> QED BY <2>1, <2>2, <2>3, BridgeSame, Zenon
<1> QED BY <1>8, <1>9, Zenon DEF BridgeInv

(* A step of a gateway is followed by another one of it.                   *)
LEMMA BridgeMoves ==
  ASSUME Mech, LinkOrder, BridgeInv, NEW a \in Att, rest[a] # <<>>,
         Head(rest[a]).do \in GwSteps \ Late,
         NEW n \in GwSteps \ Late, NEW k, k = Arg(a),
         NEW y, y = Step(n, k, <<>>), Push(a, <<y>>),
         UNCHANGED conf, gwAddrs \subseteq gwAddrs', vlanGw \subseteq vlanGw',
         forwarding \subseteq forwarding', DOMAIN listed' = Att,
         \A b \in Att \ {a} : listed'[b] \subseteq listed[b],
         n \in Vlanned => HasVlan(a)',
         n = "ensureAddr" =>
           \A h \in listed'[a] :
             (h = conf[a].gws[k] /\ HasAddress(a, k)') \/ Conflict(conf[a].gws[k], h)
  PROVE  BridgeInv'
<1>1. y.do = n /\ y.arg = k
  BY StepParts
<1>2. /\ Len(conf[a].gws) \in Nat /\ DOMAIN conf[a].gws = 1..Len(conf[a].gws)
      /\ k \in DOMAIN conf[a].gws /\ Head(rest[a]).arg = k
      /\ \A t : IsSeq(t) /\ Push(a, t) => Went(a, t)
  BY AtGateway, Zenon
<1>3. PICK s : s = <<y>>
  BY Zenon
<1>4. IsSeq(s) /\ Elems(s) = {y}
  BY <1>3, ShortElems, Zenon
<1>5. Went(a, s)
  BY <1>2, <1>3, <1>4, Zenon
<1>6. \A i \in DOMAIN conf[a].gws :
        \/ y \in Elems(s) /\ (y.arg < i \/ (y.arg = i /\ y.do \notin Late))
        \/ /\ i <= Head(rest[a]).arg
           /\ \/ i < Head(rest[a]).arg \/ Head(rest[a]).do \in Late
              \/ HasAddress(a, i)' /\ HasVlan(a)'
           /\ conf[a].gws[Head(rest[a]).arg].family = conf[a].gws[i].family =>
                \/ conf[a].gws[i].family \in forwarding'
                \/ /\ y \in Elems(s) /\ y.arg >= i
                   /\ conf[a].gws[y.arg].family = conf[a].gws[i].family
  BY <1>1, <1>2, <1>4, SMTT(30)
<1>7. /\ Elems(s) \subseteq {y}
      /\ y \in Elems(s) => y.do \in GwSteps /\ y.arg \in DOMAIN conf[a].gws
      /\ y \in Elems(s) /\ y.do \in Vlanned => HasVlan(a)'
  BY <1>1, <1>2, <1>4, Zenon
<1>8. y \in Elems(s) /\ y.do = "ensureAddr" =>
        \A h \in listed'[a] :
          \/ h = conf[a].gws[y.arg] /\ HasAddress(a, y.arg)'
          \/ Conflict(conf[a].gws[y.arg], h)
  BY <1>1, Zenon
<1> QED BY <1>5, <1>6, <1>7, <1>8, BridgeGoes, ZenonT(60)

(* A gateway that has its address is followed by the first step of the     *)
(* next, or by the forwarding of its family; a new address may come with   *)
(* the MAC address of the bridge first.                                    *)
LEMMA BridgeEnsured ==
  ASSUME Mech, LinkOrder, BridgeInv, NEW a \in Att,
         At(a, "ensureAddr") \/ At(a, "LinkSetHardwareAddr"), NEW k, k = Arg(a),
         \/ Push(a, AfterGateway(conf[a], k))
         \/ Push(a, <<Step("LinkSetHardwareAddr", k, <<>>)>>),
         UNCHANGED conf,
         gwAddrs \subseteq gwAddrs', vlanGw \subseteq vlanGw', forwarding \subseteq forwarding',
         DOMAIN listed' = Att, \A b \in Att \ {a} : listed'[b] \subseteq listed[b],
         At(a, "ensureAddr") => HasAddress(a, k)'
  PROVE  BridgeInv'
<1> DEFINE g == conf[a].gws
<1>1. /\ rest[a] # <<>> /\ Head(rest[a]).do \in Vlanned /\ Head(rest[a]).do \in GwSteps
      /\ HasAddress(a, k)' \/ Head(rest[a]).do \in Late
  BY Zenon DEF At, GwSteps, Vlanned, Late
<1>2. /\ Len(g) \in Nat /\ DOMAIN g = 1..Len(g) /\ k \in DOMAIN g /\ Head(rest[a]).arg = k
      /\ Head(rest[a]) \in Left(a) /\ Uses(a, "bridge") /\ Adds(a)
      /\ \A t : IsSeq(t) /\ Push(a, t) => Went(a, t)
  BY <1>1, AtGateway, Zenon
<1>3. HasVlan(a)'
  <2>1. Due(a, Vlanned)
    BY <1>1, <1>2, Zenon DEF Due
  <2> QED BY <1>2, <2>1, Zenon DEF BridgeInv, BridgeOf, HasVlan
<1>4. PICK y, s : /\ s = <<y>> /\ Push(a, s) /\ y.do \in GwSteps /\ y.do # "ensureAddr"
                  /\ \/ y.do \in Late /\ y.arg = k
                     \/ /\ y.arg = k + 1 /\ k + 1 \in DOMAIN g /\ g[k + 1].family = g[k].family
                        /\ y.do \notin Late
  <2>0. CASE Push(a, <<Step("LinkSetHardwareAddr", k, <<>>)>>)
    <3> DEFINE z == Step("LinkSetHardwareAddr", k, <<>>)
    <3>1. Push(a, <<z>>) /\ z.do = "LinkSetHardwareAddr" /\ z.arg = k
      BY <2>0, StepParts
    <3> HIDE DEF z
    <3> QED BY <3>1, Zenon DEF GwSteps, Late
  <2>1. CASE Push(a, AfterGateway(conf[a], k)) /\ (k = Len(g) \/ g[k + 1].family # g[k].family)
    <3>1. AfterGateway(conf[a], k) = <<Step("enableIPForward", k, <<>>)>>
      BY <2>1, Zenon DEF AfterGateway
    <3>2. /\ Step("enableIPForward", k, <<>>).do = "enableIPForward"
          /\ Step("enableIPForward", k, <<>>).arg = k
      BY StepParts
    <3> DEFINE z == Step("enableIPForward", k, <<>>)
    <3>3. Push(a, <<z>>) /\ z.do = "enableIPForward" /\ z.arg = k
      BY <2>1, <3>1, <3>2, Zenon
    <3> HIDE DEF z
    <3> QED BY <3>3, Zenon DEF GwSteps, Late
  <2>2. CASE Push(a, AfterGateway(conf[a], k)) /\ ~(k = Len(g) \/ g[k + 1].family # g[k].family)
    <3> DEFINE z == Step(IF conf[a].vlan # 0 THEN "FindVlan" ELSE "AddrList", k + 1, <<>>)
    <3>1. k + 1 \in DOMAIN g /\ k + 1 <= Len(conf[a].gws) /\ g[k + 1].family = g[k].family
      BY <1>2, <2>2
    <3>2. AfterGateway(conf[a], k) = <<z>>
      BY <2>2, <3>1, Zenon DEF AfterGateway, BridgeGateways, When
    <3>3. z.do \in {"FindVlan", "AddrList"} /\ z.arg = k + 1
      BY StepParts
    <3> HIDE DEF z
    <3> QED BY <2>2, <3>1, <3>2, <3>3, ZenonT(60) DEF GwSteps, Late
  <2> QED BY <2>0, <2>1, <2>2, Zenon
<1>5. IsSeq(s) /\ Elems(s) = {y}
  BY <1>4, ShortElems, Zenon
<1>6. Went(a, s)
  BY <1>2, <1>4, <1>5, ZenonT(60)
<1>7. ASSUME NEW i \in DOMAIN g
      PROVE  \/ y.arg < i \/ (y.arg = i /\ y.do \notin Late)
             \/ /\ i <= k /\ (i < k \/ i = k)
                /\ g[k].family = g[i].family => y.arg >= i /\ g[y.arg].family = g[i].family
  BY <1>2, <1>4, SMTT(30) DEF Late
<1>8. \A i \in DOMAIN conf[a].gws :
        \/ y \in Elems(s) /\ (y.arg < i \/ (y.arg = i /\ y.do \notin Late))
        \/ /\ i <= Head(rest[a]).arg
           /\ \/ i < Head(rest[a]).arg \/ Head(rest[a]).do \in Late
              \/ HasAddress(a, i)' /\ HasVlan(a)'
           /\ conf[a].gws[Head(rest[a]).arg].family = conf[a].gws[i].family =>
                \/ conf[a].gws[i].family \in forwarding'
                \/ /\ y \in Elems(s) /\ y.arg >= i
                   /\ conf[a].gws[y.arg].family = conf[a].gws[i].family
  BY <1>1, <1>2, <1>3, <1>5, <1>7, Zenon
<1>9. /\ Elems(s) \subseteq {y}
      /\ y \in Elems(s) => y.do \in GwSteps /\ y.arg \in DOMAIN conf[a].gws
      /\ y \in Elems(s) /\ y.do \in Vlanned => HasVlan(a)'
      /\ y.do # "ensureAddr"
  BY <1>2, <1>3, <1>4, <1>5, Zenon
<1> QED BY <1>1, <1>6, <1>8, <1>9, BridgeGoes, ZenonT(60)

(* Then its family is forwarded, and the next gateway is looked at.        *)
LEMMA BridgeForwards ==
  ASSUME Mech, LinkOrder, BridgeInv, NEW a \in Att, At(a, "enableIPForward"), NEW k, k = Arg(a),
         Push(a, BridgeGateways(conf[a], k + 1)), UNCHANGED <<conf, vlanGw, gwAddrs, listed>>,
         forwarding' = forwarding \cup {Gateway(a).family}
  PROVE  BridgeInv'
<1> DEFINE g == conf[a].gws
<1>1. /\ rest[a] # <<>> /\ Head(rest[a]).do \in Late /\ Head(rest[a]).do \in GwSteps
  BY Zenon DEF At, GwSteps, Late
<1>2. /\ Len(g) \in Nat /\ DOMAIN g = 1..Len(g) /\ k \in DOMAIN g /\ Head(rest[a]).arg = k
      /\ \A t : IsSeq(t) /\ Push(a, t) => Went(a, t)
  BY <1>1, AtGateway, Zenon
<1>3. PICK y : y = Step(IF conf[a].vlan # 0 THEN "FindVlan" ELSE "AddrList", k + 1, <<>>)
  BY Zenon
<1>4. /\ y.do \in {"FindVlan", "AddrList"} /\ y.arg = k + 1
      /\ y.do \in GwSteps /\ y.do \notin Late
      /\ y.do \in Vlanned => conf[a].vlan = 0
  BY <1>3, StepParts DEF GwSteps, Late, Vlanned
<1>5. PICK s : /\ Push(a, s)
               /\ s = IF k + 1 <= Len(g) THEN <<y>> ELSE <<>>
  BY <1>3, Zenon DEF BridgeGateways, When
<1>6. IsSeq(s) /\ Elems(s) = IF k + 1 <= Len(g) THEN {y} ELSE {}
  BY <1>5, ShortElems, Zenon
<1>7. Went(a, s)
  BY <1>2, <1>5, <1>6, Zenon
<1>8. ASSUME NEW i \in DOMAIN g
      PROVE  \/ y \in Elems(s) /\ (y.arg < i \/ (y.arg = i /\ y.do \notin Late))
             \/ i <= k
  BY <1>2, <1>4, <1>6, SMTT(30)
<1>9. g[k].family \in forwarding'
  BY Zenon DEF Gateway
<1>10. \A i \in DOMAIN conf[a].gws :
         \/ y \in Elems(s) /\ (y.arg < i \/ (y.arg = i /\ y.do \notin Late))
         \/ /\ i <= Head(rest[a]).arg
            /\ \/ i < Head(rest[a]).arg \/ Head(rest[a]).do \in Late
               \/ HasAddress(a, i)' /\ HasVlan(a)'
            /\ conf[a].gws[Head(rest[a]).arg].family = conf[a].gws[i].family =>
                 \/ conf[a].gws[i].family \in forwarding'
                 \/ /\ y \in Elems(s) /\ y.arg >= i
                    /\ conf[a].gws[y.arg].family = conf[a].gws[i].family
  BY <1>1, <1>2, <1>8, <1>9, ZenonT(60)
<1>11. /\ Elems(s) \subseteq {y}
       /\ y \in Elems(s) => y.do \in GwSteps /\ y.arg \in DOMAIN conf[a].gws
       /\ y \in Elems(s) /\ y.do \in Vlanned => HasVlan(a)'
       /\ y.do # "ensureAddr"
  BY <1>2, <1>4, <1>6, SMTT(30) DEF HasVlan
<1>12. /\ gwAddrs \subseteq gwAddrs' /\ vlanGw \subseteq vlanGw' /\ forwarding \subseteq forwarding'
       /\ DOMAIN listed' = Att /\ \A b \in Att \ {a} : listed'[b] \subseteq listed[b]
  BY Zenon DEF BridgeInv
<1> QED BY <1>1, <1>7, <1>10, <1>11, <1>12, BridgeGoes, ZenonT(60)

(* The deletion of an address is disputed.                                 *)
LEMMA BridgeReplaces ==
  ASSUME Mech, BridgeInv, NEW a \in Att, At(a, "ensureAddr"), conf[a].forceAddress,
         NEW h \in listed[a] \ {Gateway(a)}, gwAddrs' = gwAddrs \ {<<conf[a].vlan, h>>},
         listed' = [listed EXCEPT ![a] = @ \ {h}], UNCHANGED <<conf, rt, rest, vlanGw, forwarding>>
  PROVE  BridgeInv'
<1>1. /\ rest[a] # <<>> /\ Head(rest[a]).do = "ensureAddr" /\ Head(rest[a]).do \in GwSteps
  BY Zenon DEF At, GwSteps
<1>2. /\ Head(rest[a]) \in Left(a) /\ Uses(a, "bridge") /\ Adds(a)
      /\ Arg(a) \in DOMAIN conf[a].gws /\ Head(rest[a]).arg = Arg(a)
  BY <1>1, AtGateway, Zenon
<1>3. Conflict(conf[a].gws[Arg(a)], h)
  BY <1>1, <1>2, Zenon DEF BridgeInv, BridgeOf, Gateway
<1>4. ASSUME NEW b \in Att PROVE BridgeOf(b)'
  <2>1. ASSUME NEW i \in DOMAIN conf[b].gws, HasAddress(b, i) PROVE HasAddress(b, i)'
    <3>1. ASSUME <<conf[b].vlan, conf[b].gws[i]>> = <<conf[a].vlan, h>> PROVE Disputed(b, i)
      <4>1. conf[a].vlan = conf[b].vlan /\ Conflict(conf[b].gws[i], conf[a].gws[Arg(a)])
        BY <1>3, <3>1, Zenon DEF Conflict
      <4> QED BY <4>1, <1>2, Zenon DEF Disputed
    <3> QED BY <2>1, <3>1, AddressKept, Zenon
  <2>2. \A x \in Left(b) : x.do \in GwSteps => x.arg \in DOMAIN conf[b].gws
    BY WordIs, Zenon DEF BridgeWord, BridgeSteps
  <2>3. BridgeOf(b) /\ listed'[b] \subseteq listed[b] /\ Left(b)' = Left(b) /\ (Adds(b)' <=> Adds(b))
    BY Zenon DEF BridgeInv, Left, Adds
  <2> QED BY <2>1, <2>2, <2>3, BridgeSame, ZenonT(60)
<1> QED BY <1>4, Zenon DEF BridgeInv

(* The steps of the bridge plugin.                                         *)
LEMMA BridgeActs ==
  ASSUME Mech, LinkOrder, BridgeInv, GwPairs, NEW a \in Att, BridgeStep(a), UNCHANGED conf
  PROVE  BridgeInv'
<1>1. DOMAIN listed = Att
  BY Zenon DEF BridgeInv
<1>2. ASSUME rest[a] # <<>>, Fail(a), gwAddrs \subseteq gwAddrs', vlanGw' = vlanGw,
             forwarding' = forwarding,
             listed' = listed \/ listed' = [listed EXCEPT ![a] = {}]
      PROVE  BridgeInv'
  <2>1. Kept({"bridge"} \cup GwSteps)
    BY <1>2, FailedSteps, FailKept, Zenon
  <2>2. DOMAIN listed' = Att /\ \A b \in Att : listed'[b] \subseteq listed[b]
    BY <1>1, <1>2, Zenon
  <2> QED BY <1>2, <2>1, <2>2, BridgeKept, Zenon
<1>3. ASSUME rest[a] # <<>>, Head(rest[a]).do \in {"ensureBridge", "PortOfBridge", "PortUp"},
             Succeed(a), UNCHANGED <<vlanGw, gwAddrs, forwarding, listed>>
      PROVE  BridgeInv'
  <2>1. Head(rest[a]).do \notin {"bridge"} \cup GwSteps
    BY <1>3, Zenon DEF GwSteps
  <2>2. Kept({"bridge"} \cup GwSteps)
    BY <1>3, <2>1, PlainKept, Zenon
  <2> QED BY <1>1, <1>3, <2>2, BridgeKept, Zenon
<1>4. CASE ensureBridge(a) \/ PortOfBridge(a) \/ PortUp(a)
  BY <1>2, <1>3, <1>4, Zenon DEF ensureBridge, PortOfBridge, PortUp, At, bridgeVars
<1>5. CASE ensureVlanInterface(a)
  <2>1. UNCHANGED <<gwAddrs, forwarding, listed>>
    BY <1>5, Zenon DEF ensureVlanInterface
  <2>2. PICK k : k = Arg(a)
    BY Zenon
  <2>3. ASSUME NEW m \in {"FindVlan", "VlanVeth", "VlanPort"}, At(a, m),
               NEW n \in {"VlanVeth", "VlanPort", "AddrList"}, Push(a, <<Step(n, Arg(a), <<>>)>>),
               vlanGw \subseteq vlanGw', n \in Vlanned => HasVlan(a)'
        PROVE  BridgeInv'
    <3>1. /\ rest[a] # <<>> /\ Head(rest[a]).do \in GwSteps \ Late
          /\ n \in GwSteps \ Late /\ n # "ensureAddr"
      BY <2>3, Zenon DEF At, GwSteps, Late
    <3>2. PICK y : y = Step(n, k, <<>>)
      BY Zenon
    <3>3. Push(a, <<y>>)
      BY <2>2, <2>3, <3>2, Zenon
    <3> QED BY <1>1, <2>1, <2>2, <2>3, <3>1, <3>2, <3>3, BridgeMoves, ZenonT(60)
  <2>4. At(a, "VlanPort") => HasVlan(a)
    <3>1. ASSUME At(a, "VlanPort")
          PROVE  HasVlan(a)
      <4>1. rest[a] # <<>> /\ Head(rest[a]).do = "VlanPort" /\ Head(rest[a]).do \in GwSteps
        BY <3>1, Zenon DEF At, GwSteps
      <4>2. Head(rest[a]) \in Left(a) /\ Uses(a, "bridge") /\ Adds(a)
        BY <4>1, AtGateway, Zenon
      <4>3. Due(a, Vlanned)
        BY <4>1, <4>2, Zenon DEF Due, Vlanned
      <4> QED BY <4>2, <4>3, Zenon DEF BridgeInv, BridgeOf
    <3> QED BY <3>1, Zenon
  <2>5. CASE /\ At(a, "FindVlan") /\ conf[a].vlan \in vlanGw /\ vlanGw' = vlanGw
             /\ Push(a, <<Step("AddrList", Arg(a), <<>>)>>)
    BY <2>3, <2>5, Zenon DEF HasVlan
  <2>6. CASE /\ At(a, "FindVlan") /\ vlanGw' = vlanGw
             /\ Push(a, <<Step("VlanVeth", Arg(a), <<>>)>>)
    BY <2>3, <2>6, Zenon DEF Vlanned
  <2>7. CASE /\ At(a, "VlanVeth") /\ vlanGw' = vlanGw \cup {conf[a].vlan}
             /\ Push(a, <<Step("VlanPort", Arg(a), <<>>)>>)
    BY <2>3, <2>7, Zenon DEF HasVlan
  <2>8. CASE /\ At(a, "VlanPort") /\ vlanGw' = vlanGw
             /\ Push(a, <<Step("AddrList", Arg(a), <<>>)>>)
    BY <2>3, <2>4, <2>8, ZenonT(60) DEF HasVlan
  <2>9. CASE rest[a] # <<>> /\ Fail(a) /\ vlanGw' = vlanGw
    BY <1>2, <2>1, <2>9, Zenon
  <2> QED BY <1>5, <2>5, <2>6, <2>7, <2>8, <2>9, ZenonT(60) DEF ensureVlanInterface, At

<1>6. CASE AddrList(a)
  <2>1. /\ rest[a] # <<>> /\ Head(rest[a]).do = "AddrList"
        /\ Head(rest[a]).do \in GwSteps \ Late
        /\ UNCHANGED <<vlanGw, gwAddrs, forwarding>>
    BY <1>6, Zenon DEF AddrList, At, GwSteps, Late
  <2>2. CASE Fail(a) /\ listed' = listed
    BY <1>2, <2>1, <2>2, Zenon
  <2>3. ASSUME NEW on, listed' = [listed EXCEPT ![a] = on],
               \A h \in on : /\ h = Gateway(a) \/ Conflict(Gateway(a), h)
                             /\ <<conf[a].vlan, h>> \in gwAddrs,
               Push(a, <<Step("ensureAddr", Arg(a), <<>>)>>)
        PROVE  BridgeInv'
    <3>1. PICK k : k = Arg(a)
      BY Zenon
    <3>2. PICK y : y = Step("ensureAddr", k, <<>>)
      BY Zenon
    <3>3. Push(a, <<y>>)
      BY <2>3, <3>1, <3>2, Zenon
    <3>4. HasVlan(a)'
      <4>1. Head(rest[a]) \in Left(a) /\ Uses(a, "bridge") /\ Adds(a)
        BY <2>1, AtGateway, Zenon
      <4>2. Due(a, Vlanned)
        BY <2>1, <4>1, Zenon DEF Due, Vlanned
      <4> QED BY <2>1, <4>1, <4>2, Zenon DEF BridgeInv, BridgeOf, HasVlan
    <3>5. \A h \in listed'[a] :
            (h = conf[a].gws[k] /\ HasAddress(a, k)') \/ Conflict(conf[a].gws[k], h)
      BY <1>1, <2>1, <2>3, <3>1, Zenon DEF Gateway, HasAddress
    <3>6. "ensureAddr" \in GwSteps \ Late
      BY Zenon DEF GwSteps, Late
    <3>7. DOMAIN listed' = Att /\ \A b \in Att \ {a} : listed'[b] \subseteq listed[b]
      BY <1>1, <2>3, Zenon
    <3> QED BY <2>1, <3>1, <3>2, <3>3, <3>4, <3>5, <3>6, <3>7, BridgeMoves, ZenonT(60)
  <2> DEFINE on == {h \in {x[2] : x \in {y \in gwAddrs : y[1] = conf[a].vlan}} :
                      h = Gateway(a) \/ Conflict(Gateway(a), h)}
  <2>4. \/ Fail(a) /\ listed' = listed
        \/ listed' = [listed EXCEPT ![a] = on] /\ Push(a, <<Step("ensureAddr", Arg(a), <<>>)>>)
    BY <1>6, Zenon DEF AddrList
  <2>5. \A h \in on : /\ h = Gateway(a) \/ Conflict(Gateway(a), h)
                      /\ <<conf[a].vlan, h>> \in gwAddrs
    BY Zenon DEF GwPairs
  <2> HIDE DEF on
  <2> QED BY <2>2, <2>3, <2>4, <2>5, ZenonT(60)
<1>7. CASE ensureAddr(a)
  <2>1. PICK k : k = Arg(a)
    BY Zenon
  <2>2. /\ At(a, "ensureAddr") /\ rest[a] # <<>> /\ Head(rest[a]).do = "ensureAddr"
        /\ Head(rest[a]).do \in GwSteps /\ UNCHANGED <<vlanGw, forwarding>>
    BY <1>7, Zenon DEF ensureAddr, At, GwSteps
  <2>3. /\ Head(rest[a]) \in Left(a) /\ Uses(a, "bridge") /\ Adds(a)
        /\ k \in DOMAIN conf[a].gws /\ Head(rest[a]).arg = k
    BY <2>1, <2>2, AtGateway, Zenon
  <2>4. CASE /\ Gateway(a) \in listed[a] /\ Push(a, AfterGateway(conf[a], Arg(a)))
             /\ listed' = [listed EXCEPT ![a] = {}] /\ gwAddrs' = gwAddrs
    <3>1. HasAddress(a, k)
      <4>1. ~Conflict(conf[a].gws[k], conf[a].gws[k])
        BY Zenon DEF Conflict
      <4> QED BY <2>1, <2>2, <2>3, <2>4, <4>1, Zenon DEF BridgeInv, BridgeOf, Gateway
    <3>2. HasAddress(a, k)'
      BY <2>4, <3>1, AddressKept, Zenon
    <3>3. DOMAIN listed' = Att /\ \A b \in Att \ {a} : listed'[b] \subseteq listed[b]
      BY <1>1, <2>4, Zenon
    <3> QED BY <2>1, <2>2, <2>4, <3>2, <3>3, BridgeEnsured, ZenonT(60)
  <2>5. ASSUME conf[a].forceAddress, NEW h \in listed[a] \ {Gateway(a)},
               gwAddrs' = gwAddrs \ {<<conf[a].vlan, h>>},
               listed' = [listed EXCEPT ![a] = @ \ {h}], UNCHANGED <<rt, rest>>
        PROVE  BridgeInv'
    BY <2>2, <2>5, BridgeReplaces, Zenon
  <2>6. CASE /\ gwAddrs' = gwAddrs \cup {<<conf[a].vlan, Gateway(a)>>} /\ listed' = listed
             /\ Push(a, <<Step("LinkSetHardwareAddr", Arg(a), <<>>)>>)
    <3>1. HasAddress(a, k)'
      BY <2>1, <2>6, Zenon DEF HasAddress, Gateway
    <3> QED BY <1>1, <2>1, <2>2, <2>6, <3>1, BridgeEnsured, ZenonT(60)
  <2>7. CASE /\ gwAddrs \subseteq gwAddrs' /\ Fail(a)
             /\ listed' = listed \/ listed' = [listed EXCEPT ![a] = {}]
    BY <1>2, <2>2, <2>7, Zenon
  <2> QED BY <1>7, <2>4, <2>5, <2>6, <2>7, ZenonT(60) DEF ensureAddr
<1>8. CASE enableIPForward(a)
  <2>1. /\ At(a, "enableIPForward") /\ rest[a] # <<>>
        /\ UNCHANGED <<br, brPorts, vlanGw, gwAddrs, listed>>
    BY <1>8, Zenon DEF enableIPForward, At
  <2>2. CASE Fail(a) /\ forwarding' = forwarding
    BY <1>2, <2>1, <2>2, Zenon
  <2>3. CASE /\ forwarding' = forwarding \cup {Gateway(a).family}
             /\ Push(a, BridgeGateways(conf[a], Arg(a) + 1))
    BY <2>1, <2>3, BridgeForwards, Zenon
  <2> QED BY <1>8, <2>2, <2>3, Zenon DEF enableIPForward
<1>9. CASE LinkSetHardwareAddr(a)
  <2>1. /\ At(a, "LinkSetHardwareAddr") /\ ~At(a, "ensureAddr") /\ rest[a] # <<>>
        /\ UNCHANGED <<vlanGw, gwAddrs, forwarding, listed>>
        /\ Fail(a) \/ Push(a, AfterGateway(conf[a], Arg(a)))
    BY <1>9, Zenon DEF LinkSetHardwareAddr, At
  <2>2. CASE Fail(a)
    BY <1>2, <2>1, <2>2, Zenon
  <2>3. CASE Push(a, AfterGateway(conf[a], Arg(a)))
    BY <1>1, <2>1, <2>3, BridgeEnsured, Zenon
  <2> QED BY <2>1, <2>2, <2>3, Zenon
<1> QED BY <1>4, <1>5, <1>6, <1>7, <1>8, <1>9, ZenonT(60) DEF BridgeStep

(* A command that starts has its gateways to look at.                      *)
LEMMA BridgeStarts ==
  ASSUME Mech, BridgeInv, NEW a \in Att, NEW ph \in {"adding", "deleting"}, Started(a, ph)
  PROVE  BridgeInv'
<1>1. UNCHANGED <<conf, br, brPorts, vlanGw, gwAddrs, forwarding, listed>>
  BY Zenon DEF Started, linkVars, bridgeVars
<1>2. /\ \A p \in Plugins(a) : \E x \in Left(a)' : x.do = p
      /\ \A x \in Left(a)' : x.do \in Plugins(a) /\ x.do \in AllPlugins
      /\ \A b \in Att \ {a} : Left(b)' = Left(b) /\ rt'[b] = rt[b]
  BY StartedDue, Zenon
<1>3. BridgeOf(a)'
  <2>1. \A x \in Left(a)' : x.do \notin GwSteps
    BY <1>2, Zenon DEF GwSteps, AllPlugins, MainPlugins, ChainedPlugins
  <2>2. Uses(a, "bridge") => Due(a, {"bridge"})'
    BY <1>2, Zenon DEF Uses, Due
  <2>3. ~Due(a, Vlanned)' /\ \A x \in Left(a)' : x.do # "ensureAddr"
    BY <2>1, Zenon DEF Due, GwSteps, Vlanned
  <2> QED BY <1>1, <2>2, <2>3, Zenon DEF BridgeOf, ToCome, Uses, Plugins
<1>4. ASSUME NEW b \in Att \ {a} PROVE BridgeOf(b)'
  <2>1. \A x \in Left(b) : x.do \in GwSteps => x.arg \in DOMAIN conf[b].gws
    BY WordIs, Zenon DEF BridgeWord, BridgeSteps
  <2>2. \A i \in DOMAIN conf[b].gws : HasAddress(b, i) => HasAddress(b, i)'
    BY <1>1, AddressKept, Zenon
  <2>3. BridgeOf(b) /\ Left(b)' = Left(b) /\ (Adds(b)' <=> Adds(b))
    BY <1>2, Zenon DEF BridgeInv, Adds
  <2> QED BY <1>1, <2>1, <2>2, <2>3, BridgeSame, ZenonT(60)
<1> QED BY <1>1, <1>3, <1>4, Zenon DEF BridgeInv

(* A plugin that is run: that of bridge looks at its first gateway.        *)
LEMMA BridgeInvoke ==
  ASSUME Mech, LinkOrder, BridgeInv, NEW a \in Att, Invoke(a)
  PROVE  BridgeInv'
<1> DEFINE p == Head(rest[a]).do
           N == {"bridge"} \cup GwSteps
<1>1. PICK s : s = IF rt[a] = "adding" THEN PluginAdd(a, p) ELSE PluginDel(a, p)
  BY Zenon
<1>2. /\ rest[a] # <<>> /\ rt[a] \in {"adding", "deleting"} /\ Uses(a, p) /\ p \in AllPlugins
      /\ Went(a, s) /\ UNCHANGED <<conf, br, brPorts, vlanGw, gwAddrs, forwarding, listed>>
  BY <1>1, Invoked, Zenon DEF bridgeVars
<1>3. ASSUME Kept(N) PROVE BridgeInv'
  BY <1>2, <1>3, BridgeKept, Zenon DEF BridgeInv
<1>4. CASE p \notin {"veth", "bridge"}
  <2>1. p \notin N /\ StepsOf(p) \cap N = {}
    BY <1>2, <1>4 DEF StepsOf, GwSteps, DevSteps, TunSteps, NfSteps, BwAddSteps, VrfAddSteps,
       VrfDelSteps, SbrSteps, Choosing, AllPlugins, MainPlugins, ChainedPlugins
  <2> QED BY <1>3, <2>1, PluginKept, ZenonT(60)
<1>5. CASE p = "veth" \/ (p = "bridge" /\ rt[a] = "deleting")
  <2>1. \A x \in Elems(s) : x.do \in {"SetupVeth", "DelLinkByName"}
    BY <1>1, <1>2, <1>5, LinkPrograms, StepParts, SMTT(30)
  <2>2. \A x \in Elems(s) : x.do \notin N
    BY <2>1, Zenon DEF GwSteps
  <2>3. CASE p = "veth"
    BY <1>2, <1>3, <2>2, <2>3, WentKept, ZenonT(60) DEF GwSteps
  <2>4. CASE p = "bridge" /\ rt[a] = "deleting"
    <3>1. ASSUME NEW b \in Att PROVE BridgeOf(b)'
      <4>1. CASE b = a
        BY <1>2, <2>4, <4>1, Zenon DEF BridgeOf, Adds, Went
      <4>2. CASE b # a
        <5>1. \A x \in Left(b) : x.do \in GwSteps => x.arg \in DOMAIN conf[b].gws
          BY WordIs, Zenon DEF BridgeWord, BridgeSteps
        <5>2. \A i \in DOMAIN conf[b].gws : HasAddress(b, i) => HasAddress(b, i)'
          BY <1>2, AddressKept, Zenon
        <5>3. BridgeOf(b) /\ Left(b)' = Left(b) /\ (Adds(b)' <=> Adds(b))
          BY <1>2, <4>2, Zenon DEF BridgeInv, Went
        <5> QED BY <1>2, <5>1, <5>2, <5>3, BridgeSame, ZenonT(60)
      <4> QED BY <4>1, <4>2, Zenon
    <3> QED BY <1>2, <3>1, Zenon DEF BridgeInv
  <2> QED BY <1>5, <2>3, <2>4, ZenonT(60)
<1>6. CASE p = "bridge" /\ rt[a] = "adding"
  <2>1. PICK g : g = BridgeGateways(conf[a], 1)
    BY Zenon
  <2>2. PICK y : y = Step(IF conf[a].vlan # 0 THEN "FindVlan" ELSE "AddrList", 1, <<>>)
    BY Zenon
  <2>3. /\ y.do \in {"FindVlan", "AddrList"} /\ y.arg = 1
        /\ y.do = "AddrList" => conf[a].vlan = 0
    BY <2>2, StepParts, SMTT(30)
  <2>4. Elems(g) = IF 1 <= Len(conf[a].gws) THEN {y} ELSE {}
    BY <2>1, <2>2, ShortElems, ZenonT(60) DEF BridgeGateways, When
  <2>5. \A x \in Elems(s) : x.do \in {"ensureBridge", "SetupVeth", "PortOfBridge", "PortUp"}
                            \/ x \in Elems(g)
    BY <1>1, <1>6, <2>1, LinkPrograms, StepParts, SMTT(30)
  <2>6. Elems(g) \subseteq Elems(s)
    BY <1>1, <1>6, <2>1, LinkPrograms, ZenonT(60)
  <2>7. \A x \in Behind(a) : x.do \notin GwSteps
    <3>1. \A m \in GwSteps : <<p, m>> \in LinkBad(rt[a])
      BY <1>6, Zenon DEF LinkBad, AddBad
    <3> QED BY <1>2, <3>1, NotBehind, Zenon
  <2>8. /\ \A x \in Left(a)' : x.do \in GwSteps => x = y
        /\ Elems(g) \subseteq Left(a)'
    BY <1>2, <2>4, <2>5, <2>6, <2>7, ZenonT(60) DEF Went, GwSteps
  <2>9. OptionsOK("bridge", conf[a])
    BY <1>2, <1>6, ConfFacts, ZenonT(60) DEF Uses
  <2>10. Len(conf[a].gws) \in Nat /\ DOMAIN conf[a].gws = 1..Len(conf[a].gws)
    BY <2>9 DEF OptionsOK
  <2>11. BridgeOf(a)'
    <3>1. ASSUME NEW i \in DOMAIN conf[a].gws PROVE ToCome(a, i)'
      <4>1. 1 <= Len(conf[a].gws) /\ (1 < i \/ 1 = i)
        BY <2>10
      <4> QED BY <4>1, <2>3, <2>4, <2>8, ZenonT(60) DEF ToCome, GwSteps, Late
    <3>2. Due(a, Vlanned)' => HasVlan(a)'
      BY <1>2, <2>3, <2>8, Zenon DEF Due, HasVlan, GwSteps, Vlanned
    <3>3. \A x \in Left(a)' : x.do # "ensureAddr"
      BY <2>3, <2>8, Zenon DEF GwSteps
    <3> QED BY <1>2, <3>1, <3>2, <3>3, ZenonT(60) DEF BridgeOf, Uses, Plugins
  <2>12. ASSUME NEW b \in Att \ {a} PROVE BridgeOf(b)'
    <3>1. \A x \in Left(b) : x.do \in GwSteps => x.arg \in DOMAIN conf[b].gws
      BY WordIs, Zenon DEF BridgeWord, BridgeSteps
    <3>2. \A i \in DOMAIN conf[b].gws : HasAddress(b, i) => HasAddress(b, i)'
      BY <1>2, AddressKept, Zenon
    <3>3. BridgeOf(b) /\ Left(b)' = Left(b) /\ (Adds(b)' <=> Adds(b))
      BY <1>2, Zenon DEF BridgeInv, Went
    <3> QED BY <1>2, <3>1, <3>2, <3>3, BridgeSame, ZenonT(60)
  <2> QED BY <1>2, <2>11, <2>12, Zenon DEF BridgeInv
<1> QED BY <1>2, <1>4, <1>5, <1>6, Zenon

(* The steps that a command of an interface takes alone.                   *)
LEMMA VethPlain ==
  ASSUME Mech, NEW a \in Att, SetupVeth(a), NEW steps, steps \cap VethSteps = {}
  PROVE  Kept(steps)
<1>1. /\ rest[a] # <<>> /\ Head(rest[a]).do \in VethSteps /\ (Succeed(a) \/ Fail(a))
  BY Zenon DEF SetupVeth, At, VethSteps
<1> QED BY <1>1, PlainKept, Zenon

(* Steps keep what is known of the gateways.                               *)
LEMMA BridgeNext ==
  ASSUME Mech, LinkOrder, BridgeInv, GwPairs, [Next]_vars
  PROVE  BridgeInv' /\ GwPairs'
<1> DEFINE N == {"bridge"} \cup GwSteps
<1>1. ASSUME Kept(N), UNCHANGED <<conf, bridgeVars>> PROVE BridgeInv' /\ GwPairs'
  BY <1>1, BridgeKept, Zenon DEF BridgeInv, GwPairs, bridgeVars
<1>2. ASSUME NEW a \in Att, DeviceStep(a) \/ NetfilterStep(a) PROVE BridgeInv' /\ GwPairs'
  <2>1. UNCHANGED <<conf, bridgeVars>>
    BY <1>2, Zenon DEF DeviceStep, NetfilterStep, linkVars
  <2>2. (DevSteps \cup TunSteps) \cap N = {} /\ NfSteps \cap N = {}
    BY Zenon DEF DevSteps, TunSteps, NfSteps, GwSteps
  <2> QED BY <1>1, <1>2, <2>1, <2>2, PluginKept, ZenonT(60)
<1>3. ASSUME NEW a \in Att, LinkStep(a) PROVE BridgeInv' /\ GwPairs'
  <2>1. UNCHANGED conf
    BY <1>3, Zenon DEF LinkStep
  <2>2. CASE SetupVeth(a) /\ UNCHANGED bridgeVars
    BY <1>1, <2>1, <2>2, VethPlain, ZenonT(60) DEF VethSteps, GwSteps
  <2>3. CASE DelLink(a)
    <3>1. (VethSteps \cup NfSteps) \cap N = {}
      BY Zenon DEF VethSteps, NfSteps, GwSteps
    <3>2. Kept(N)
      BY <2>3, <3>1, PluginKept, Zenon
    <3>3. UNCHANGED <<vlanGw, gwAddrs, forwarding, listed>>
      BY <2>3, Zenon DEF DelLink, Forget, NoPorts
    <3> QED BY <2>1, <3>2, <3>3, BridgeKept, ZenonT(60) DEF BridgeInv, GwPairs
  <2>4. CASE BridgeStep(a)
    <3>1. BridgeInv'
      BY <2>1, <2>4, BridgeActs, Zenon
    <3>2. GwPairs'
      <4>1. \/ gwAddrs' \subseteq gwAddrs \/ \E x, y : gwAddrs' = gwAddrs \cup {<<x, y>>}
        BY <2>4, Zenon
           DEF BridgeStep, ensureBridge, PortOfBridge, ensureVlanInterface, AddrList, ensureAddr,
           LinkSetHardwareAddr, enableIPForward, PortUp, bridgeVars
      <4> QED BY <4>1, SMTT(30) DEF GwPairs
    <3> QED BY <3>1, <3>2, Zenon
  <2>5. CASE BandwidthStep(a) /\ UNCHANGED bridgeVars
    <3>1. (BwAddSteps \cup {"TeardownIfb"}) \cap N = {}
      BY Zenon DEF BwAddSteps, GwSteps
    <3> QED BY <1>1, <2>1, <2>5, <3>1, PluginKept, ZenonT(60)
  <2>6. CASE VrfStep(a) /\ UNCHANGED bridgeVars
    <3>1. (VrfAddSteps \cup VrfDelSteps) \cap N = {}
      BY Zenon DEF VrfAddSteps, VrfDelSteps, GwSteps
    <3> QED BY <1>1, <2>1, <2>6, <3>1, PluginKept, Zenon
  <2>7. CASE SbrStep(a) /\ UNCHANGED bridgeVars
    <3>1. SbrSteps \cap N = {}
      BY Zenon DEF SbrSteps, Choosing, GwSteps
    <3> QED BY <1>1, <2>1, <2>7, <3>1, PluginKept, ZenonT(60)
  <2> QED BY <1>3, <2>2, <2>3, <2>4, <2>5, <2>6, <2>7, ZenonT(60) DEF LinkStep
<1>4. ASSUME NEW a \in Att, StartAdd(a) \/ StartDel(a) PROVE BridgeInv' /\ GwPairs'
  <2>1. PICK ph \in {"adding", "deleting"} : Started(a, ph)
    BY <1>4, StartSteps, Zenon
  <2>2. UNCHANGED gwAddrs
    BY <2>1, Zenon DEF Started, linkVars, bridgeVars
  <2> QED BY <2>1, <2>2, BridgeStarts, Zenon DEF GwPairs
<1>5. ASSUME NEW a \in Att, Invoke(a) PROVE BridgeInv' /\ GwPairs'
  BY <1>5, BridgeInvoke, Zenon DEF GwPairs, Invoke, linkVars, bridgeVars
<1>6. ASSUME NEW a \in Att, Crash(a) PROVE BridgeInv' /\ GwPairs'
  <2>1. Kept(N)
    BY <1>6, CrashSteps, FailKept, Zenon
  <2>2. UNCHANGED <<conf, vlanGw, gwAddrs, forwarding>> /\ listed' = [listed EXCEPT ![a] = {}]
    BY <1>6, Zenon DEF Crash
  <2>3. DOMAIN listed' = Att /\ \A b \in Att : listed'[b] \subseteq listed[b]
    BY <2>2, Zenon DEF BridgeInv
  <2> QED BY <2>1, <2>2, <2>3, BridgeKept, Zenon DEF GwPairs
<1>7. ASSUME NEW a \in Att, NetnsGone(a) PROVE BridgeInv' /\ GwPairs'
  <2>1. Kept(N) /\ UNCHANGED conf
    BY <1>7, NetnsGoneSteps, IdleKept, Zenon DEF Idled
  <2>2. UNCHANGED <<vlanGw, gwAddrs, forwarding, listed>>
    BY <1>7, Zenon DEF NetnsGone, Forget, NoPorts
  <2> QED BY <2>1, <2>2, BridgeKept, Zenon DEF BridgeInv, GwPairs
<1>8. CASE UNCHANGED vars
  <2>1. Kept(N) /\ UNCHANGED <<conf, bridgeVars>>
    BY <1>8, IdleKept, Zenon DEF vars, linkVars, Idled
  <2> QED BY <1>1, <2>1, Zenon
<1> QED BY <1>2, <1>3, <1>4, <1>5, <1>6, <1>7, <1>8, ZenonT(60) DEF Next

(* What an attachment of the bridge plugin has as its gateway stays there  *)
(* and its family is forwarded, whoever else is attached to the bridge, or *)
(* replaces it as it is told to.                                           *)
THEOREM GatewaysKept == Spec => []GatewayKept
<1> DEFINE Inv == Mech /\ LinkOrder /\ BridgeInv /\ GwPairs
<1>1. Init => Inv
  <2>1. SUFFICES ASSUME Init PROVE Inv
    BY Zenon
  <2>2. Mech
    BY <2>1, MechInit, Zenon
  <2>3. LinkOrder /\ BridgeInv /\ GwPairs
    BY <2>1, Zenon DEF Init, BridgeInit, LinkOrder, BridgeInv, BridgeOf, Adds, GwPairs
  <2> QED BY <2>2, <2>3, Zenon
<1>2. Inv /\ [Next]_vars => Inv'
  BY MechNext, OrderNext, BridgeNext, Zenon
<1>3. Inv => GatewayKept
  <2>1. SUFFICES ASSUME Inv, NEW a \in Att, Uses(a, "bridge"), rt[a] = "attached",
                        NEW i \in DOMAIN conf[a].gws
                 PROVE  HasAddress(a, i) /\ HasVlan(a) /\ conf[a].gws[i].family \in forwarding
    BY Zenon DEF GatewayKept, HasAddress, HasVlan, Disputed
  <2>2. Left(a) = {}
    BY <2>1, ShortElems, Zenon DEF Mech, Left, Idle
  <2>3. ~ToCome(a, i)
    BY <2>2, Zenon DEF ToCome, Due
  <2>4. HasAddress(a, i) /\ HasVlan(a) /\ Forwarded(a, i)
    BY <2>1, <2>3, Zenon DEF BridgeInv, BridgeOf, Adds
  <2> QED BY <2>2, <2>4, Zenon DEF Forwarded
<1> QED BY <1>1, <1>2, <1>3, PTL DEF Spec

-----------------------------------------------------------------------------
VrfTables ==
  \A v, w \in vrfs :
    \/ v = w \/ v.of # w.of \/ v.table # w.table
    \/ \E a \in Att : conf[a].cid = v.of /\ Uses(a, "vrf") /\ conf[a].vrfTable # 0

VrfOf(a) ==
  Adds(a) /\ ns[a] /\ Uses(a, "vrf") =>
    /\ (a \in v6 /\ ~Due(a, {"LinkSetMaster"})) \/ Due(a, {"vrf", "restoreAddresses"})
    /\ (conf[a].sourced => a \in moved) \/ Due(a, {"vrf", "restoreRoutes"})

FewTables == Bounded({v.table : v \in vrfs})

VrfInv ==
  /\ FewTables /\ \A v \in vrfs : v.of \in Att /\ v.table \in Nat \ {0}
  /\ VrfTables /\ moved \subseteq veth /\ \A a \in moved : conf[a].sourced
  /\ \A a \in Att : VrfOf(a)

VrfNames == {"vrf", "LinkSetMaster", "restoreAddresses", "restoreRoutes"}

(* An attachment whose steps of vrf are the same, and that loses nothing.  *)
LEMMA VrfSame ==
  ASSUME NEW b \in Att, VrfOf(b), UNCHANGED conf, ns'[b] => ns[b],
         Adds(b)' /\ ns'[b] =>
           /\ Adds(b) /\ (b \in v6 => b \in v6') /\ (b \in moved => b \in moved')
           /\ \A x : x.do \in VrfNames => (x \in Left(b)' <=> x \in Left(b))
  PROVE  VrfOf(b)'
<1>1. SUFFICES ASSUME Adds(b)', ns'[b], Uses(b, "vrf")'
               PROVE  /\ \/ b \in v6' /\ ~Due(b, {"LinkSetMaster"})'
                         \/ Due(b, {"vrf", "restoreAddresses"})'
                      /\ (conf[b].sourced => b \in moved') \/ Due(b, {"vrf", "restoreRoutes"})'
  BY Zenon DEF VrfOf
<1>2. Uses(b, "vrf")
  BY <1>1, Zenon DEF Uses, Plugins
<1>3. ASSUME NEW S \in SUBSET VrfNames PROVE Due(b, S)' <=> Due(b, S)
  BY <1>1, Zenon DEF Due
<1>4. /\ Due(b, {"LinkSetMaster"})' <=> Due(b, {"LinkSetMaster"})
      /\ Due(b, {"vrf", "restoreAddresses"})' <=> Due(b, {"vrf", "restoreAddresses"})
      /\ Due(b, {"vrf", "restoreRoutes"})' <=> Due(b, {"vrf", "restoreRoutes"})
  BY <1>3, Zenon DEF VrfNames
<1> QED BY <1>1, <1>2, <1>4, Zenon DEF VrfOf

(* Where only other steps are done, nothing of VRFs changes.               *)
LEMMA VrfKept ==
  ASSUME VrfInv, Kept(VrfNames), UNCHANGED conf, NEW b \in Att, ns'[b] => ns[b],
         Adds(b)' /\ ns'[b] => (b \in v6 => b \in v6') /\ (b \in moved => b \in moved')
  PROVE  VrfOf(b)'
<1>1. Adds(b)' => rt'[b] \in Ended
  BY Zenon DEF Adds, Ended
<1> QED BY <1>1, VrfSame, Zenon DEF VrfInv, Kept

(* The VRFs do not get more: their tables stay apart.                      *)
LEMMA VrfsLess ==
  ASSUME VrfInv, UNCHANGED conf, vrfs' \subseteq vrfs
  PROVE  /\ FewTables' /\ \A v \in vrfs' : v.of \in Att /\ v.table \in Nat \ {0}
         /\ VrfTables'
<1>1. FewTables'
  <2>1. {v.table : v \in vrfs'} \subseteq {v.table : v \in vrfs}
    BY Zenon
  <2> QED BY <2>1, BoundedTables, Zenon DEF VrfInv, FewTables
<1>2. VrfTables'
  BY DEF VrfInv, VrfTables, Uses, Plugins
<1> QED BY <1>1, <1>2, Zenon DEF VrfInv

(* A VRF that is created gets a table of its own, if none is configured.   *)
LEMMA VrfMade ==
  ASSUME Mech, VrfInv, UNCHANGED conf, NEW a \in Att, Uses(a, "vrf"), NEW n,
         NEW t, t = IF conf[a].vrfTable # 0 THEN conf[a].vrfTable ELSE findFreeRoutingTableID(a),
         vrfs' = vrfs \cup {[of |-> Container(a), name |-> n, table |-> t]}
  PROVE  /\ FewTables' /\ \A v \in vrfs' : v.of \in Att /\ v.table \in Nat \ {0}
         /\ VrfTables'
<1>1. PICK z : z = [of |-> Container(a), name |-> n, table |-> t]
  BY Zenon
<1>2. z.of = Container(a) /\ z.table = t
  BY <1>1, Zenon
<1>3. Container(a) \in Att /\ conf[a].vrfTable \in Nat
  <2>1. ConfOK(conf[a]) /\ OptionsOK("vrf", conf[a])
    BY ConfFacts, Zenon DEF Uses
  <2> QED BY <2>1, Zenon DEF ConfOK, OptionsOK, Container
<1>4. \/ conf[a].vrfTable # 0 /\ t = conf[a].vrfTable
      \/ t \in Nat \ {0} /\ \A v \in vrfs : v.of = Container(a) => v.table # t
  <2>1. PICK W : W = {w \in vrfs : w.of = Container(a)}
    BY Zenon
  <2>2. PICK T : T = {v.table : v \in W}
    BY Zenon
  <2>3. Bounded(T)
    <3>1. T \subseteq {v.table : v \in vrfs}
      BY <2>1, <2>2, Zenon
    <3> QED BY <3>1, BoundedTables, Zenon DEF VrfInv, FewTables
  <2>4. FirstFree(T, 1) \in Nat /\ 1 <= FirstFree(T, 1) /\ FirstFree(T, 1) \notin T
    BY <2>3, FreeFound, Zenon
  <2>5. conf[a].vrfTable = 0 => t = FirstFree(T, 1)
    BY <2>1, <2>2, Zenon DEF findFreeRoutingTableID
  <2>6. \A v \in vrfs : v.of = Container(a) => v.table \in T
    BY <2>1, <2>2, Zenon
  <2>7. conf[a].vrfTable # 0 => t = conf[a].vrfTable
    BY Zenon
  <2> QED BY <2>4, <2>5, <2>6, <2>7, SMTT(30)
<1>5. FewTables'
  <2>1. {v.table : v \in vrfs'} = {v.table : v \in vrfs} \cup {t}
    BY <1>1, <1>2, Zenon
  <2>2. t \in Nat
    BY <1>3, <1>4, Zenon
  <2> QED BY <2>1, <2>2, BoundedTables, Zenon DEF VrfInv, FewTables
<1>6. \A v \in vrfs' : v.of \in Att /\ v.table \in Nat \ {0}
  BY <1>1, <1>2, <1>3, <1>4, ZenonT(60) DEF VrfInv
<1>7. vrfs' = vrfs \cup {z}
  BY <1>1, Zenon
<1>8. VrfTables'
  <2>1. SUFFICES ASSUME NEW v \in vrfs', NEW w \in vrfs', v # w, v.of = w.of, v.table = w.table
                 PROVE  \E b \in Att : conf'[b].cid = v.of /\ Uses(b, "vrf")' /\ conf'[b].vrfTable # 0
    BY DEF VrfTables
  <2>2. \A b \in Att : Uses(b, "vrf")' <=> Uses(b, "vrf")
    BY Zenon DEF Uses, Plugins
  <2>3. CASE v \in vrfs /\ w \in vrfs
    BY <2>1, <2>2, <2>3, Zenon DEF VrfInv, VrfTables
  <2>4. CASE ~(v \in vrfs /\ w \in vrfs)
    <3>1. v.of = Container(a) /\ v.table = t
      BY <1>2, <1>7, <2>1, <2>4, ZenonT(60)
    <3>2. conf[a].vrfTable # 0
      BY <1>2, <1>4, <1>7, <2>1, <2>4, <3>1, ZenonT(60)
    <3> QED BY <2>2, <3>1, <3>2, Zenon DEF Container
  <2> QED BY <2>3, <2>4, Zenon
<1> QED BY <1>5, <1>6, <1>8, ZenonT(60)

(* The step that an attachment is at, and what it does next.               *)
LEMMA AtVrf ==
  ASSUME Mech, NEW a \in Att, VrfStep(a)
  PROVE  /\ rest[a] # <<>> /\ Head(rest[a]) \in Left(a) /\ Uses(a, "vrf") /\ Linked(a)
         /\ \/ rt[a] = "adding" /\ Head(rest[a]).do \in VrfAddSteps
            \/ rt[a] = "deleting" /\ Head(rest[a]).do \in VrfDelSteps
<1>1. rest[a] # <<>> /\ Head(rest[a]).do \in VrfAddSteps \cup VrfDelSteps
  BY StepNames, Zenon
<1>2. VrfWord(rt[a], a, Head(rest[a])) /\ Head(rest[a]) \in Left(a)
  BY <1>1, HeadFacts, WordIs, Zenon
<1> QED BY <1>1, <1>2, UsesLinked, Zenon DEF VrfWord

(* Steps of vrf in terms of the sets they change.                          *)
LEMMA VrfEffects ==
  ASSUME Mech, LinkOrder, VethInv, VrfInv, NEW a \in Att, VrfStep(a), UNCHANGED conf
  PROVE  /\ moved' \subseteq veth /\ \A b \in moved' : conf[b].sourced
         /\ FewTables' /\ \A v \in vrfs' : v.of \in Att /\ v.table \in Nat \ {0}
         /\ VrfTables'
         /\ \A b \in Att \ {a} : (b \in v6 => b \in v6') /\ (b \in moved => b \in moved')
<1>1. /\ rest[a] # <<>> /\ Uses(a, "vrf") /\ Linked(a)
      /\ \/ rt[a] = "adding" /\ Head(rest[a]).do \in VrfAddSteps
         \/ rt[a] = "deleting" /\ Head(rest[a]).do \in VrfDelSteps
  BY AtVrf, Zenon
<1>2. CASE vrfs' = vrfs /\ moved' = moved /\ \A b \in Att \ {a} : b \in v6 => b \in v6'
  BY <1>2, VrfsLess, Zenon DEF VrfInv
<1>3. CASE restoreRoutes(a)
  <2>1. Head(rest[a]).do = "restoreRoutes" /\ rt[a] = "adding"
    BY <1>1, <1>3, Zenon DEF restoreRoutes, At, VrfDelSteps
  <2>2. Head(rest[a]).do \notin MainNames /\ {Head(rest[a]).do} \X MainNames \subseteq AddBad
    BY <2>1, Zenon DEF MainNames, AddBad
  <2>3. a \in veth
    BY <1>1, <2>1, <2>2, HasInterface, Zenon
  <2>4. /\ vrfs' = vrfs /\ v6' = v6 /\ moved \subseteq moved'
        /\ \A b \in moved' : b \in moved \/ (b = a /\ conf[a].sourced)
    BY <1>3, Zenon DEF restoreRoutes, VrfFail, vrfVars, vethVars
  <2> QED BY <2>3, <2>4, VrfsLess, Zenon DEF VrfInv
<1>4. CASE createVRF(a)
  <2>1. CASE UNCHANGED <<vrfVars, vethVars>>
    BY <1>2, <2>1, Zenon DEF vrfVars, vethVars
  <2>2. CASE ~UNCHANGED <<vrfVars, vethVars>>
    <3>1. PICK t : t = IF conf[a].vrfTable # 0 THEN conf[a].vrfTable ELSE findFreeRoutingTableID(a)
      BY Zenon
    <3>2. /\ vrfs' = vrfs \cup {[of |-> Container(a), name |-> conf[a].vrf, table |-> t]}
          /\ moved' = moved /\ v6' = v6
      BY <1>4, <2>2, <3>1, Zenon DEF createVRF, VrfFail, vethVars
    <3> QED BY <1>1, <3>1, <3>2, VrfMade, Zenon DEF VrfInv
  <2> QED BY <2>1, <2>2, Zenon
<1>5. CASE LinkDelVRF(a) \/ resetMaster(a)
  <2>1. vrfs' \subseteq vrfs /\ v6' = v6 /\ moved' \subseteq moved /\ moved \ {a} \subseteq moved'
    BY <1>5, Zenon DEF LinkDelVRF, resetMaster, VrfFail, vrfVars, vethVars
  <2> QED BY <2>1, VrfsLess, Zenon DEF VrfInv
<1>6. CASE LinkSetMaster(a) \/ restoreAddresses(a)
  <2>1. vrfs' = vrfs /\ moved' = moved /\ v6 \ {a} \subseteq v6'
    BY <1>6, Zenon DEF LinkSetMaster, restoreAddresses, VrfFail, vrfVars, vethVars
  <2> QED BY <1>2, <2>1, Zenon
<1>7. CASE findOrCreate(a) \/ LinkSetUpVRF(a) \/ saveAddresses(a) \/ findVRFToLeave(a)
  <2>1. vrfs' = vrfs /\ moved' = moved /\ v6' = v6
    BY <1>7, Zenon
       DEF findOrCreate, LinkSetUpVRF, saveAddresses, findVRFToLeave, vrfVars, vethVars
  <2> QED BY <1>2, <2>1, Zenon
<1> QED BY <1>3, <1>4, <1>5, <1>6, <1>7, ZenonT(60) DEF VrfStep

(* What is restored is there until another step of ADD takes it.           *)
LEMMA VrfOwn ==
  ASSUME Mech, LinkOrder, VrfInv, NEW a \in Att, VrfStep(a), UNCHANGED <<conf, ns>>
  PROVE  VrfOf(a)'
<1>1. /\ rest[a] # <<>> /\ Head(rest[a]) \in Left(a) /\ Uses(a, "vrf")
      /\ \/ rt[a] = "adding" /\ Head(rest[a]).do \in VrfAddSteps
         \/ rt[a] = "deleting" /\ Head(rest[a]).do \in VrfDelSteps
  BY AtVrf, Zenon
<1>2. CASE Fail(a)
  <2>1. Failed(a)
    BY <1>1, <1>2, FailedSteps, Zenon
  <2> QED BY <2>1, Zenon DEF Failed, Ended, Adds, VrfOf
<1>3. CASE rt[a] = "deleting" /\ ~Fail(a)
  <2>1. PICK s : IsSeq(s) /\ Push(a, s)
    <3>1. Succeed(a) => Push(a, <<>>)
      BY <1>1, SucceedPush, Zenon
    <3>2. \A x, y : IsSeq(<<x, y>>)
      BY ShortElems, Zenon
    <3>3. IsSeq(<<>>)
      BY ShortElems, Zenon
    <3> QED BY <1>3, <3>1, <3>2, <3>3, ZenonT(60)
       DEF VrfStep, findOrCreate, createVRF, LinkSetUpVRF, saveAddresses,
         LinkSetMaster, restoreAddresses, restoreRoutes, findVRFToLeave, resetMaster, LinkDelVRF, VrfFail
  <2>2. Went(a, s)
    BY <1>1, <1>3, <2>1, Going, ZenonT(60)
  <2>3. ~Adds(a)'
    BY <1>3, <2>2, Zenon DEF Went, Adds
  <2> QED BY <2>3, Zenon DEF VrfOf
<1>4. CASE rt[a] = "adding" /\ ~Fail(a)
  <2>1. Adds(a) /\ ns[a] /\ VrfOf(a)
    BY <1>4, Zenon DEF Adds, Mech, VrfInv
  <2>2. Left(a) = {Head(rest[a])} \cup Behind(a)
    BY <1>1, HeadFacts, Zenon
  <2>3. ASSUME findOrCreate(a) \/ createVRF(a) \/ LinkSetUpVRF(a) \/ saveAddresses(a) PROVE VrfOf(a)'
    <3>1. PICK u, v : u = Do("createVRF", <<>>) /\ v = Do("LinkSetUpVRF", <<>>)
      BY Zenon
    <3>2. /\ u.do \notin VrfNames /\ v.do \notin VrfNames /\ Elems(<<u, v>>) = {u, v}
          /\ IsSeq(<<u, v>>) /\ Elems(<<>>) = {} /\ IsSeq(<<>>)
      BY <3>1, StepParts, ShortElems, SMTT(30) DEF VrfNames
    <3>3. Push(a, <<u, v>>) \/ Push(a, <<>>)
      BY <1>1, <1>4, <2>3, <3>1, SucceedPush, ZenonT(60)
         DEF findOrCreate, createVRF, LinkSetUpVRF, saveAddresses, VrfFail
    <3>4. PICK s : IsSeq(s) /\ Went(a, s) /\ \A x \in Elems(s) : x.do \notin VrfNames
      BY <1>1, <1>4, <3>2, <3>3, Going, ZenonT(60)
    <3>5. Head(rest[a]).do \notin VrfNames
      BY <2>3, Zenon DEF findOrCreate, createVRF, LinkSetUpVRF, saveAddresses, At, VrfNames
    <3>6. v6' = v6 /\ moved' = moved
      BY <1>4, <2>3, ZenonT(60)
         DEF findOrCreate, createVRF, LinkSetUpVRF, saveAddresses, VrfFail, vrfVars, vethVars
    <3> QED BY <2>1, <2>2, <3>4, <3>5, <3>6, VrfSame, ZenonT(60) DEF Went
  <2>4. ASSUME Succeed(a)
        PROVE  /\ Left(a)' = Behind(a) /\ Uses(a, "vrf")
               /\ \A S : Head(rest[a]).do \notin S => (Due(a, S)' <=> Due(a, S))
    <3>1. Left(a)' = Behind(a)
      BY <1>1, <1>4, <2>4, Succeeded, ZenonT(60)
    <3> QED BY <1>1, <2>2, <3>1, ZenonT(60) DEF Due
  <2>5. CASE LinkSetMaster(a)
    <3>1. Succeed(a) /\ moved' = moved /\ Head(rest[a]).do = "LinkSetMaster"
      BY <1>4, <2>5, ZenonT(60) DEF LinkSetMaster, VrfFail, At
    <3>2. Due(a, {"LinkSetMaster"})
      BY <1>1, <3>1, ZenonT(60) DEF Due
    <3> QED BY <1>1, <2>1, <2>4, <3>1, <3>2, ZenonT(60) DEF VrfOf
  <2>6. CASE restoreAddresses(a)
    <3>1. Succeed(a) /\ moved' = moved /\ v6' = v6 \cup {a} /\ Head(rest[a]).do = "restoreAddresses"
      BY <1>4, <2>6, ZenonT(60) DEF restoreAddresses, VrfFail, At, vrfVars
    <3>2. <<Head(rest[a]).do, "LinkSetMaster">> \in LinkBad(rt[a])
      BY <1>4, <3>1, Zenon DEF LinkBad, AddBad
    <3>3. ~Due(a, {"LinkSetMaster"})'
      BY <1>1, <1>4, <2>4, <3>1, <3>2, NotBehind, ZenonT(60) DEF Due
    <3> QED BY <1>1, <2>1, <2>4, <3>1, <3>3, ZenonT(60) DEF VrfOf
  <2>7. CASE restoreRoutes(a)
    <3>1. /\ Succeed(a) /\ (conf[a].sourced => a \in moved') /\ v6' = v6
          /\ Head(rest[a]).do = "restoreRoutes"
      BY <1>4, <2>7, ZenonT(60) DEF restoreRoutes, VrfFail, At, vethVars
    <3> QED BY <1>1, <2>1, <2>4, <3>1, ZenonT(60) DEF VrfOf
  <2>8. ~(findVRFToLeave(a) \/ resetMaster(a) \/ LinkDelVRF(a))
    BY <1>1, <1>4, ZenonT(60) DEF findVRFToLeave, resetMaster, LinkDelVRF, At, VrfAddSteps
  <2> QED BY <2>3, <2>5, <2>6, <2>7, <2>8, ZenonT(60) DEF VrfStep
<1> QED BY <1>1, <1>2, <1>3, <1>4, ZenonT(60)

(* A command that starts is yet to run vrf.                                *)
LEMMA VrfStarts ==
  ASSUME Mech, VrfInv, NEW a \in Att, NEW ph \in {"adding", "deleting"}, Started(a, ph)
  PROVE  VrfInv'
<1>1. UNCHANGED <<conf, ns, veth, v6, vrfs, moved>> /\ rt'[a] = ph
  BY Zenon DEF Started, linkVars, vethVars, vrfVars
<1>2. /\ \A p \in Plugins(a) : \E x \in Left(a)' : x.do = p
      /\ \A b \in Att \ {a} : Left(b)' = Left(b) /\ rt'[b] = rt[b]
  BY StartedDue, Zenon
<1>3. ASSUME NEW b \in Att PROVE VrfOf(b)'
  <2>1. CASE b = a
    <3>1. Uses(a, "vrf")' => \E x \in Left(a)' : x.do = "vrf"
      BY <1>1, <1>2, ZenonT(60) DEF Uses, Plugins
    <3> QED BY <2>1, <3>1, ZenonT(60) DEF VrfOf, Due
  <2>2. CASE b # a
    BY <1>1, <1>2, <2>2, VrfSame, ZenonT(60) DEF VrfInv, Adds
  <2> QED BY <2>1, <2>2, ZenonT(60)
<1> QED BY <1>1, <1>3, VrfsLess, ZenonT(60) DEF VrfInv

(* ADD of vrf is yet to restore addresses and routes.                      *)
LEMMA VrfInvoke ==
  ASSUME Mech, VrfInv, NEW a \in Att, Invoke(a)
  PROVE  VrfInv'
<1> DEFINE p == Head(rest[a]).do
<1>1. PICK s : s = IF rt[a] = "adding" THEN PluginAdd(a, p) ELSE PluginDel(a, p)
  BY Zenon
<1>2. /\ rest[a] # <<>> /\ rt[a] \in {"adding", "deleting"} /\ Uses(a, p) /\ p \in AllPlugins
      /\ Went(a, s) /\ UNCHANGED <<conf, ns, veth, v6, vrfs, moved>>
  BY <1>1, Invoked, Zenon DEF vethVars, vrfVars
<1>3. ASSUME NEW b \in Att PROVE VrfOf(b)'
  <2>1. CASE p # "vrf"
    <3>1. p \notin VrfNames /\ StepsOf(p) \cap VrfNames = {}
      BY <1>2, <2>1, SMTT(30)
         DEF StepsOf, VrfNames, DevSteps, TunSteps, NfSteps, BwAddSteps, VethSteps, BridgeSteps,
         GwSteps, SbrSteps, Choosing, AllPlugins, MainPlugins, ChainedPlugins
    <3> QED BY <1>2, <3>1, PluginKept, VrfKept, ZenonT(60)
  <2>2. CASE p = "vrf" /\ b = a
    <3>1. rt[a] = "adding" =>
            Do("restoreAddresses", <<>>) \in Elems(s) /\ Do("restoreRoutes", <<>>) \in Elems(s)
      BY <1>1, <2>2, LinkPrograms, ZenonT(60)
    <3>2. /\ Do("restoreAddresses", <<>>).do = "restoreAddresses"
          /\ Do("restoreRoutes", <<>>).do = "restoreRoutes"
      BY StepParts, Zenon
    <3>3. Adds(a)' => rt[a] = "adding"
      BY <1>2, Zenon DEF Went, Adds
    <3>4. Adds(a)' => Due(a, {"vrf", "restoreAddresses"})' /\ Due(a, {"vrf", "restoreRoutes"})'
      BY <1>2, <3>1, <3>2, <3>3, ZenonT(60) DEF Went, Due
    <3> QED BY <2>2, <3>4, ZenonT(60) DEF VrfOf
  <2>3. CASE b # a
    <3>1. Left(b)' = Left(b) /\ (Adds(b)' <=> Adds(b))
      BY <1>2, <2>3, Zenon DEF Went
    <3> QED BY <1>2, <3>1, VrfSame, ZenonT(60) DEF VrfInv
  <2> QED BY <2>1, <2>2, <2>3, ZenonT(60)
<1> QED BY <1>2, <1>3, VrfsLess, ZenonT(60) DEF VrfInv

(* Steps keep what is known of the VRFs.                                   *)
LEMMA VrfNext ==
  ASSUME Mech, LinkOrder, VethInv, VrfInv, [Next]_vars
  PROVE  VrfInv'
<1>1. ASSUME Kept(VrfNames), UNCHANGED <<conf, ns>>, vrfs' = vrfs, moved' = moved,
             moved' \subseteq veth', v6 \subseteq v6'
      PROVE  VrfInv'
  BY <1>1, VrfKept, VrfsLess, Zenon DEF VrfInv
<1>2. ASSUME NEW a \in Att, DeviceStep(a) \/ NetfilterStep(a) PROVE VrfInv'
  <2>1. UNCHANGED <<conf, ns, veth, v6, vrfs, moved>>
    BY <1>2, Zenon DEF DeviceStep, NetfilterStep, linkVars, vethVars, vrfVars
  <2>2. (DevSteps \cup TunSteps) \cap VrfNames = {} /\ NfSteps \cap VrfNames = {}
    BY Zenon DEF DevSteps, TunSteps, NfSteps, VrfNames
  <2> QED BY <1>1, <1>2, <2>1, <2>2, PluginKept, ZenonT(60) DEF VrfInv
<1>3. ASSUME NEW a \in Att, LinkStep(a) PROVE VrfInv'
  <2>1. UNCHANGED <<conf, ns>>
    BY <1>3, Zenon DEF LinkStep
  <2>2. (VethSteps \cup BridgeSteps) \cap VrfNames = {} /\ (VethSteps \cup NfSteps) \cap VrfNames = {}
    BY Zenon DEF VethSteps, NfSteps, BridgeSteps, GwSteps, VrfNames
  <2>3. CASE SetupVeth(a) /\ UNCHANGED vrfVars
    <3>1. /\ veth \subseteq veth' /\ v6 \subseteq v6' /\ UNCHANGED <<vrfs, moved>>
      BY <2>3, Zenon DEF SetupVeth, vethVars, vrfVars
    <3> QED BY <1>1, <2>1, <2>2, <2>3, <3>1, PluginKept, ZenonT(60) DEF VrfInv
  <2>4. CASE DelLink(a)
    <3>1. Kept(VrfNames)
      BY <2>2, <2>4, PluginKept, Zenon
    <3>2. /\ rest[a] # <<>> /\ Head(rest[a]).do = "DelLinkByName"
          /\ \/ veth' = veth /\ v6' = v6
             \/ /\ veth' = veth \ {a} /\ v6' = v6 \ {a}
                /\ \E s : Prog(rt[a], a, s, NfSteps) /\ Push(a, s)
      BY <2>4, DelLinkShape, Zenon DEF NoVeth, vethVars
    <3>3. /\ moved' = moved \cap veth' /\ moved \subseteq veth /\ veth \subseteq Att
          /\ vrfs' = vrfs
      BY <2>4, Zenon DEF DelLink, Forget, NoMasters, VrfInv, VethInv
    <3>4. ASSUME veth' # veth \/ v6' # v6 PROVE ~Adds(a)'
      <4>1. PICK s : Prog(rt[a], a, s, NfSteps) /\ Push(a, s)
        BY <3>2, <3>4, Zenon
      <4>2. rt[a] = "deleting"
        BY <3>2, HeadFacts, WordIs, Zenon DEF VethWord, VethSteps
      <4>3. Went(a, s)
        BY <3>2, <4>1, <4>2, Going, ZenonT(60) DEF Prog
      <4> QED BY <4>2, <4>3, Zenon DEF Went, Adds
    <3>5. ASSUME NEW b \in Att PROVE VrfOf(b)'
      <4>1. Adds(b)' => (b \in v6 => b \in v6') /\ (b \in moved => b \in moved')
        BY <3>2, <3>3, <3>4, Zenon
      <4> QED BY <2>1, <3>1, <4>1, VrfKept, Zenon
    <3> QED BY <2>1, <3>3, <3>5, VrfsLess, ZenonT(60) DEF VrfInv
  <2>5. CASE (BridgeStep(a) \/ BandwidthStep(a)) /\ UNCHANGED <<vethVars, vrfVars>>
    <3>1. (BwAddSteps \cup {"TeardownIfb"}) \cap VrfNames = {}
      BY Zenon DEF BwAddSteps, VrfNames
    <3>2. Kept(VrfNames)
      BY <2>2, <2>5, <3>1, PluginKept, ZenonT(60)
    <3> QED BY <1>1, <2>1, <2>5, <3>2, ZenonT(60) DEF VrfInv, vethVars, vrfVars
  <2>6. CASE SbrStep(a) /\ UNCHANGED vrfVars
    <3>1. SbrSteps \cap VrfNames = {}
      BY Zenon DEF SbrSteps, Choosing, VrfNames
    <3>2. veth' = veth /\ v6' = v6
      BY <2>6, Zenon
         DEF SbrStep, sbrLock, sbrUnlock, sbrList, RuleAdd, RouteAdd, copyRoutes, RouteDel,
         tidyRules, SbrFail, vethVars
    <3>3. Kept(VrfNames)
      BY <2>6, <3>1, PluginKept, Zenon
    <3> QED BY <1>1, <2>1, <2>6, <3>2, <3>3, ZenonT(60) DEF VrfInv, vrfVars
  <2>7. CASE VrfStep(a)
    <3>1. VrfOf(a)'
      BY <2>1, <2>7, VrfOwn, ZenonT(60)
    <3>2. ASSUME NEW b \in Att \ {a} PROVE VrfOf(b)'
      <4>1. (Adds(b)' <=> Adds(b)) /\ Left(b)' = Left(b)
        BY <2>7, VrfShape, Others, Zenon DEF Adds
      <4> QED BY <2>1, <2>7, <4>1, VrfEffects, VrfSame, ZenonT(60) DEF VrfInv
    <3>3. veth' = veth
      BY <2>7, VethRest, Zenon
    <3> QED BY <2>1, <2>7, <3>1, <3>2, <3>3, VrfEffects, ZenonT(60) DEF VrfInv
  <2> QED BY <1>3, <2>3, <2>4, <2>5, <2>6, <2>7, ZenonT(60) DEF LinkStep
<1>4. ASSUME NEW a \in Att, StartAdd(a) \/ StartDel(a) PROVE VrfInv'
  BY <1>4, StartSteps, VrfStarts, Zenon
<1>5. ASSUME NEW a \in Att, Invoke(a) PROVE VrfInv'
  BY <1>5, VrfInvoke, Zenon
<1>6. ASSUME NEW a \in Att, Crash(a) PROVE VrfInv'
  <2>1. UNCHANGED <<conf, ns, veth, v6, vrfs, moved>>
    BY <1>6, Zenon DEF Crash, vethVars, vrfVars
  <2> QED BY <1>1, <1>6, <2>1, CrashSteps, FailKept, ZenonT(60) DEF VrfInv
<1>7. ASSUME NEW a \in Att, NetnsGone(a) PROVE VrfInv'
  <2> DEFINE gone == {b \in Att : conf[b].cid = conf[a].cid}
  <2>1. /\ UNCHANGED <<conf, rt, rest>>
        /\ \A b \in Att : IF b \in gone THEN ~ns'[b] ELSE (ns'[b] <=> ns[b])
    BY <1>7, NetnsGoneSteps, Zenon
  <2>2. veth' = veth \ gone /\ v6' = v6 \ gone /\ moved' = moved \ gone /\ vrfs' \subseteq vrfs
    BY <1>7, Zenon DEF NetnsGone, NoVeth, Forget, NoMasters
  <2> HIDE DEF gone
  <2>3. ASSUME NEW b \in Att PROVE VrfOf(b)'
    <3>1. (Adds(b)' <=> Adds(b)) /\ Left(b)' = Left(b)
      BY <2>1, Zenon DEF Adds, Left
    <3> QED BY <2>1, <2>2, <3>1, VrfSame, ZenonT(60) DEF VrfInv
  <2> QED BY <2>1, <2>2, <2>3, VrfsLess, ZenonT(60) DEF VrfInv
<1>8. CASE UNCHANGED vars
  <2>1. UNCHANGED <<conf, ns, veth, v6, vrfs, moved>> /\ Idled
    BY <1>8, ZenonT(60) DEF vars, linkVars, vethVars, vrfVars, Idled
  <2> QED BY <1>1, <2>1, IdleKept, Zenon DEF VrfInv
<1> QED BY <1>2, <1>3, <1>4, <1>5, <1>6, <1>7, <1>8, ZenonT(60) DEF Next

(* An interface that vrf attached has the addresses it had before it got a *)
(* master, and of its routes those with a preferred source, which are the  *)
(* ones that ADD saves; and the VRFs of a container have tables of      *)
(* their own: restoreAddresses comes after LinkSetMaster, and              *)
(* findFreeRoutingTableID counts what the VRFs of the namespace use.       *)
THEOREM VrfsKeepAddresses == Spec => []VrfKeepsAddresses
<1> DEFINE IInv == Mech /\ LinkOrder /\ VethInv /\ VrfInv
<1>1. Init => IInv
  <2> SUFFICES ASSUME Init PROVE IInv
    BY Zenon
  <2>1. Mech
    BY MechInit, Zenon
  <2>2. /\ \A a \in Att : rt[a] = "detached"
        /\ veth = {} /\ v6 = {} /\ main = {} /\ vrfs = {} /\ moved = {}
    BY Zenon DEF Init, VethInit, VrfInit
  <2>3. LinkOrder /\ VethInv
    BY <2>2, Zenon DEF LinkOrder, VethInv, Adds
  <2>4. FewTables
    <3>1. {v.table : v \in vrfs} = {}
      BY <2>2, Zenon
    <3> QED BY <3>1, BoundedTables, Zenon DEF FewTables
  <2>5. VrfInv
    BY <2>2, <2>4, Zenon DEF VrfInv, VrfTables, VrfOf, Adds
  <2> QED BY <2>1, <2>3, <2>5, ZenonT(60)
<1>2. IInv /\ [Next]_vars => IInv'
  BY MechNext, OrderNext, VethNext, VrfNext, ZenonT(60)
<1>3. IInv => VrfKeepsAddresses
  <2> SUFFICES ASSUME IInv PROVE VrfKeepsAddresses
    BY Zenon
  <2>1. ASSUME NEW a \in Att, Uses(a, "vrf"), rt[a] = "attached", ns[a]
        PROVE  a \in v6 /\ (a \in moved <=> conf[a].sourced)
    <3>1. Adds(a) /\ \A S : ~Due(a, S)
      BY <2>1 DEF Adds, Mech, Idle, Due, Left, Elems
    <3> QED BY <2>1, <3>1, ZenonT(60) DEF VrfInv, VrfOf
  <2> QED BY <2>1, Zenon DEF VrfKeepsAddresses, VrfInv, VrfTables
<1> QED BY <1>1, <1>2, <1>3, PTL DEF Spec
=============================================================================
