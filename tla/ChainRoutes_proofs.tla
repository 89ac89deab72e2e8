------------------------- MODULE ChainRoutes_proofs -------------------------
(***************************************************************************)
(* The routing rules and tables of the containers in Chain, for any lists  *)
(* of plugins.                                                             *)
(***************************************************************************)
EXTENDS ChainSteps_proofs

(* While ADD chooses tables it holds the lock, and has seen the tables of  *)
(* the other interfaces.                                                   *)
SbrRule(r) ==
  \E a \in Att, i \in Nat \ {0}, t \in Nat :
    /\ r = <<<<a, i>>, t>> /\ Uses(a, "sbr") /\ i <= conf[a].ips /\ a \in veth
    /\ IF conf[a].table = 0 THEN FirstTable <= t ELSE t = conf[a].table

HasRoutes(a, i) == \E t \in Nat : <<<<a, i>>, t>> \in rules \cap tables

Chosen(a, x) ==
  /\ lock[Container(a)] = a /\ Bounded(seen[a]) /\ table[a] \in Nat
  /\ FirstTable <= table[a] /\ table[a] \notin seen[a]
  /\ \A r \in rules : Container(r[1][1]) = Container(a) =>
       IF r[1][1] # a THEN r[2] \in seen[a]
       ELSE \/ r[1][2] < x.arg /\ r[2] < table[a]
            \/ r[1][2] = x.arg /\ r[2] = table[a] /\ x.do # "RuleAdd"
  /\ x.do # "RuleAdd" => <<<<a, x.arg>>, table[a]>> \in rules

OwnRules(a) == {r \in rules : r[1][1] = a}

Routed(a) ==
  /\ \A x \in Left(a) : x.do \in Choosing => Chosen(a, x)
  /\ \A i \in 1..conf[a].ips :
       \/ HasRoutes(a, i) \/ Due(a, {"sbr", "sbrList"})
       \/ \E x \in Left(a) : x.do \in Choosing /\ x.arg <= i
  /\ (a \notin main /\ ~Due(a, MainNames)) \/ Due(a, {"sbr"} \cup Routing)

SbrOf(a) ==
  Uses(a, "sbr") =>
    /\ Removes(a) => OwnRules(a) = {} \/ Due(a, {"sbr", "tidyRules"})
    /\ Adds(a) =>
         /\ Due(a, Routing) => Due(a, {"sbrLock"}) \/ lock[Container(a)] = a
         /\ Due(a, {"sbr", "sbrLock", "sbrList"}) => OwnRules(a) = {}
         /\ ns[a] /\ conf[a].table = 0 => Routed(a)

FewTables == Bounded({r[2] : r \in rules})

RulesApart ==
  /\ FewTables /\ \A r \in rules : SbrRule(r)
  /\ \A r, q \in rules : /\ conf[r[1][1]].table = 0
                         /\ Container(r[1][1]) = Container(q[1][1])
                         /\ r[2] = q[2] \/ r[1] = q[1]
                         => r = q

SbrInv ==
  /\ lock \in [Att -> Att \cup {NoAtt}] /\ DOMAIN seen = Att /\ DOMAIN table = Att
  /\ RulesApart /\ \A a \in Att : SbrOf(a)

SbrNames == {"sbr", "sbrLock", "tidyRules"} \cup Routing

(* What ADD has chosen stays so while it holds the lock, when its own      *)
(* rules stay.                                                             *)
LEMMA ChosenKept ==
  ASSUME NEW b \in Att, UNCHANGED conf, seen'[b] = seen[b], table'[b] = table[b],
         NEW x, Chosen(b, x),
         lock'[Container(b)] = b,
         \A r \in rules' : r \in rules \/ Container(r[1][1]) # Container(b),
         \A r \in rules : r[1][1] = b => r \in rules'
  PROVE  Chosen(b, x)'
<1>1. \A c : Container(c)' = Container(c)
  BY Zenon DEF Container
<1>2. \A r \in rules' : Container(r[1][1])' = Container(b)' => r \in rules
  BY <1>1, Zenon
<1>3. x.do # "RuleAdd" => <<<<b, x.arg>>, table[b]>> \in rules'
  <2>1. PICK r : r = <<<<b, x.arg>>, table[b]>>
    BY Zenon
  <2>2. r[1][1] = b
    BY <2>1, Zenon
  <2> QED BY <2>1, <2>2, Zenon DEF Chosen
<1> QED BY <1>1, <1>2, <1>3, Zenon DEF Chosen

(* Routes that were there stay.                                            *)
LEMMA RoutesKept ==
  ASSUME NEW b, NEW i, HasRoutes(b, i),
         \A r \in rules : r[1][1] = b => r \in rules' /\ (r \in tables => r \in tables')
  PROVE  HasRoutes(b, i)'
<1>1. PICK t \in Nat : <<<<b, i>>, t>> \in rules \cap tables
  BY Zenon DEF HasRoutes
<1>2. PICK r : r = <<<<b, i>>, t>>
  BY Zenon
<1>3. r[1][1] = b /\ r \in rules /\ r \in tables
  BY <1>1, <1>2, Zenon
<1>4. r \in rules' \cap tables'
  BY <1>3, Zenon
<1> QED BY <1>2, <1>4, Zenon DEF HasRoutes

(* Where ADD stands with its tables while it does none of these steps.     *)
LEMMA RoutedSame ==
  ASSUME NEW b \in Att, Routed(b), UNCHANGED conf, seen'[b] = seen[b], table'[b] = table[b],
         \A x : x.do \in {"sbr"} \cup Routing => (x \in Left(b)' <=> x \in Left(b)),
         lock[Container(b)] = b => lock'[Container(b)] = b \/ \A x \in Left(b)' : x.do \notin Choosing,
         \A r \in rules' : \/ r \in rules
                           \/ lock[Container(b)] = b => Container(r[1][1]) # Container(b),
         \A r \in rules : r[1][1] = b => r \in rules' /\ (r \in tables => r \in tables'),
         b \notin main /\ ~Due(b, MainNames) => b \notin main' /\ ~Due(b, MainNames)'
  PROVE  Routed(b)'
<1>1. ASSUME NEW S \in SUBSET ({"sbr"} \cup Routing) PROVE Due(b, S)' <=> Due(b, S)
  BY Zenon DEF Due
<1>2. /\ Due(b, {"sbr", "sbrList"})' <=> Due(b, {"sbr", "sbrList"})
      /\ Due(b, {"sbr"} \cup Routing)' <=> Due(b, {"sbr"} \cup Routing)
  BY <1>1, Zenon DEF Routing
<1>3. \A x : x.do \in Choosing => (x \in Left(b)' <=> x \in Left(b))
  BY Zenon DEF Routing
<1>4. ASSUME NEW x \in Left(b)', x.do \in Choosing PROVE Chosen(b, x)'
  <2>1. Chosen(b, x)
    BY <1>3, <1>4, Zenon DEF Routed
  <2>2. lock[Container(b)] = b
    BY <2>1, Zenon DEF Chosen
  <2> QED BY <1>4, <2>1, <2>2, ChosenKept, Zenon
<1>5. ASSUME NEW i \in 1..conf'[b].ips
      PROVE  \/ HasRoutes(b, i)' \/ Due(b, {"sbr", "sbrList"})'
             \/ \E x \in Left(b)' : x.do \in Choosing /\ x.arg <= i
  <2>1. \/ HasRoutes(b, i) \/ Due(b, {"sbr", "sbrList"})
        \/ \E x \in Left(b) : x.do \in Choosing /\ x.arg <= i
    BY <1>5, Zenon DEF Routed
  <2> QED BY <1>2, <1>3, <2>1, RoutesKept, Zenon
<1>6. (b \notin main' /\ ~Due(b, MainNames)') \/ Due(b, {"sbr"} \cup Routing)'
  BY <1>2, Zenon DEF Routed
<1> QED BY <1>4, <1>5, <1>6, Zenon DEF Routed

(* An attachment whose steps of sbr are the same, while others change what *)
(* is theirs.                                                              *)
LEMMA SbrSame ==
  ASSUME NEW b \in Att, SbrOf(b), UNCHANGED conf, ns'[b] => ns[b],
         seen'[b] = seen[b], table'[b] = table[b],
         rt'[b] \in Ended =>
           /\ (Adds(b)' <=> Adds(b)) /\ (Removes(b)' <=> Removes(b))
           /\ \A x : x.do \in SbrNames => (x \in Left(b)' <=> x \in Left(b)),
         lock[Container(b)] = b => lock'[Container(b)] = b,
         \A r \in rules' : \/ r \in rules
                           \/ /\ r[1][1] # b
                              /\ lock[Container(b)] = b => Container(r[1][1]) # Container(b),
         Adds(b)' /\ ns'[b] =>
           /\ \A r \in rules : r[1][1] = b => r \in rules' /\ (r \in tables => r \in tables')
           /\ b \notin main /\ ~Due(b, MainNames) => b \notin main' /\ ~Due(b, MainNames)'
  PROVE  SbrOf(b)'
<1>1. SUFFICES ASSUME Uses(b, "sbr")', rt'[b] \in Ended
               PROVE  /\ Removes(b)' => OwnRules(b)' = {} \/ Due(b, {"sbr", "tidyRules"})'
                      /\ Adds(b)' =>
                           /\ Due(b, Routing)' =>
                                Due(b, {"sbrLock"})' \/ lock'[Container(b)'] = b
                           /\ Due(b, {"sbr", "sbrLock", "sbrList"})' => OwnRules(b)' = {}
                           /\ ns'[b] /\ conf'[b].table = 0 => Routed(b)'
  BY Zenon DEF SbrOf, Ended, Adds, Removes
<1>2. Uses(b, "sbr") /\ Container(b)' = Container(b)
  BY <1>1, Zenon DEF Uses, Plugins, Container
<1>3. ASSUME NEW S \in SUBSET SbrNames PROVE Due(b, S)' <=> Due(b, S)
  BY <1>1, Zenon DEF Due
<1>4. /\ Due(b, {"sbr", "tidyRules"})' <=> Due(b, {"sbr", "tidyRules"})
      /\ Due(b, {"sbrLock"})' <=> Due(b, {"sbrLock"})
      /\ Due(b, Routing)' <=> Due(b, Routing)
      /\ Due(b, {"sbr", "sbrLock", "sbrList"})' <=> Due(b, {"sbr", "sbrLock", "sbrList"})
  BY <1>3, Zenon DEF SbrNames, Routing
<1>5. OwnRules(b) = {} => OwnRules(b)' = {}
  BY Zenon DEF OwnRules
<1>6. ASSUME Adds(b)', ns'[b], conf[b].table = 0 PROVE Routed(b)'
  <2>1. Routed(b)
    BY <1>1, <1>2, <1>6, Zenon DEF SbrOf
  <2>2. \A x : x.do \in {"sbr"} \cup Routing => (x \in Left(b)' <=> x \in Left(b))
    BY <1>1, Zenon DEF SbrNames
  <2> QED BY <1>6, <2>1, <2>2, RoutedSame, Zenon
<1>7. Adds(b)' => /\ Due(b, Routing)' => Due(b, {"sbrLock"})' \/ lock'[Container(b)'] = b
                  /\ Due(b, {"sbr", "sbrLock", "sbrList"})' => OwnRules(b)' = {}
  BY <1>1, <1>2, <1>4, <1>5, Zenon DEF SbrOf
<1>8. Removes(b)' => OwnRules(b)' = {} \/ Due(b, {"sbr", "tidyRules"})'
  BY <1>1, <1>2, <1>4, <1>5, Zenon DEF SbrOf
<1> QED BY <1>6, <1>7, <1>8, Zenon

(* Rules that go leave the others apart.                                   *)
LEMMA RulesLess ==
  ASSUME RulesApart, UNCHANGED conf, rules' \subseteq rules,
         \A r \in rules' : r[1][1] \in veth => r[1][1] \in veth'
  PROVE  RulesApart'
<1>1. FewTables'
  <2>1. {r[2] : r \in rules'} \subseteq {r[2] : r \in rules}
    BY Zenon
  <2> QED BY <2>1, BoundedTables, Zenon DEF RulesApart, FewTables
<1>2. ASSUME NEW r \in rules' PROVE SbrRule(r)'
  <2>1. PICK a \in Att, i \in Nat \ {0}, t \in Nat :
          /\ r = <<<<a, i>>, t>> /\ Uses(a, "sbr") /\ i <= conf[a].ips /\ a \in veth
          /\ IF conf[a].table = 0 THEN FirstTable <= t ELSE t = conf[a].table
    BY <1>2, Zenon DEF RulesApart, SbrRule
  <2>2. r[1][1] = a
    BY <2>1, Zenon
  <2>3. a \in veth' /\ Uses(a, "sbr")'
    BY <1>2, <2>1, <2>2, Zenon DEF Uses, Plugins
  <2> QED BY <2>1, <2>3, Zenon DEF SbrRule
<1> QED BY <1>1, <1>2, Zenon DEF RulesApart, Container

(* The step of sbr that an attachment is at.                               *)
LEMMA AtSbr ==
  ASSUME Mech, NEW a \in Att, SbrStep(a)
  PROVE  /\ rest[a] # <<>> /\ Head(rest[a]) \in Left(a) /\ Left(a) = {Head(rest[a])} \cup Behind(a)
         /\ Uses(a, "sbr") /\ Linked(a) /\ Head(rest[a]).do \in SbrSteps
         /\ SbrWord(rt[a], a, Head(rest[a])) /\ rt[a] \in {"adding", "deleting"}
         /\ conf[a].ips \in Nat /\ conf[a].table \in Nat /\ conf[a].gateway \in BOOLEAN
         /\ Container(a) \in Att /\ FirstTable \in Nat \ {0}
<1>1. rest[a] # <<>> /\ Head(rest[a]).do \in SbrSteps
  BY StepNames, Zenon
<1>2. /\ SbrWord(rt[a], a, Head(rest[a])) /\ Head(rest[a]) \in Left(a)
      /\ Left(a) = {Head(rest[a])} \cup Behind(a)
  BY <1>1, HeadFacts, WordIs, Zenon
<1>3. Uses(a, "sbr") /\ rt[a] \in {"adding", "deleting"}
  BY <1>2, Zenon DEF SbrWord
<1>4. OptionsOK("sbr", conf[a]) /\ ConfOK(conf[a]) /\ FirstTable \in Nat \ {0}
  BY <1>3, ConfFacts, Zenon DEF Uses
<1>5. conf[a].ips \in Nat /\ conf[a].table \in Nat /\ conf[a].gateway \in BOOLEAN
  BY <1>4, Zenon DEF OptionsOK
<1> QED BY <1>1, <1>2, <1>3, <1>4, <1>5, UsesLinked, ZenonT(60) DEF ConfOK, Container

(* ADD that comes to the rules holds the lock and has its interface, and   *)
(* will neither list the rules again nor come to another address but by    *)
(* this step.                                                              *)
LEMMA SbrHolds ==
  ASSUME Mech, LinkOrder, VethInv, SbrInv, NEW a \in Att, SbrStep(a),
         Head(rest[a]).do \in Routing
  PROVE  /\ rt[a] = "adding" /\ Adds(a) /\ ~Removes(a) /\ ns[a] /\ a \in veth
         /\ lock[Container(a)] = a /\ ~Due(a, MainNames)
         /\ \A x \in Behind(a) : x.do \notin MainNames \cup {"sbr", "sbrLock", "sbrList"} \cup Choosing
         /\ conf[a].table = 0 => Routed(a)
<1>1. /\ rest[a] # <<>> /\ Head(rest[a]) \in Left(a) /\ Left(a) = {Head(rest[a])} \cup Behind(a)
      /\ Uses(a, "sbr") /\ Linked(a) /\ SbrWord(rt[a], a, Head(rest[a]))
  BY AtSbr, Zenon
<1>2. rt[a] = "adding"
  BY <1>1, Zenon DEF SbrWord, Routing, Choosing
<1>3. ASSUME NEW m \in MainNames \cup {"sbr", "sbrLock", "sbrList"} \cup Choosing
      PROVE  <<Head(rest[a]).do, m>> \in LinkBad(rt[a])
  BY <1>2, <1>3, Zenon DEF LinkBad, AddBad
<1>4. \A x \in Behind(a) : x.do \notin MainNames \cup {"sbr", "sbrLock", "sbrList"} \cup Choosing
  BY <1>1, <1>2, <1>3, NotBehind, Zenon
<1>5. Adds(a) /\ ~Removes(a) /\ ns[a]
  BY <1>2, Zenon DEF Adds, Removes, Mech
<1>6. Due(a, Routing) /\ ~Due(a, {"sbrLock"})
  BY <1>1, <1>4, Zenon DEF Due, Routing, Choosing
<1>7. lock[Container(a)] = a /\ (conf[a].table = 0 => Routed(a))
  BY <1>1, <1>5, <1>6, Zenon DEF SbrInv, SbrOf
<1>8. Head(rest[a]).do \notin MainNames /\ {Head(rest[a]).do} \X MainNames \subseteq AddBad
  BY Zenon DEF MainNames, Routing, Choosing, AddBad
<1>9. a \in veth /\ ~Due(a, MainNames)
  BY <1>1, <1>2, <1>8, HasInterface, Zenon
<1> QED BY <1>2, <1>4, <1>5, <1>7, <1>9, Zenon

(* What a step of sbr leaves to the other attachments.                     *)
LEMMA SbrEffects ==
  ASSUME Mech, LinkOrder, VethInv, SbrInv, NEW a \in Att, SbrStep(a), UNCHANGED conf
  PROVE  /\ lock' \in [Att -> Att \cup {NoAtt}] /\ DOMAIN seen' = Att /\ DOMAIN table' = Att
         /\ \A b \in Att \ {a} :
              /\ seen'[b] = seen[b] /\ table'[b] = table[b] /\ (b \in main' => b \in main)
              /\ lock[Container(b)] = b => lock'[Container(b)] = b
         /\ tables \subseteq tables' /\ \A r \in rules : r[1][1] # a => r \in rules'
         /\ \/ rules' \subseteq rules
            \/ /\ At(a, "RuleAdd") /\ lock[Container(a)] = a
               /\ \E r : r[1][1] = a /\ rules' = rules \cup {r}
<1>1. /\ lock \in [Att -> Att \cup {NoAtt}] /\ DOMAIN seen = Att /\ DOMAIN table = Att
  BY Zenon DEF SbrInv
<1>2. Container(a) \in Att /\ NoAtt \notin Att /\ \A b \in Att : Container(b) \in Att
  BY AtSbr, ConfFacts, Zenon DEF ConfOK, Container
<1>3. Release(a) => /\ lock' \in [Att -> Att \cup {NoAtt}]
                    /\ \A b \in Att \ {a} : lock[Container(b)] = b => lock'[Container(b)] = b
  BY <1>1, <1>2, Zenon DEF Release
<1>4. lock' = lock => /\ lock' \in [Att -> Att \cup {NoAtt}]
                      /\ \A b \in Att \ {a} : lock[Container(b)] = b => lock'[Container(b)] = b
  BY <1>1, Zenon
<1>5. CASE SbrFail(a)
  BY <1>1, <1>3, <1>5, Zenon DEF SbrFail, vethVars
<1>6. CASE sbrLock(a) /\ ~SbrFail(a)
  <2>1. /\ lock[Container(a)] = NoAtt /\ lock' = [lock EXCEPT ![Container(a)] = a]
        /\ UNCHANGED <<rules, tables, seen, table, main>>
    BY <1>6, Zenon DEF sbrLock, vethVars
  <2>2. ASSUME NEW b \in Att \ {a}, lock[Container(b)] = b PROVE lock'[Container(b)] = b
    <3>1. Container(b) # Container(a)
      BY <1>2, <2>1, <2>2, Zenon
    <3> QED BY <1>1, <1>2, <2>1, <2>2, <3>1, Zenon
  <2>3. lock' \in [Att -> Att \cup {NoAtt}]
    BY <1>1, <1>2, <2>1, Zenon
  <2> QED BY <1>1, <2>1, <2>2, <2>3, Zenon
<1>7. CASE sbrUnlock(a)
  BY <1>1, <1>3, <1>7, Zenon DEF sbrUnlock, vethVars
<1>8. CASE (sbrList(a) \/ RouteAdd(a) \/ copyRoutes(a) \/ RouteDel(a)) /\ ~SbrFail(a)
  <2>1. /\ UNCHANGED <<lock, rules>> /\ tables \subseteq tables' /\ main' \subseteq main
        /\ seen' = seen \/ \E v : seen' = [seen EXCEPT ![a] = v]
        /\ table' = table \/ \E v : table' = [table EXCEPT ![a] = v]
    <3>1. CASE sbrList(a)
      BY <1>8, <3>1, Zenon DEF sbrList, vethVars
    <3>2. CASE RouteAdd(a)
      BY <1>8, <3>2, Zenon DEF RouteAdd, vethVars
    <3>3. CASE copyRoutes(a)
      BY <1>8, <3>3, Zenon DEF copyRoutes, vethVars
    <3>4. CASE RouteDel(a)
      BY <1>8, <3>4, Zenon DEF RouteDel, vethVars
    <3> QED BY <1>8, <3>1, <3>2, <3>3, <3>4, Zenon
  <2>2. /\ DOMAIN seen' = Att /\ DOMAIN table' = Att
        /\ \A b \in Att \ {a} : seen'[b] = seen[b] /\ table'[b] = table[b]
    BY <1>1, <2>1, Zenon
  <2> QED BY <1>1, <1>4, <2>1, <2>2, Zenon
<1>9. CASE RuleAdd(a) /\ ~SbrFail(a)
  <2>1. PICK t : /\ At(a, "RuleAdd") /\ rules' = rules \cup {<<<<a, Arg(a)>>, t>>}
                 /\ UNCHANGED <<lock, tables, seen, table, main>>
    BY <1>9, Zenon DEF RuleAdd, vethVars
  <2>2. PICK r : r = <<<<a, Arg(a)>>, t>>
    BY Zenon
  <2>3. r[1][1] = a
    BY <2>2, Zenon
  <2>4. Head(rest[a]).do \in Routing
    BY <2>1, Zenon DEF At, Routing, Choosing
  <2>5. lock[Container(a)] = a
    BY <2>4, SbrHolds, Zenon
  <2> QED BY <1>1, <1>4, <2>1, <2>2, <2>3, <2>5, ZenonT(60)
<1>10. CASE tidyRules(a)
  <2>1. \A r : r[1] \in Addresses(a) => r[1][1] = a
    BY DEF Addresses
  <2>2. /\ UNCHANGED <<tables, seen, table, main>> /\ (lock' = lock \/ Release(a))
        /\ rules' \subseteq rules /\ \A r \in rules : r \in rules' \/ r[1] \in Addresses(a)
    <3> DEFINE own == {r \in RulesOf(a) : /\ a \in veth /\ r[1] \in Addresses(a)
                                         /\ conf[a].table \in {0, r[2]}}
    <3>1. own \subseteq rules /\ \A r \in own : r[1] \in Addresses(a)
      BY Zenon DEF RulesOf
    <3>2. /\ UNCHANGED <<tables, seen, table, main>> /\ (lock' = lock \/ Release(a))
          /\ rules' = rules \ own \/ \E kept \in SUBSET own : rules' = (rules \ own) \cup kept
      BY <1>10, Zenon DEF tidyRules, vethVars
    <3> HIDE DEF own
    <3> QED BY <3>1, <3>2, Zenon
  <2>3. \A r \in rules : r[1][1] # a => r \in rules'
    BY <2>1, <2>2, Zenon
  <2> QED BY <1>1, <1>3, <1>4, <2>2, <2>3, Zenon
<1>11. sbrLock(a) \/ sbrUnlock(a) \/ sbrList(a) \/ RuleAdd(a) \/ RouteAdd(a) \/ copyRoutes(a)
         \/ RouteDel(a) \/ tidyRules(a)
  BY Zenon DEF SbrStep
<1> QED BY <1>5, <1>6, <1>7, <1>8, <1>9, <1>10, <1>11, ZenonT(60)

(* The others see no more than that.                                       *)
LEMMA SbrOthers ==
  ASSUME Mech, LinkOrder, VethInv, SbrInv, NEW a \in Att, SbrStep(a), UNCHANGED <<conf, ns>>,
         NEW b \in Att \ {a}
  PROVE  SbrOf(b)'
<1>1. Left(b)' = Left(b) /\ rt'[b] = rt[b]
  BY SbrShape, Others, Zenon
<1>2. (Adds(b)' <=> Adds(b)) /\ (Removes(b)' <=> Removes(b))
  BY <1>1, Zenon DEF Adds, Removes
<1>3. /\ seen'[b] = seen[b] /\ table'[b] = table[b] /\ (b \in main' => b \in main)
      /\ lock[Container(b)] = b => lock'[Container(b)] = b
      /\ tables \subseteq tables' /\ \A r \in rules : r[1][1] # a => r \in rules'
      /\ \/ rules' \subseteq rules
         \/ lock[Container(a)] = a /\ \E r : r[1][1] = a /\ rules' = rules \cup {r}
  BY SbrEffects, Zenon
<1>4. \A r \in rules' : \/ r \in rules
                        \/ /\ r[1][1] # b
                           /\ lock[Container(b)] = b => Container(r[1][1]) # Container(b)
  BY <1>3, Zenon
<1>5. SbrOf(b) /\ ns'[b] = ns[b]
  BY Zenon DEF SbrInv
<1>6. \A r \in rules : r[1][1] = b => r \in rules' /\ (r \in tables => r \in tables')
  BY <1>3, Zenon
<1>7. b \notin main /\ ~Due(b, MainNames) => b \notin main' /\ ~Due(b, MainNames)'
  BY <1>1, <1>3, Zenon DEF Due
<1> QED BY <1>1, <1>2, <1>3, <1>4, <1>5, <1>6, <1>7, SbrSame, ZenonT(60)

(* A table that is configured is none of those that sbr chooses from.      *)
LEMMA SbrConfigured ==
  ASSUME Mech, NEW a \in Att, NEW b \in Att, a # b, conf[a].cid = conf[b].cid,
         Uses(a, "sbr"), Uses(b, "sbr"), conf[a].table = 0
  PROVE  conf[b].table < FirstTable
<1>1. PICK i \in DOMAIN conf[a].chain, j \in DOMAIN conf[b].chain :
        conf[a].chain[i] = "sbr" /\ conf[b].chain[j] = "sbr"
  BY Zenon DEF Uses, Plugins
<1>2. conf \in Confs
  BY Zenon DEF Mech
<1> QED BY <1>1, <1>2, ConfsAssumed, Zenon DEF ConfsAssumption

(* The rule that is added is apart from those that are there.              *)
LEMMA RuleMade ==
  ASSUME Mech, LinkOrder, VethInv, SbrInv, NEW a \in Att, SbrStep(a), At(a, "RuleAdd"),
         UNCHANGED <<conf, veth>>, NEW k, k = Arg(a), NEW t,
         t = IF conf[a].table = 0 THEN table[a] ELSE conf[a].table,
         rules' = rules \cup {<<<<a, k>>, t>>}
  PROVE  RulesApart'
<1>1. PICK z : z = <<<<a, k>>, t>>
  BY Zenon
<1>2. z[1] = <<a, k>> /\ z[1][1] = a /\ z[1][2] = k /\ z[2] = t /\ rules' = rules \cup {z}
  BY <1>1, Zenon
<1>3. /\ Head(rest[a]).do = "RuleAdd" /\ Head(rest[a]).do \in Routing
      /\ Head(rest[a]).do \in Choosing /\ Head(rest[a]).arg = k
  BY Zenon DEF At, Routing, Choosing, Arg
<1>4. /\ Head(rest[a]) \in Left(a) /\ Uses(a, "sbr") /\ k \in 1..conf[a].ips
      /\ conf[a].table \in Nat /\ conf[a].ips \in Nat
  BY <1>3, AtSbr, Zenon DEF SbrWord
<1>5. a \in veth /\ (conf[a].table = 0 => Chosen(a, Head(rest[a])))
  BY <1>3, <1>4, SbrHolds, Zenon DEF Routed
<1>6. t \in Nat /\ (IF conf[a].table = 0 THEN FirstTable <= t ELSE t = conf[a].table)
  BY <1>4, <1>5, Zenon DEF Chosen
<1>7. ASSUME NEW r \in rules' PROVE SbrRule(r)'
  <2>1. CASE r = z
    <3>1. Uses(a, "sbr")' /\ k \in Nat \ {0} /\ k <= conf[a].ips
      BY <1>4 DEF Uses, Plugins
    <3> QED BY <1>1, <1>5, <1>6, <2>1, <3>1, ZenonT(60) DEF SbrRule
  <2>2. CASE r # z
    <3>1. SbrRule(r)
      BY <1>2, <1>7, <2>2, Zenon DEF SbrInv, RulesApart
    <3> QED BY <3>1, Zenon DEF SbrRule, Uses, Plugins
  <2> QED BY <2>1, <2>2, Zenon
<1>8. ASSUME NEW q \in rules, Container(q[1][1]) = Container(a),
             conf[a].table = 0 \/ conf[q[1][1]].table = 0
      PROVE  q[2] # t /\ q[1] # <<a, k>>
  <2>1. PICK b \in Att, i \in Nat \ {0}, u \in Nat :
          /\ q = <<<<b, i>>, u>> /\ Uses(b, "sbr")
          /\ IF conf[b].table = 0 THEN FirstTable <= u ELSE u = conf[b].table
    BY <1>8, Zenon DEF SbrInv, RulesApart, SbrRule
  <2>2. q[1] = <<b, i>> /\ q[1][1] = b /\ q[1][2] = i /\ q[2] = u
    BY <2>1, Zenon
  <2>3. CASE conf[a].table = 0
    <3>1. IF b # a THEN u \in seen[a] ELSE i < k /\ u < table[a]
      BY <1>3, <1>5, <1>8, <2>2, <2>3, Zenon DEF Chosen
    <3>2. table[a] \notin seen[a] /\ table[a] \in Nat /\ t = table[a]
      BY <1>5, <2>3, Zenon DEF Chosen
    <3> QED BY <1>4, <2>2, <3>1, <3>2, SMTT(30)
  <2>4. CASE conf[a].table # 0
    <3>1. conf[b].table = 0 /\ b # a /\ conf[b].cid = conf[a].cid
      BY <1>8, <2>2, <2>4, Zenon DEF Container
    <3>2. conf[a].table < FirstTable
      BY <1>4, <2>1, <3>1, SbrConfigured, Zenon
    <3>3. FirstTable <= u /\ t = conf[a].table /\ FirstTable \in Nat
      BY <2>1, <2>4, <3>1, ConfFacts, Zenon
    <3> QED BY <1>4, <2>2, <3>1, <3>2, <3>3, SMTT(30)
  <2> QED BY <2>3, <2>4, Zenon
<1>9. ASSUME NEW r \in rules', NEW q \in rules', conf[r[1][1]].table = 0,
             Container(r[1][1]) = Container(q[1][1]), r[2] = q[2] \/ r[1] = q[1]
      PROVE  r = q
  <2>1. CASE r \in rules /\ q \in rules
    BY <1>9, <2>1, Zenon DEF SbrInv, RulesApart
  <2>2. CASE r = z /\ q \in rules
    BY <1>2, <1>8, <1>9, <2>2, Zenon
  <2>3. CASE r \in rules /\ q = z
    BY <1>2, <1>8, <1>9, <2>3, Zenon
  <2> QED BY <1>2, <1>9, <2>1, <2>2, <2>3, Zenon
<1>10. FewTables'
  <2>1. {r[2] : r \in rules'} = {r[2] : r \in rules} \cup {t}
    BY <1>2, Zenon
  <2> QED BY <1>6, <2>1, BoundedTables, Zenon DEF SbrInv, RulesApart, FewTables
<1> QED BY <1>7, <1>9, <1>10, Zenon DEF RulesApart, Container

(* ADD goes on from one of its tables to the next step, and no further.    *)
LEMMA SbrGoes ==
  ASSUME Mech, LinkOrder, VethInv, SbrInv, NEW a \in Att, SbrStep(a),
         Head(rest[a]).do \in Routing, UNCHANGED <<conf, ns, lock>>,
         NEW s, Went(a, s), NEW y, Elems(s) \subseteq {y},
         y \in Elems(s) => y.do \in Choosing \cup {"RouteDel"},
         conf[a].table = 0 =>
           /\ y \in Elems(s) /\ y.do \in Choosing => Chosen(a, y)'
           /\ \A i \in 1..conf[a].ips :
                HasRoutes(a, i)' \/ (y \in Elems(s) /\ y.do \in Choosing /\ y.arg <= i)
           /\ a \notin main' \/ y \in Elems(s)
  PROVE  SbrOf(a)'
<1>1. /\ Adds(a) /\ ~Removes(a) /\ lock[Container(a)] = a /\ ns[a]
      /\ \A x \in Behind(a) : x.do \notin MainNames \cup {"sbr", "sbrLock", "sbrList"} \cup Choosing
  BY SbrHolds, Zenon
<1>2. /\ Adds(a)' /\ ~Removes(a)' /\ Left(a)' = Elems(s) \cup Behind(a)
  BY <1>1, Zenon DEF Went
<1>3. \A x \in Left(a)' : x = y \/ x \in Behind(a)
  BY <1>2, Zenon
<1>4. Choosing \cup {"RouteDel"} \subseteq Routing
  BY Zenon DEF Routing
<1>5. (Choosing \cup {"RouteDel"}) \cap (MainNames \cup {"sbr", "sbrLock", "sbrList"}) = {}
  BY Zenon DEF Choosing, MainNames
<1>6. ~Due(a, {"sbr", "sbrLock", "sbrList"})' /\ ~Due(a, MainNames)'
  BY <1>1, <1>2, <1>3, <1>5, Zenon DEF Due
<1>7. lock'[Container(a)'] = a
  BY <1>1, Zenon DEF Container
<1>8. ASSUME conf[a].table = 0 PROVE Routed(a)'
  <2>1. ASSUME NEW x \in Left(a)', x.do \in Choosing PROVE Chosen(a, x)'
    BY <1>1, <1>2, <1>8, <2>1, Zenon
  <2>2. ASSUME NEW i \in 1..conf'[a].ips
        PROVE  HasRoutes(a, i)' \/ \E x \in Left(a)' : x.do \in Choosing /\ x.arg <= i
    BY <1>2, <1>8, <2>2, Zenon
  <2>3. a \notin main' \/ Due(a, {"sbr"} \cup Routing)'
    BY <1>2, <1>4, <1>8, Zenon DEF Due
  <2> QED BY <1>6, <2>1, <2>2, <2>3, Zenon DEF Routed
<1> QED BY <1>2, <1>6, <1>7, <1>8, Zenon DEF SbrOf

(* Of the addresses that ADD is past, the routes are there.                *)
LEMMA SbrPast ==
  ASSUME Mech, LinkOrder, VethInv, SbrInv, NEW a \in Att, SbrStep(a), conf[a].table = 0,
         Head(rest[a]).do \in Choosing, NEW k, k = Arg(a)
  PROVE  /\ k \in 1..conf[a].ips /\ Chosen(a, Head(rest[a])) /\ Head(rest[a]).arg = k
         /\ \A i \in 1..conf[a].ips : i < k => HasRoutes(a, i)
<1>1. Head(rest[a]).do \in Routing /\ Head(rest[a]).do \notin {"sbr", "sbrList"}
  BY Zenon DEF Routing, Choosing
<1>2. /\ Routed(a)
      /\ \A x \in Behind(a) : x.do \notin MainNames \cup {"sbr", "sbrLock", "sbrList"} \cup Choosing
  BY <1>1, SbrHolds, Zenon
<1>3. /\ Head(rest[a]) \in Left(a) /\ Left(a) = {Head(rest[a])} \cup Behind(a)
      /\ Head(rest[a]).arg = k /\ k \in 1..conf[a].ips /\ conf[a].ips \in Nat
  BY AtSbr, Zenon DEF SbrWord, Arg
<1>4. ~Due(a, {"sbr", "sbrList"})
  BY <1>1, <1>2, <1>3, Zenon DEF Due
<1>5. ASSUME NEW i \in 1..conf[a].ips, i < k PROVE HasRoutes(a, i)
  <2>1. \A x \in Left(a) : x.do \in Choosing => x.arg = k
    BY <1>2, <1>3, Zenon
  <2>2. ~(k <= i)
    BY <1>3, <1>5
  <2> QED BY <1>2, <1>4, <2>1, <2>2, Zenon DEF Routed
<1> QED BY <1>2, <1>3, <1>5, Zenon DEF Routed

(* The program of sbr goes on one step at a time.                          *)
LEMMA SbrPushes ==
  ASSUME Mech, NEW a \in Att, SbrStep(a), NEW n, NEW i, NEW y, y = Step(n, i, <<>>)
  PROVE  /\ y.do = n /\ y.arg = i /\ Elems(<<y>>) = {y} /\ Elems(<<>>) = {}
         /\ Push(a, <<y>>) => Went(a, <<y>>)
         /\ Push(a, <<>>) \/ Succeed(a) => Went(a, <<>>)
<1>1. rest[a] # <<>> /\ rt[a] \in {"adding", "deleting"}
  BY AtSbr, Zenon
<1>2. y.do = n /\ y.arg = i
  BY StepParts
<1>3. Elems(<<y>>) = {y} /\ Elems(<<>>) = {} /\ IsSeq(<<y>>) /\ IsSeq(<<>>)
  BY ShortElems, Zenon
<1>4. Push(a, <<y>>) => Went(a, <<y>>)
  BY <1>1, <1>3, Going, Zenon
<1>5. Push(a, <<>>) \/ Succeed(a) => Went(a, <<>>)
  BY <1>1, <1>3, Going, SucceedPush, ZenonT(60)
<1> QED BY <1>2, <1>3, <1>4, <1>5, Zenon

(* ADD lists the rules under the lock and chooses its first table.         *)
LEMMA SbrLists ==
  ASSUME Mech, LinkOrder, VethInv, SbrInv, NEW a \in Att, SbrStep(a), sbrList(a), ~SbrFail(a),
         UNCHANGED <<conf, ns>>
  PROVE  SbrOf(a)'
<1>1. PICK used : used = {r[2] : r \in RulesOf(a)}
  BY Zenon
<1>2. /\ At(a, "sbrList") /\ seen' = [seen EXCEPT ![a] = used]
      /\ table' = [table EXCEPT ![a] = FirstFree(used, FirstTable)]
      /\ Push(a, doRoutes(conf[a], 1)) /\ UNCHANGED <<lock, rules, tables>>
  BY <1>1, Zenon DEF sbrList, getNextTableID
<1>3. Head(rest[a]).do = "sbrList" /\ Head(rest[a]).do \in Routing
  BY <1>2, Zenon DEF At, Routing
<1>4. /\ lock[Container(a)] = a /\ Adds(a) /\ Head(rest[a]) \in Left(a) /\ Uses(a, "sbr")
      /\ conf[a].ips \in Nat /\ FirstTable \in Nat
  BY <1>3, SbrHolds, AtSbr, Zenon
<1>5. Bounded(used)
  <2>1. used \subseteq {r[2] : r \in rules}
    BY <1>1, Zenon DEF RulesOf
  <2> QED BY <2>1, BoundedTables, Zenon DEF SbrInv, RulesApart, FewTables
<1>6. PICK t : t = FirstFree(used, FirstTable)
  BY Zenon
<1>7. t \in Nat /\ FirstTable <= t /\ t \notin used
  BY <1>4, <1>5, <1>6, FreeFound, Zenon
<1>8. seen'[a] = used /\ table'[a] = t
  BY <1>2, <1>6, Zenon DEF SbrInv
<1>9. OwnRules(a) = {}
  <2>1. Due(a, {"sbr", "sbrLock", "sbrList"})
    BY <1>3, <1>4, Zenon DEF Due
  <2> QED BY <1>4, <2>1, Zenon DEF SbrInv, SbrOf
<1>10. ASSUME NEW y, y.do = "RuleAdd" PROVE Chosen(a, y)'
  <2>1. \A c : Container(c)' = Container(c)
    BY Zenon DEF Container
  <2>2. \A r \in rules : Container(r[1][1]) = Container(a) => r[1][1] # a /\ r[2] \in used
    BY <1>1, <1>9, Zenon DEF RulesOf, OwnRules
  <2> QED BY <1>2, <1>4, <1>5, <1>7, <1>8, <1>10, <2>1, <2>2, ZenonT(60) DEF Chosen
<1>11. CASE 1 <= conf[a].ips
  <2>1. PICK y : y = Step("RuleAdd", 1, <<>>)
    BY Zenon
  <2>2. Push(a, <<y>>)
    BY <1>2, <1>11, <2>1, Zenon DEF doRoutes
  <2>3. y.do = "RuleAdd" /\ y.arg = 1 /\ Elems(<<y>>) = {y} /\ Went(a, <<y>>)
    BY <2>1, <2>2, SbrPushes, SMTT(30)
  <2>4. y.do \in Choosing
    BY <2>3, Zenon DEF Choosing
  <2>5. \A i \in 1..conf[a].ips : y.arg <= i
    BY <1>4, <2>3
  <2> QED BY <1>2, <1>3, <1>10, <2>3, <2>4, <2>5, SbrGoes, ZenonT(60)
<1>12. CASE ~(1 <= conf[a].ips)
  <2>1. PICK y : y = Step("RouteDel", <<>>, <<>>)
    BY Zenon
  <2>2. Push(a, <<y>>)
    BY <1>2, <1>12, <2>1, Zenon DEF doRoutes, Do
  <2>3. y.do = "RouteDel" /\ Elems(<<y>>) = {y} /\ Went(a, <<y>>)
    BY <2>1, <2>2, SbrPushes, Zenon
  <2>4. y.do \notin Choosing
    BY <2>3, Zenon DEF Choosing
  <2>5. 1..conf[a].ips = {}
    BY <1>4, <1>12, SMTT(30)
  <2> QED BY <1>2, <1>3, <2>3, <2>4, <2>5, SbrGoes, ZenonT(60)
<1> QED BY <1>11, <1>12, Zenon

(* A rule is added, and the routes of its table are next.                  *)
LEMMA SbrRules ==
  ASSUME Mech, LinkOrder, VethInv, SbrInv, NEW a \in Att, SbrStep(a), RuleAdd(a), ~SbrFail(a),
         UNCHANGED <<conf, ns>>
  PROVE  SbrOf(a)'
<1>1. PICK k, t : k = Arg(a) /\ t = IF conf[a].table = 0 THEN table[a] ELSE conf[a].table
  BY Zenon
<1>2. /\ At(a, "RuleAdd") /\ rules' = rules \cup {<<<<a, k>>, t>>}
      /\ Push(a, AfterRule(conf[a], k)) /\ UNCHANGED <<lock, tables, seen, table>>
  BY <1>1, Zenon DEF RuleAdd
<1>3. Head(rest[a]).do = "RuleAdd" /\ Head(rest[a]).do \in Routing /\ Head(rest[a]).do \in Choosing
  BY <1>2, Zenon DEF At, Routing, Choosing
<1>4. CASE conf[a].table = 0
  <2>1. /\ k \in 1..conf[a].ips /\ Chosen(a, Head(rest[a])) /\ Head(rest[a]).arg = k
        /\ \A i \in 1..conf[a].ips : i < k => HasRoutes(a, i)
    BY <1>1, <1>3, <1>4, SbrPast, ZenonT(60)
  <2>2. PICK n \in {"RouteAdd", "copyRoutes"} : AfterRule(conf[a], k) = <<Step(n, k, <<>>)>>
    BY <1>4, Zenon DEF AfterRule
  <2>3. PICK y : y = Step(n, k, <<>>)
    BY Zenon
  <2>4. y.do = n /\ y.arg = k /\ Elems(<<y>>) = {y} /\ Went(a, <<y>>)
    BY <1>2, <2>2, <2>3, SbrPushes, ZenonT(60)
  <2>5. y.do \in Choosing /\ y.do # "RuleAdd"
    BY <2>4, Zenon DEF Choosing
  <2>6. Chosen(a, y)'
    <3>1. \A c : Container(c)' = Container(c)
      BY Zenon DEF Container
    <3>2. PICK z : z = <<<<a, k>>, t>>
      BY Zenon
    <3>3. z[1][1] = a /\ z[1][2] = k /\ z[2] = table[a] /\ rules' = rules \cup {z}
      BY <1>1, <1>2, <1>4, <3>2, ZenonT(60)
    <3>4. \A r \in rules : Container(r[1][1]) = Container(a) =>
            IF r[1][1] # a THEN r[2] \in seen[a] ELSE r[1][2] < k /\ r[2] < table[a]
      BY <1>3, <2>1, Zenon DEF Chosen
    <3>5. \A r \in rules' : Container(r[1][1]) = Container(a) =>
            IF r[1][1] # a THEN r[2] \in seen[a]
            ELSE (r[1][2] < k /\ r[2] < table[a]) \/ (r[1][2] = k /\ r[2] = table[a])
      BY <3>3, <3>4, Zenon
    <3>6. <<<<a, y.arg>>, table'[a]>> \in rules'
      BY <1>1, <1>2, <1>4, <2>4, ZenonT(60)
    <3>7. /\ lock[Container(a)] = a /\ Bounded(seen[a]) /\ table[a] \in Nat
          /\ FirstTable <= table[a] /\ table[a] \notin seen[a]
      BY <2>1, Zenon DEF Chosen
    <3> QED BY <1>2, <2>4, <2>5, <3>1, <3>5, <3>6, <3>7, ZenonT(60) DEF Chosen
  <2>7. ASSUME NEW i \in 1..conf[a].ips PROVE HasRoutes(a, i)' \/ y.arg <= i
    <3>1. CASE i < k
      BY <1>2, <2>1, <2>7, <3>1, RoutesKept, ZenonT(60)
    <3>2. CASE ~(i < k)
      BY <2>1, <2>4, <2>7, <3>2, SMTT(30)
    <3> QED BY <3>1, <3>2, Zenon
  <2> QED BY <1>2, <1>3, <2>4, <2>5, <2>6, <2>7, SbrGoes, ZenonT(60)
<1>5. CASE conf[a].table # 0
  <2>1. PICK y : y = Step("RuleAdd", k + 1, <<>>)
    BY Zenon
  <2>2. Push(a, <<y>>) \/ Push(a, <<>>)
    BY <1>2, <1>5, <2>1, Zenon DEF AfterRule, doRoutesWithTable, When
  <2>3. /\ y.do = "RuleAdd" /\ Elems(<<y>>) = {y} /\ Elems(<<>>) = {}
        /\ Went(a, <<y>>) \/ Went(a, <<>>)
    BY <2>1, <2>2, SbrPushes, SMTT(30)
  <2>4. y.do \in Choosing
    BY <2>3, Zenon DEF Choosing
  <2>5. CASE Went(a, <<y>>)
    BY <1>2, <1>3, <1>5, <2>3, <2>4, <2>5, SbrGoes, ZenonT(60)
  <2>6. CASE Went(a, <<>>)
    BY <1>2, <1>3, <1>5, <2>3, <2>4, <2>6, SbrGoes, ZenonT(60)
  <2> QED BY <2>3, <2>5, <2>6, ZenonT(60)
<1> QED BY <1>4, <1>5, Zenon

(* The default route comes first.                                          *)
LEMMA SbrDefault ==
  ASSUME Mech, LinkOrder, VethInv, SbrInv, NEW a \in Att, SbrStep(a), RouteAdd(a), ~SbrFail(a),
         UNCHANGED <<conf, ns>>
  PROVE  SbrOf(a)'
<1>1. PICK k : k = Arg(a)
  BY Zenon
<1>2. PICK y : y = Step("copyRoutes", k, <<>>)
  BY Zenon
<1>3. /\ At(a, "RouteAdd") /\ Push(a, <<y>>) /\ UNCHANGED <<lock, rules, seen, table>>
      /\ tables \subseteq tables'
  BY <1>1, <1>2, Zenon DEF RouteAdd
<1>4. /\ Head(rest[a]).do = "RouteAdd" /\ Head(rest[a]).do \in Routing
      /\ Head(rest[a]).do \in Choosing
  BY <1>3, Zenon DEF At, Routing, Choosing
<1>5. conf[a].table = 0
  BY <1>4, AtSbr, Zenon DEF SbrWord
<1>6. /\ k \in 1..conf[a].ips /\ Chosen(a, Head(rest[a])) /\ Head(rest[a]).arg = k
      /\ \A i \in 1..conf[a].ips : i < k => HasRoutes(a, i)
  BY <1>1, <1>4, <1>5, SbrPast, ZenonT(60)
<1>7. y.do = "copyRoutes" /\ y.arg = k /\ Elems(<<y>>) = {y} /\ Went(a, <<y>>)
  BY <1>2, <1>3, SbrPushes, Zenon
<1>8. y.do \in Choosing
  BY <1>7, Zenon DEF Choosing
<1>9. Chosen(a, y)'
  <2>1. \A c : Container(c)' = Container(c)
    BY Zenon DEF Container
  <2>2. Chosen(a, y)
    BY <1>4, <1>6, <1>7, ZenonT(60) DEF Chosen
  <2> QED BY <1>3, <2>1, <2>2, ChosenKept, ZenonT(60) DEF Chosen
<1>10. ASSUME NEW i \in 1..conf[a].ips PROVE HasRoutes(a, i)' \/ y.arg <= i
  <2>1. CASE i < k
    BY <1>3, <1>6, <1>10, <2>1, RoutesKept, ZenonT(60)
  <2>2. CASE ~(i < k)
    BY <1>6, <1>7, <1>10, <2>2, SMTT(30)
  <2> QED BY <2>1, <2>2, Zenon
<1> QED BY <1>3, <1>4, <1>7, <1>8, <1>9, <1>10, SbrGoes, ZenonT(60)

(* The routes are copied, and the next address gets a table of its own.    *)
LEMMA SbrCopies ==
  ASSUME Mech, LinkOrder, VethInv, SbrInv, NEW a \in Att, SbrStep(a), copyRoutes(a), ~SbrFail(a),
         UNCHANGED <<conf, ns>>
  PROVE  SbrOf(a)'
<1>1. PICK k, t, u : k = Arg(a) /\ t = table[a] /\ u = FirstFree(seen[a], t + 1)
  BY Zenon
<1>2. /\ At(a, "copyRoutes") /\ Push(a, doRoutes(conf[a], k + 1)) /\ UNCHANGED <<lock, rules, seen>>
      /\ tables' = tables \cup {<<<<a, k>>, t>>} /\ table' = [table EXCEPT ![a] = u]
  BY <1>1, Zenon DEF copyRoutes, getNextTableID
<1>3. /\ Head(rest[a]).do = "copyRoutes" /\ Head(rest[a]).do \in Routing
      /\ Head(rest[a]).do \in Choosing
  BY <1>2, Zenon DEF At, Routing, Choosing
<1>4. conf[a].table = 0 /\ conf[a].ips \in Nat
  BY <1>3, AtSbr, Zenon DEF SbrWord
<1>5. /\ k \in 1..conf[a].ips /\ Chosen(a, Head(rest[a])) /\ Head(rest[a]).arg = k
      /\ \A i \in 1..conf[a].ips : i < k => HasRoutes(a, i)
  BY <1>1, <1>3, <1>4, SbrPast, ZenonT(60)
<1>6. /\ lock[Container(a)] = a /\ Bounded(seen[a]) /\ t \in Nat /\ FirstTable <= t
      /\ <<<<a, k>>, t>> \in rules
      /\ \A r \in rules : Container(r[1][1]) = Container(a) =>
           IF r[1][1] # a THEN r[2] \in seen[a]
           ELSE (r[1][2] < k /\ r[2] < t) \/ (r[1][2] = k /\ r[2] = t)
  BY <1>1, <1>3, <1>5, ZenonT(60) DEF Chosen
<1>7. u \in Nat /\ t + 1 <= u /\ u \notin seen[a]
  BY <1>1, <1>6, FreeFound, SMTT(30)
<1>8. table'[a] = u /\ FirstTable \in Nat
  BY <1>2, ConfFacts, Zenon DEF SbrInv
<1>9. ASSUME NEW i \in 1..conf[a].ips PROVE HasRoutes(a, i)' \/ k + 1 <= i
  <2>1. CASE i < k
    BY <1>2, <1>5, <1>9, <2>1, RoutesKept, ZenonT(60)
  <2>2. CASE i = k
    BY <1>2, <1>6, <2>2, ZenonT(60) DEF HasRoutes
  <2>3. CASE i > k
    BY <1>5, <1>9, <2>3, SMTT(30)
  <2> QED BY <1>5, <1>9, <2>1, <2>2, <2>3, SMTT(30)
<1>10. CASE k + 1 <= conf[a].ips
  <2>1. PICK y : y = Step("RuleAdd", k + 1, <<>>)
    BY Zenon
  <2>2. Push(a, <<y>>)
    BY <1>2, <1>10, <2>1, ZenonT(60) DEF doRoutes
  <2>3. y.do = "RuleAdd" /\ y.arg = k + 1 /\ Elems(<<y>>) = {y} /\ Went(a, <<y>>)
    BY <2>1, <2>2, SbrPushes, SMTT(30)
  <2>4. y.do \in Choosing
    BY <2>3, Zenon DEF Choosing
  <2>5. Chosen(a, y)'
    <3>1. \A c : Container(c)' = Container(c)
      BY Zenon DEF Container
    <3>2. ASSUME NEW r \in rules, Container(r[1][1]) = Container(a), r[1][1] = a
          PROVE  r[1][2] < k + 1 /\ r[2] < u
      <4>1. PICK i \in Nat, v \in Nat : r[1][2] = i /\ r[2] = v
        <5>1. SbrRule(r)
          BY <3>2, Zenon DEF SbrInv, RulesApart
        <5> QED BY <5>1 DEF SbrRule
      <4>2. (i < k /\ v < t) \/ (i = k /\ v = t)
        BY <1>6, <3>2, <4>1, Zenon
      <4> QED BY <1>5, <1>6, <1>7, <4>1, <4>2, SMTT(30)
    <3>3. FirstTable <= u
      BY <1>6, <1>7, <1>8, SMTT(30)
    <3> QED BY <1>2, <1>6, <1>7, <1>8, <2>3, <3>1, <3>2, <3>3, ZenonT(60) DEF Chosen
  <2> QED BY <1>2, <1>3, <1>9, <2>3, <2>4, <2>5, SbrGoes, ZenonT(60)
<1>11. CASE ~(k + 1 <= conf[a].ips)
  <2>1. PICK y : y = Step("RouteDel", <<>>, <<>>)
    BY Zenon
  <2>2. Push(a, <<y>>)
    BY <1>2, <1>11, <2>1, ZenonT(60) DEF doRoutes, Do
  <2>3. y.do = "RouteDel" /\ Elems(<<y>>) = {y} /\ Went(a, <<y>>)
    BY <2>1, <2>2, SbrPushes, Zenon
  <2>4. y.do \notin Choosing
    BY <2>3, Zenon DEF Choosing
  <2>5. \A i \in 1..conf[a].ips : HasRoutes(a, i)'
    BY <1>4, <1>5, <1>9, <1>11, SMTT(30)
  <2> QED BY <1>2, <1>3, <2>3, <2>4, <2>5, SbrGoes, ZenonT(60)
<1> QED BY <1>10, <1>11, Zenon

(* At last the routes leave the main table.                                *)
LEMMA SbrLast ==
  ASSUME Mech, LinkOrder, VethInv, SbrInv, NEW a \in Att, SbrStep(a), RouteDel(a), ~SbrFail(a),
         UNCHANGED <<conf, ns>>
  PROVE  SbrOf(a)'
<1>1. /\ At(a, "RouteDel") /\ Succeed(a) /\ main' = main \ {a}
      /\ UNCHANGED <<lock, rules, tables>>
  BY Zenon DEF RouteDel
<1>2. Head(rest[a]).do = "RouteDel" /\ Head(rest[a]).do \in Routing
  BY <1>1, Zenon DEF At, Routing
<1>3. conf[a].table = 0 /\ Left(a) = {Head(rest[a])} \cup Behind(a)
  BY <1>2, AtSbr, Zenon DEF SbrWord
<1>4. /\ Routed(a)
      /\ \A x \in Behind(a) : x.do \notin MainNames \cup {"sbr", "sbrLock", "sbrList"} \cup Choosing
  BY <1>2, <1>3, SbrHolds, Zenon
<1>5. ~Due(a, {"sbr", "sbrList"}) /\ \A x \in Left(a) : x.do \notin Choosing
  BY <1>2, <1>3, <1>4, Zenon DEF Due, Choosing
<1>6. \A i \in 1..conf[a].ips : HasRoutes(a, i)'
  BY <1>1, <1>4, <1>5, RoutesKept, ZenonT(60) DEF Routed
<1>7. PICK y : y = Step("RouteDel", <<>>, <<>>)
  BY Zenon
<1>8. Elems(<<>>) = {} /\ Went(a, <<>>)
  BY <1>1, <1>7, SbrPushes, Zenon
<1> QED BY <1>1, <1>2, <1>6, <1>8, SbrGoes, ZenonT(60)

(* The lock is taken and given back.                                       *)
LEMMA SbrLocks ==
  ASSUME Mech, LinkOrder, VethInv, SbrInv, NEW a \in Att, SbrStep(a), sbrLock(a) \/ sbrUnlock(a),
         ~SbrFail(a), UNCHANGED <<conf, ns>>
  PROVE  SbrOf(a)'
<1>1. /\ Succeed(a) /\ UNCHANGED <<rules, tables, seen, table, main>>
      /\ \/ At(a, "sbrLock") /\ lock' = [lock EXCEPT ![Container(a)] = a]
         \/ At(a, "sbrUnlock")
  BY Zenon DEF sbrLock, sbrUnlock, vethVars
<1>2. /\ rest[a] # <<>> /\ Head(rest[a]) \in Left(a) /\ Left(a) = {Head(rest[a])} \cup Behind(a)
      /\ Container(a) \in Att /\ rt[a] \in {"adding", "deleting"}
      /\ Container(a)' = Container(a) /\ Uses(a, "sbr")
  BY AtSbr, Zenon DEF Container
<1>3. Went(a, <<>>) /\ Left(a)' = Behind(a)
  BY <1>1, <1>2, Succeeded, Zenon
<1>4. (Adds(a)' <=> Adds(a)) /\ (Removes(a)' <=> Removes(a)) /\ OwnRules(a)' = OwnRules(a)
  BY <1>1, <1>3, Zenon DEF Went, OwnRules
<1>5. Head(rest[a]).do \in {"sbrLock", "sbrUnlock"}
  BY <1>1, Zenon DEF At
<1>6. \A S : Due(a, S)' => Due(a, S)
  BY <1>2, <1>3, Zenon DEF Due
<1>7. Due(a, {"sbr", "tidyRules"}) => Due(a, {"sbr", "tidyRules"})'
  BY <1>2, <1>3, <1>5, Zenon DEF Due
<1>8. SbrOf(a) /\ ns'[a] = ns[a]
  BY Zenon DEF SbrInv
<1>9. ASSUME Adds(a) PROVE \/ lock'[Container(a)] = a
                           \/ \A x \in Left(a)' : x.do \notin Routing
  <2>1. CASE At(a, "sbrLock") /\ lock' = [lock EXCEPT ![Container(a)] = a]
    BY <1>2, <2>1, Zenon DEF SbrInv
  <2>2. CASE At(a, "sbrUnlock")
    <3>1. rt[a] = "adding"
      BY <1>2, <1>9, Zenon DEF Adds
    <3>2. \A m \in Routing : <<Head(rest[a]).do, m>> \in LinkBad(rt[a])
      BY <2>2, <3>1, Zenon DEF At, LinkBad, AddBad, Routing, SbrSteps
    <3> QED BY <1>2, <1>3, <3>1, <3>2, NotBehind, ZenonT(60)
  <2> QED BY <1>1, <2>1, <2>2, SMTT(30)
<1>10. ASSUME Adds(a), ns[a], conf[a].table = 0 PROVE Routed(a)'
  <2>1. Routed(a)
    BY <1>2, <1>8, <1>10, ZenonT(60) DEF SbrOf
  <2>2. \A x : x.do \in {"sbr"} \cup Routing => (x \in Left(a)' <=> x \in Left(a))
    BY <1>2, <1>3, <1>5, ZenonT(60) DEF Routing, Choosing
  <2>3. lock'[Container(a)] = a \/ \A x \in Left(a)' : x.do \notin Choosing
    BY <1>9, <1>10, Zenon DEF Routing
  <2> QED BY <1>1, <1>6, <2>1, <2>2, <2>3, RoutedSame, ZenonT(60)
<1>11. Adds(a)' /\ Due(a, Routing)' => lock'[Container(a)'] = a
  BY <1>2, <1>4, <1>9, ZenonT(60) DEF Due
<1> QED BY <1>2, <1>4, <1>6, <1>7, <1>8, <1>10, <1>11, ZenonT(60) DEF SbrOf

(* DEL deletes every rule of the attachment.                               *)
LEMMA SbrTidies ==
  ASSUME Mech, SbrInv, NEW a \in Att, SbrStep(a), tidyRules(a), ~Fail(a), UNCHANGED <<conf, ns>>
  PROVE  SbrOf(a)'
<1> DEFINE own == {r \in RulesOf(a) : /\ a \in veth /\ r[1] \in Addresses(a)
                                      /\ conf[a].table \in {0, r[2]}}
<1>1. At(a, "tidyRules") /\ rules' = rules \ own /\ Succeed(a)
  BY Zenon DEF tidyRules
<1>2. /\ rest[a] # <<>> /\ SbrWord(rt[a], a, Head(rest[a])) /\ Head(rest[a]).do = "tidyRules"
      /\ conf[a].ips \in Nat
  BY <1>1, AtSbr, Zenon DEF At
<1>3. rt[a] = "deleting"
  BY <1>2, Zenon DEF SbrWord
<1>4. ~Adds(a)'
  <2>1. Went(a, <<>>)
    BY <1>1, <1>2, <1>3, Succeeded, Zenon
  <2> QED BY <1>3, <2>1, Zenon DEF Went, Adds
<1>5. OwnRules(a)' = {}
  <2>1. SUFFICES ASSUME NEW r \in rules, r[1][1] = a PROVE r \in own
    BY <1>1, Zenon DEF OwnRules
  <2>2. PICK b \in Att, i \in Nat \ {0}, t \in Nat :
          /\ r = <<<<b, i>>, t>> /\ i <= conf[b].ips /\ b \in veth
          /\ IF conf[b].table = 0 THEN FirstTable <= t ELSE t = conf[b].table
    BY <2>1, Zenon DEF SbrInv, RulesApart, SbrRule
  <2>3. r[1] = <<b, i>> /\ r[1][1] = b /\ r[2] = t
    BY <2>2, Zenon
  <2>4. b = a
    BY <2>1, <2>3, ZenonT(60)
  <2>5. r[1] \in Addresses(a)
    BY <1>2, <2>2, <2>3, <2>4, SMTT(30) DEF Addresses
  <2>6. r \in RulesOf(a)
    BY <2>1, Zenon DEF RulesOf
  <2> QED BY <2>2, <2>3, <2>4, <2>5, <2>6, ZenonT(60)
<1> QED BY <1>4, <1>5, Zenon DEF SbrOf

(* Steps of sbr keep what is known of its attachments.                     *)
LEMMA SbrActs ==
  ASSUME Mech, LinkOrder, VethInv, SbrInv, NEW a \in Att, SbrStep(a), UNCHANGED <<conf, ns>>
  PROVE  SbrInv'
<1>1. rest[a] # <<>>
  BY AtSbr, Zenon
<1>2. SbrOf(a)'
  <2>1. CASE Fail(a)
    <3>1. Failed(a)
      BY <1>1, <2>1, FailedSteps, Zenon
    <3> QED BY <3>1, Zenon DEF Failed, Ended, Adds, Removes, SbrOf
  <2>2. CASE ~Fail(a)
    <3>1. ~SbrFail(a)
      BY <2>2, Zenon DEF SbrFail
    <3> QED BY <2>2, <3>1, SbrLists, SbrRules, SbrDefault, SbrCopies, SbrLast, SbrLocks,
       SbrTidies, ZenonT(60)
       DEF SbrStep
  <2> QED BY <2>1, <2>2, Zenon
<1>3. veth' = veth
  BY VethRest, Zenon
<1>4. RulesApart'
  <2>1. CASE rules' \subseteq rules
    BY <1>3, <2>1, RulesLess, Zenon DEF SbrInv
  <2>2. CASE RuleAdd(a) /\ ~(rules' \subseteq rules)
    <3>1. PICK k, t : k = Arg(a) /\ t = IF conf[a].table = 0 THEN table[a] ELSE conf[a].table
      BY Zenon
    <3>2. At(a, "RuleAdd") /\ rules' = rules \cup {<<<<a, k>>, t>>}
      BY <2>2, <3>1, Zenon DEF RuleAdd, SbrFail
    <3> QED BY <1>3, <3>1, <3>2, RuleMade, Zenon
  <2>3. CASE ~(rules' \subseteq rules) /\ ~RuleAdd(a)
    <3>1. At(a, "RuleAdd")
      BY <2>3, SbrEffects, Zenon
    <3> QED BY <2>3, <3>1, ZenonT(60)
       DEF SbrStep, sbrLock, sbrUnlock, sbrList, RouteAdd, copyRoutes, RouteDel,
         tidyRules, At
  <2> QED BY <2>1, <2>2, <2>3, Zenon
<1>5. \A b \in Att \ {a} : SbrOf(b)'
  BY SbrOthers, Zenon
<1> QED BY <1>2, <1>4, <1>5, SbrEffects, ZenonT(60) DEF SbrInv

(* Steps that are none of sbr's, and leave its state alone but for what is *)
(* removed with an interface.                                              *)
LEMMA SbrKept ==
  ASSUME SbrInv, Kept(SbrNames), NEW b \in Att, UNCHANGED <<conf, lock, seen, table>>,
         ns'[b] => ns[b], rules' \subseteq rules,
         Adds(b)' /\ ns'[b] =>
           /\ \A r \in rules : r[1][1] = b => r \in rules' /\ (r \in tables => r \in tables')
           /\ b \notin main /\ ~Due(b, MainNames) => b \notin main' /\ ~Due(b, MainNames)'
  PROVE  SbrOf(b)'
<1>1. rt'[b] \in Ended =>
        /\ (Adds(b)' <=> Adds(b)) /\ (Removes(b)' <=> Removes(b))
        /\ \A x : x.do \in SbrNames => (x \in Left(b)' <=> x \in Left(b))
  BY Zenon DEF Kept
<1>2. SbrOf(b) /\ \A r \in rules' : r \in rules
  BY Zenon DEF SbrInv
<1> QED BY <1>1, <1>2, SbrSame, Zenon

(* No step left to the main plugin, none added to it.                      *)
LEMMA MainDone ==
  ASSUME Kept(MainNames), NEW b \in Att, main' \subseteq main
  PROVE  Adds(b)' => (b \notin main /\ ~Due(b, MainNames) => b \notin main' /\ ~Due(b, MainNames)')
<1>1. Adds(b)' => rt'[b] \in Ended
  BY Zenon DEF Adds, Ended
<1> QED BY <1>1, Zenon DEF Kept, Due

(* A command that starts has sbr yet to call: ADD is given an interface    *)
(* for which there are no rules.                                           *)
LEMMA SbrStarts ==
  ASSUME Mech, SbrInv, NEW a \in Att, NEW ph \in {"adding", "deleting"}, Started(a, ph)
  PROVE  SbrInv'
<1>1. UNCHANGED <<conf, ns, veth, main, lock, rules, tables, seen, table>> /\ rt'[a] = ph
  BY Zenon DEF Started, linkVars, vethVars, sbrVars
<1>2. /\ \A p \in Plugins(a) : \E x \in Left(a)' : x.do = p
      /\ \A x \in Left(a)' : x.do \in AllPlugins
      /\ \A b \in Att \ {a} : Left(b)' = Left(b) /\ rt'[b] = rt[b]
  BY StartedDue, Zenon
<1>3. ASSUME NEW b \in Att PROVE SbrOf(b)'
  <2>1. CASE b = a
    <3>1. SUFFICES ASSUME Uses(a, "sbr")' PROVE SbrOf(a)'
      BY <2>1, Zenon DEF SbrOf
    <3>2. PICK y \in Left(a)' : y.do = "sbr"
      BY <1>1, <1>2, <3>1, Zenon DEF Uses, Plugins
    <3>3. Uses(a, "sbr")
      BY <1>1, <3>1, Zenon DEF Uses, Plugins
    <3>4. /\ Due(a, {"sbr", "tidyRules"})' /\ Due(a, {"sbr", "sbrList"})' /\ Due(a, {"sbr"} \cup Routing)'
          /\ (Adds(a)' <=> ph = "adding")
      BY <1>1, <3>2, Zenon DEF Due, Adds
    <3>5. \A x \in Left(a)' : x.do \notin Routing /\ x.do \notin Choosing
      BY <1>2, Zenon DEF AllPlugins, MainPlugins, ChainedPlugins, Routing, Choosing
    <3>6. ~Due(a, Routing)'
      BY <3>5, Zenon DEF Due
    <3>7. ASSUME ph = "adding" PROVE OwnRules(a)' = {}
      <4>1. Removes(a) /\ Left(a) = {}
        BY <3>7, SMTT(30) DEF Started, Removes, Mech, Idle, Left, Elems
      <4>2. ~Due(a, {"sbr", "tidyRules"})
        BY <4>1, Zenon DEF Due
      <4>3. OwnRules(a) = {}
        BY <3>3, <4>1, <4>2, Zenon DEF SbrInv, SbrOf
      <4> QED BY <1>1, <4>3, ZenonT(60) DEF OwnRules
    <3>8. Routed(a)'
      BY <3>4, <3>5, Zenon DEF Routed
    <3> QED BY <2>1, <3>4, <3>6, <3>7, <3>8, ZenonT(60) DEF SbrOf
  <2>2. CASE b # a
    <3>1. /\ (Adds(b)' <=> Adds(b)) /\ (Removes(b)' <=> Removes(b)) /\ Left(b)' = Left(b)
      BY <1>2, <2>2, Zenon DEF Adds, Removes
    <3>2. Due(b, MainNames)' <=> Due(b, MainNames)
      BY <3>1, Zenon DEF Due
    <3>3. SbrOf(b)
      BY Zenon DEF SbrInv
    <3> QED BY <1>1, <3>1, <3>2, <3>3, SbrSame, ZenonT(60)
  <2> QED BY <2>1, <2>2, Zenon
<1> QED BY <1>1, <1>3, RulesLess, Zenon DEF SbrInv

(* ADD of sbr is yet to lock the namespace, DEL is yet to tidy rules.      *)
LEMMA SbrInvoke ==
  ASSUME Mech, LinkOrder, SbrInv, NEW a \in Att, Invoke(a)
  PROVE  SbrInv'
<1> DEFINE p == Head(rest[a]).do
<1>1. PICK s : s = IF rt[a] = "adding" THEN PluginAdd(a, p) ELSE PluginDel(a, p)
  BY Zenon
<1>2. /\ rest[a] # <<>> /\ rt[a] \in {"adding", "deleting"} /\ Uses(a, p) /\ p \in AllPlugins
      /\ Went(a, s) /\ UNCHANGED <<conf, ns, veth, main, lock, rules, tables, seen, table>>
  BY <1>1, Invoked, Zenon DEF vethVars, sbrVars
<1>3. ASSUME NEW b \in Att \ {a} PROVE SbrOf(b)'
  <2>1. (Adds(b)' <=> Adds(b)) /\ (Removes(b)' <=> Removes(b)) /\ Left(b)' = Left(b)
    BY <1>2, <1>3, ZenonT(60) DEF Went
  <2>2. Due(b, MainNames)' <=> Due(b, MainNames)
    BY <2>1, Zenon DEF Due
  <2>3. SbrOf(b)
    BY Zenon DEF SbrInv
  <2> QED BY <1>2, <2>1, <2>2, <2>3, SbrSame, ZenonT(60)
<1>4. CASE p # "sbr"
  <2>1. Kept(SbrNames)
    <3>1. p \notin SbrNames /\ StepsOf(p) \cap SbrNames = {}
      BY <1>2, <1>4, SMTT(30)
         DEF StepsOf, SbrNames, Routing, DevSteps, TunSteps, NfSteps, BwAddSteps, VethSteps,
         BridgeSteps, GwSteps, VrfAddSteps, VrfDelSteps, Choosing, AllPlugins, MainPlugins, ChainedPlugins
    <3> QED BY <3>1, PluginKept, ZenonT(60)
  <2>2. Adds(a)' => (a \notin main /\ ~Due(a, MainNames) => a \notin main' /\ ~Due(a, MainNames)')
    <3>1. CASE p \in {"veth", "bridge"}
      <4>1. Head(rest[a]) \in Left(a)
        BY <1>2, Zenon DEF Went
      <4>2. Due(a, MainNames)
        BY <3>1, <4>1, ZenonT(60) DEF Due, MainNames
      <4> QED BY <4>2, Zenon
    <3>2. CASE p \notin {"veth", "bridge"}
      <4>1. p \notin MainNames /\ StepsOf(p) \cap MainNames = {}
        BY <1>2, <1>4, <3>2, SMTT(30)
           DEF StepsOf, MainNames, DevSteps, TunSteps, NfSteps, BwAddSteps, VrfAddSteps,
           VrfDelSteps, AllPlugins, MainPlugins, ChainedPlugins
      <4>2. Kept(MainNames)
        BY <4>1, PluginKept, ZenonT(60)
      <4> QED BY <1>2, <4>2, MainDone, ZenonT(60)
    <3> QED BY <3>1, <3>2, ZenonT(60)
  <2>3. SbrOf(a)'
    BY <1>2, <2>1, <2>2, SbrKept, ZenonT(60)
  <2> QED BY <1>2, <1>3, <2>3, RulesLess, ZenonT(60) DEF SbrInv
<1>5. CASE p = "sbr"
  <2>1. /\ Uses(a, "sbr") /\ Head(rest[a]) \in Left(a) /\ Head(rest[a]).do = "sbr"
        /\ Behind(a) \subseteq Left(a)'
    BY <1>2, <1>5, Zenon DEF Went
  <2>2. ASSUME rt[a] = "deleting" PROVE SbrOf(a)'
    <3>1. Do("tidyRules", <<>>) \in Elems(s) /\ Do("tidyRules", <<>>).do = "tidyRules"
      BY <1>1, <1>5, <2>2, LinkPrograms, StepParts, ZenonT(60)
    <3>2. Due(a, {"sbr", "tidyRules"})'
      BY <1>2, <3>1, ZenonT(60) DEF Went, Due
    <3>3. ~Adds(a)'
      BY <1>2, <2>2, ZenonT(60) DEF Went, Adds
    <3> QED BY <3>2, <3>3, ZenonT(60) DEF SbrOf
  <2>3. ASSUME rt[a] = "adding" PROVE SbrOf(a)'
    <3>1. /\ Elems(s) = {Do("sbrLock", <<>>), Do("sbrUnlock", <<>>)}
                          \cup (IF conf[a].table = 0 THEN {Do("sbrList", <<>>)}
                                ELSE Elems(doRoutesWithTable(conf[a], 1)))
          /\ Do("sbrLock", <<>>).do = "sbrLock" /\ Do("sbrUnlock", <<>>).do = "sbrUnlock"
          /\ Do("sbrList", <<>>).do = "sbrList"
      BY <1>1, <1>5, <2>3, LinkPrograms, StepParts, ZenonT(60)
    <3>2. Due(a, {"sbrLock"})'
      BY <1>2, <3>1, Zenon DEF Went, Due
    <3>3. OwnRules(a)' = {}
      <4>1. Due(a, {"sbr", "sbrLock", "sbrList"}) /\ Adds(a)
        BY <2>1, <2>3, Zenon DEF Due, Adds
      <4>2. OwnRules(a) = {}
        BY <2>1, <4>1, Zenon DEF SbrInv, SbrOf
      <4> QED BY <1>2, <4>2, Zenon DEF OwnRules
    <3>4. ~Removes(a)'
      BY <1>2, <2>3, ZenonT(60) DEF Went, Removes
    <3>5. ASSUME conf[a].table = 0 PROVE Routed(a)'
      <4>1. ASSUME NEW x \in Behind(a) PROVE x.do \notin Choosing
        <5>1. ASSUME NEW m \in Choosing PROVE x.do # m
          <6>1. <<"sbr", m>> \in LinkBad(rt[a])
            BY <2>3, <5>1, ZenonT(60) DEF LinkBad, AddBad
          <6> QED BY <1>2, <2>1, <6>1, NotBehind, ZenonT(60)
        <5> QED BY <5>1, Zenon
      <4>2. \A x \in Left(a)' : x.do \notin Choosing
        BY <1>2, <3>1, <3>5, <4>1, ZenonT(60) DEF Went, Choosing
      <4>3. Due(a, {"sbr", "sbrList"})' /\ Due(a, {"sbr"} \cup Routing)'
        BY <1>2, <3>1, <3>5, ZenonT(60) DEF Went, Due, Routing
      <4> QED BY <4>2, <4>3, ZenonT(60) DEF Routed
    <3> QED BY <1>2, <3>2, <3>3, <3>4, <3>5, ZenonT(60) DEF SbrOf
  <2> QED BY <1>2, <1>3, <2>2, <2>3, RulesLess, ZenonT(60) DEF SbrInv
<1> QED BY <1>4, <1>5, Zenon

(* The interface goes after the rules for its addresses.                   *)
LEMMA SbrUnlinks ==
  ASSUME Mech, LinkOrder, SbrInv, NEW a \in Att, DelLink(a), UNCHANGED <<conf, ns>>
  PROVE  SbrInv'
<1>0. NoRoutes(Att \ veth') /\ UNCHANGED <<lock, rules, seen, table>>
  BY Zenon DEF DelLink, Forget
<1>1. /\ rest[a] # <<>> /\ Head(rest[a]).do = "DelLinkByName"
      /\ veth' = veth \ {a} \/ veth' = veth
      /\ main' \subseteq main
  BY DelLinkShape, Zenon DEF NoVeth, vethVars
<1>2. rt[a] = "deleting"
  BY <1>1, HeadFacts, WordIs, ZenonT(60) DEF VethWord, VethSteps
<1>3. OwnRules(a) = {} \/ ~Uses(a, "sbr")
  <2>1. <<"DelLinkByName", "sbr">> \in LinkBad(rt[a]) /\ <<"DelLinkByName", "tidyRules">> \in LinkBad(rt[a])
    BY <1>2, Zenon DEF LinkBad, DelBad
  <2>2. \A x \in Behind(a) : x.do # "sbr"
    BY <1>1, <1>2, <2>1, NotBehind, ZenonT(60)
  <2>3. \A x \in Behind(a) : x.do # "tidyRules"
    BY <1>1, <1>2, <2>1, NotBehind, ZenonT(60)
  <2>4. Left(a) = {Head(rest[a])} \cup Behind(a)
    BY <1>1, HeadFacts, Zenon
  <2>5. ~Due(a, {"sbr", "tidyRules"})
    BY <1>1, <2>2, <2>3, <2>4, ZenonT(60) DEF Due
  <2> QED BY <1>2, <2>5, Zenon DEF SbrInv, SbrOf, Removes
<1>4. \A r \in rules : r[1][1] \in veth /\ r[1][1] \in Att /\ r[1][1] # a
  <2>1. ASSUME NEW r \in rules PROVE r[1][1] \in veth /\ r[1][1] \in Att /\ Uses(r[1][1], "sbr")
    <3>1. PICK c \in Att, i \in Nat \ {0}, t \in Nat :
            r = <<<<c, i>>, t>> /\ Uses(c, "sbr") /\ c \in veth
      BY ZenonT(60) DEF SbrInv, RulesApart, SbrRule
    <3> QED BY <3>1, Zenon
  <2> QED BY <1>3, <2>1, Zenon DEF OwnRules
<1>5. \A r \in rules : r[1][1] \in veth' /\ (r \in tables => r \in tables')
  BY <1>0, <1>1, <1>4, Zenon DEF NoRoutes
<1>6. Kept(SbrNames) /\ Kept(MainNames)
  <2>1. /\ "DelLinkByName" \notin SbrNames /\ "DelLinkByName" \notin MainNames
        /\ NfSteps \cap SbrNames = {} /\ NfSteps \cap MainNames = {}
    BY Zenon DEF SbrNames, Routing, Choosing, MainNames, NfSteps
  <2> QED BY <1>1, <2>1, DelLinkShape, Foreign, ZenonT(60)
<1>7. ASSUME NEW b \in Att PROVE SbrOf(b)'
  <2>1. Adds(b)' => (b \notin main /\ ~Due(b, MainNames) => b \notin main' /\ ~Due(b, MainNames)')
    BY <1>1, <1>6, MainDone, Zenon
  <2> QED BY <1>0, <1>5, <1>6, <2>1, SbrKept, ZenonT(60)
<1> QED BY <1>0, <1>5, <1>7, RulesLess, ZenonT(60) DEF SbrInv

(* Steps keep what is known of rules and tables.                           *)
LEMMA SbrNext ==
  ASSUME Mech, LinkOrder, VethInv, SbrInv, [Next]_vars
  PROVE  SbrInv'
<1>1. ASSUME Kept(SbrNames), Kept(MainNames), main' \subseteq main,
             UNCHANGED <<conf, ns, veth, lock, rules, tables, seen, table>>
      PROVE  SbrInv'
  <2>1. ASSUME NEW b \in Att PROVE SbrOf(b)'
    <3>1. Adds(b)' => (b \notin main /\ ~Due(b, MainNames) => b \notin main' /\ ~Due(b, MainNames)')
      BY <1>1, MainDone, Zenon
    <3> QED BY <1>1, <3>1, SbrKept, Zenon
  <2> QED BY <1>1, <2>1, RulesLess, Zenon DEF SbrInv
<1>2. ASSUME NEW a \in Att, DeviceStep(a) \/ NetfilterStep(a) PROVE SbrInv'
  <2>1. UNCHANGED <<conf, ns, veth, main, lock, rules, tables, seen, table>>
    BY <1>2, Zenon DEF DeviceStep, NetfilterStep, linkVars, vethVars, sbrVars
  <2>2. /\ (DevSteps \cup TunSteps) \cap SbrNames = {} /\ NfSteps \cap SbrNames = {}
        /\ (DevSteps \cup TunSteps) \cap MainNames = {} /\ NfSteps \cap MainNames = {}
    BY Zenon DEF DevSteps, TunSteps, NfSteps, SbrNames, Routing, Choosing, MainNames
  <2>3. Kept(SbrNames) /\ Kept(MainNames)
    BY <1>2, <2>2, PluginKept, Zenon
  <2> QED BY <1>1, <2>1, <2>3, Zenon
<1>3. ASSUME NEW a \in Att, LinkStep(a) PROVE SbrInv'
  <2>1. UNCHANGED <<conf, ns>>
    BY <1>3, Zenon DEF LinkStep
  <2>2. CASE SetupVeth(a) /\ UNCHANGED sbrVars
    <3>1. /\ rest[a] # <<>> /\ Head(rest[a]).do = "SetupVeth" /\ (Succeed(a) \/ Fail(a))
          /\ veth \subseteq veth' /\ main' \subseteq main \cup {a}
          /\ UNCHANGED <<lock, rules, tables, seen, table>>
      BY <2>2, Zenon DEF SetupVeth, At, vethVars, sbrVars
    <3>2. Kept(SbrNames) /\ Kept(MainNames \ {"SetupVeth"})
      <4>1. "SetupVeth" \notin SbrNames
        BY Zenon DEF SbrNames, Routing, Choosing
      <4> QED BY <3>1, <4>1, PlainKept, ZenonT(60)
    <3>3. ASSUME NEW b \in Att PROVE SbrOf(b)'
      <4>1. CASE b = a
        <5>1. Due(a, MainNames)
          BY <3>1, HeadFacts, Zenon DEF Due, MainNames
        <5> QED BY <2>1, <3>1, <3>2, <4>1, <5>1, SbrKept, ZenonT(60)
      <4>2. CASE b # a
        <5>1. Left(b)' = Left(b)
          BY <2>2, <4>2, BridgeShape, Others, ZenonT(60)
        <5>2. b \notin main /\ ~Due(b, MainNames) => b \notin main' /\ ~Due(b, MainNames)'
          BY <3>1, <4>2, <5>1, ZenonT(60) DEF Due
        <5> QED BY <2>1, <3>1, <3>2, <5>2, SbrKept, ZenonT(60)
      <4> QED BY <4>1, <4>2, Zenon
    <3> QED BY <2>1, <3>1, <3>3, RulesLess, ZenonT(60) DEF SbrInv
  <2>3. CASE DelLink(a)
    BY <2>1, <2>3, SbrUnlinks, ZenonT(60)
  <2>4. CASE BridgeStep(a) /\ UNCHANGED <<vethVars, sbrVars>>
    <3>1. BridgeSteps \cap SbrNames = {} /\ BridgeSteps \cap MainNames = {}
      BY Zenon DEF BridgeSteps, GwSteps, SbrNames, Routing, Choosing, MainNames
    <3>2. Kept(SbrNames) /\ Kept(MainNames)
      BY <2>4, <3>1, BridgePlain, ZenonT(60)
    <3> QED BY <1>1, <2>1, <2>4, <3>2, ZenonT(60) DEF vethVars, sbrVars
  <2>5. CASE BandwidthStep(a) /\ UNCHANGED <<vethVars, sbrVars>>
    <3>1. /\ (BwAddSteps \cup {"TeardownIfb"}) \cap SbrNames = {}
          /\ (BwAddSteps \cup {"TeardownIfb"}) \cap MainNames = {}
      BY Zenon DEF BwAddSteps, SbrNames, Routing, Choosing, MainNames
    <3>2. Kept(SbrNames) /\ Kept(MainNames)
      BY <2>5, <3>1, PluginKept, ZenonT(60)
    <3> QED BY <1>1, <2>1, <2>5, <3>2, Zenon DEF vethVars, sbrVars
  <2>6. CASE VrfStep(a) /\ UNCHANGED sbrVars
    <3>1. /\ (VrfAddSteps \cup VrfDelSteps) \cap SbrNames = {}
          /\ (VrfAddSteps \cup VrfDelSteps) \cap MainNames = {}
      BY Zenon DEF VrfAddSteps, VrfDelSteps, SbrNames, Routing, Choosing, MainNames
    <3>2. Kept(SbrNames) /\ Kept(MainNames)
      BY <2>6, <3>1, PluginKept, ZenonT(60)
    <3>3. veth' = veth /\ main' \subseteq main
      BY <2>6, Zenon
         DEF VrfStep, findOrCreate, createVRF, LinkSetUpVRF, saveAddresses, LinkSetMaster,
         restoreAddresses, restoreRoutes, findVRFToLeave, resetMaster, LinkDelVRF, VrfFail, vethVars
    <3> QED BY <1>1, <2>1, <2>6, <3>2, <3>3, ZenonT(60) DEF sbrVars
  <2>7. CASE SbrStep(a)
    BY <2>1, <2>7, SbrActs, ZenonT(60)
  <2> QED BY <1>3, <2>2, <2>3, <2>4, <2>5, <2>6, <2>7, ZenonT(60) DEF LinkStep
<1>4. ASSUME NEW a \in Att, StartAdd(a) \/ StartDel(a) PROVE SbrInv'
  BY <1>4, StartSteps, SbrStarts, ZenonT(60)
<1>5. ASSUME NEW a \in Att, Invoke(a) PROVE SbrInv'
  BY <1>5, SbrInvoke, ZenonT(60)

<1>6. ASSUME NEW a \in Att, Crash(a) PROVE SbrInv'
  <2>1. UNCHANGED <<conf, ns, veth, main, rules, tables, seen, table>> /\ Release(a)
    BY <1>6, Zenon DEF Crash, vethVars
  <2>2. Kept(SbrNames) /\ Kept(MainNames) /\ rt'[a] = "dirty"
    BY <1>6, CrashSteps, FailKept, ZenonT(60)
  <2>3. /\ lock' \in [Att -> Att \cup {NoAtt}]
        /\ \A c, b \in Att : b # a /\ lock[c] = b => lock'[c] = b
    BY <2>1, ZenonT(60) DEF Release, SbrInv
  <2>4. ASSUME NEW b \in Att PROVE SbrOf(b)'
    <3>1. CASE b = a
      BY <2>2, <3>1, ZenonT(60) DEF SbrOf, Adds, Removes
    <3>2. CASE b # a
      <4>1. rt'[b] \in Ended =>
              /\ (Adds(b)' <=> Adds(b)) /\ (Removes(b)' <=> Removes(b))
              /\ \A x : x.do \in SbrNames => (x \in Left(b)' <=> x \in Left(b))
        BY <2>2, Zenon DEF Kept
      <4>2. Adds(b)' => (b \notin main /\ ~Due(b, MainNames) => b \notin main' /\ ~Due(b, MainNames)')
        BY <2>1, <2>2, MainDone, ZenonT(60)
      <4>3. lock[Container(b)] = b => lock'[Container(b)] = b
        <5>1. Container(b) \in Att
          BY ConfFacts, Zenon DEF ConfOK, Container
        <5> QED BY <2>3, <3>2, <5>1, ZenonT(60)
      <4>4. SbrOf(b)
        BY Zenon DEF SbrInv
      <4> QED BY <2>1, <4>1, <4>2, <4>3, <4>4, SbrSame, ZenonT(60)
    <3> QED BY <3>1, <3>2, Zenon
  <2> QED BY <2>1, <2>3, <2>4, RulesLess, ZenonT(60) DEF SbrInv
<1>7. ASSUME NEW a \in Att, NetnsGone(a) PROVE SbrInv'
  <2> DEFINE gone == {b \in Att : conf[b].cid = conf[a].cid}
  <2>1. /\ UNCHANGED <<conf, rt, rest>>
        /\ \A b \in Att : IF b \in gone THEN ~ns'[b] ELSE (ns'[b] <=> ns[b])
    BY <1>7, NetnsGoneSteps, Zenon
  <2>2. /\ veth' = veth \ gone /\ main' \subseteq main /\ UNCHANGED <<lock, seen, table>>
        /\ rules' = {r \in rules : r[1][1] \notin gone} /\ tables' = {r \in tables : r[1][1] \notin gone}
    BY <1>7, Zenon DEF NetnsGone, NoVeth, Forget, NoRoutes, NoRules
  <2> HIDE DEF gone
  <2>3. Idled
    BY <2>1, Zenon DEF Idled
  <2>4. Kept(SbrNames) /\ Kept(MainNames)
    BY <2>3, IdleKept, Zenon
  <2>5. ASSUME NEW b \in Att PROVE SbrOf(b)'
    <3>1. Adds(b)' => (b \notin main /\ ~Due(b, MainNames) => b \notin main' /\ ~Due(b, MainNames)')
      BY <2>2, <2>4, MainDone, ZenonT(60)
    <3>2. /\ rules' \subseteq rules /\ (ns'[b] => ns[b])
          /\ ns'[b] => \A r \in rules : r[1][1] = b => r \in rules' /\ (r \in tables => r \in tables')
      BY <2>1, <2>2, Zenon
    <3> QED BY <2>1, <2>2, <2>4, <3>1, <3>2, SbrKept, ZenonT(60)
  <2>6. rules' \subseteq rules /\ \A r \in rules' : r[1][1] \in veth => r[1][1] \in veth'
    BY <2>2, Zenon
  <2> QED BY <2>1, <2>2, <2>5, <2>6, RulesLess, ZenonT(60) DEF SbrInv
<1>8. CASE UNCHANGED vars
  <2>1. UNCHANGED <<conf, ns, veth, main, lock, rules, tables, seen, table>> /\ Idled
    BY <1>8, Zenon DEF vars, linkVars, vethVars, sbrVars, Idled
  <2> QED BY <1>1, <2>1, IdleKept, ZenonT(60)
<1> QED BY <1>2, <1>3, <1>4, <1>5, <1>6, <1>7, <1>8, ZenonT(60) DEF Next

(* Of the addresses of the attached interfaces of a container, each has    *)
(* one rule, to a table where its routes are and to which no other address *)
(* is sent: cmdAdd of sbr lists the rules and chooses tables under the     *)
(* lock on the namespace, and rules name only addresses of interfaces that *)
(* are there.                                                              *)
THEOREM SbrTablesOwn == Spec => []SbrOwnTables
<1> DEFINE IInv == Mech /\ LinkOrder /\ VethInv /\ SbrInv
<1>1. Init => IInv
  <2> SUFFICES ASSUME Init PROVE IInv
    BY Zenon
  <2>1. Mech
    BY MechInit, Zenon
  <2>2. /\ \A a \in Att : rt[a] = "detached" /\ rest[a] = <<>>
        /\ veth = {} /\ v6 = {} /\ main = {} /\ rules = {}
        /\ lock \in [Att -> Att \cup {NoAtt}] /\ DOMAIN seen = Att /\ DOMAIN table = Att
    BY Zenon DEF Init, VethInit, SbrInit
  <2>3. LinkOrder /\ VethInv
    BY <2>2, Zenon DEF LinkOrder, VethInv, Adds
  <2>4. FewTables
    <3>1. {r[2] : r \in rules} = {}
      BY <2>2, Zenon
    <3> QED BY <3>1, BoundedTables, Zenon DEF FewTables
  <2>5. RulesApart /\ \A a \in Att : SbrOf(a)
    BY <2>2, <2>4, Zenon DEF RulesApart, SbrOf, OwnRules, Adds
  <2> QED BY <2>1, <2>2, <2>3, <2>5, ZenonT(60) DEF SbrInv
<1>2. IInv /\ [Next]_vars => IInv'
  BY MechNext, OrderNext, VethNext, SbrNext, ZenonT(60)
<1>3. IInv => SbrOwnTables
  <2> SUFFICES ASSUME IInv, NEW a \in Att, Uses(a, "sbr"), rt[a] = "attached", ns[a], conf[a].table = 0
               PROVE  /\ a \notin main
                      /\ \A ip \in Addresses(a) : \E t \in {r[2] : r \in RulesOf(a)} :
                           /\ {r \in RulesOf(a) : r[1] = ip} = {<<ip, t>>} /\ <<ip, t>> \in tables
                           /\ \A r \in RulesOf(a) : r[2] = t => r[1] = ip
    BY Zenon DEF SbrOwnTables
  <2>1. Adds(a) /\ Left(a) = {} /\ \A S : ~Due(a, S)
    BY DEF Adds, Mech, Idle, Due, Left, Elems
  <2>2. Routed(a)
    BY <2>1, Zenon DEF SbrInv, SbrOf
  <2>3. a \notin main /\ \A i \in 1..conf[a].ips : HasRoutes(a, i)
    BY <2>1, <2>2, Zenon DEF Routed
  <2>4. ASSUME NEW ip \in Addresses(a)
        PROVE  \E t \in {r[2] : r \in RulesOf(a)} :
                 /\ {r \in RulesOf(a) : r[1] = ip} = {<<ip, t>>} /\ <<ip, t>> \in tables
                 /\ \A r \in RulesOf(a) : r[2] = t => r[1] = ip
    <3>1. PICK i \in 1..conf[a].ips : ip = <<a, i>>
      BY Zenon DEF Addresses
    <3>2. PICK t \in Nat : <<ip, t>> \in rules /\ <<ip, t>> \in tables
      BY <2>3, <3>1, ZenonT(60) DEF HasRoutes
    <3>3. PICK q : q = <<ip, t>>
      BY Zenon
    <3>4. q[1] = ip /\ q[2] = t /\ q[1][1] = a /\ q \in rules
      BY <3>1, <3>2, <3>3, ZenonT(60)
    <3>5. q \in RulesOf(a)
      BY <3>4, Zenon DEF RulesOf
    <3>6. ASSUME NEW r \in RulesOf(a), r[1] = ip \/ r[2] = t PROVE r = q
      <4>1. r \in rules /\ Container(r[1][1]) = Container(a)
        BY Zenon DEF RulesOf
      <4> QED BY <3>4, <3>6, <4>1, ZenonT(60) DEF SbrInv, RulesApart
    <3>7. {r \in RulesOf(a) : r[1] = ip} = {q}
      BY <3>4, <3>5, <3>6, ZenonT(60)
    <3>8. t \in {r[2] : r \in RulesOf(a)}
      BY <3>4, <3>5, ZenonT(60)
    <3>9. \A r \in RulesOf(a) : r[2] = t => r[1] = ip
      BY <3>4, <3>6, Zenon
    <3> QED BY <3>2, <3>3, <3>7, <3>8, <3>9, ZenonT(60)
  <2> QED BY <2>3, <2>4, Zenon
<1> QED BY <1>1, <1>2, <1>3, PTL DEF Spec
=============================================================================
