-------------------------------- MODULE Sbr ---------------------------------
(***************************************************************************)
(* The sbr plugin, source based routing: for every address of the          *)
(* interface a rule sends what comes from it to a routing table of its     *)
(* own, which gets the routes of the interface.  The plugin locks the      *)
(* namespace, for plugins of other interfaces of the container may run at  *)
(* the same time.  An address is an attachment and an index.               *)
(***************************************************************************)
EXTENDS Veth

CONSTANT FirstTable   \* firstTableID

VARIABLES
  lock,     \* who holds the lock on the namespace of a container
  rules,    \* the rules: address and table
  tables,   \* the routes of an address that are in a table: the same pairs
  seen,     \* the tables the rules named when ADD listed them
  table     \* the table ADD uses now

sbrVars == <<lock, rules, tables, seen, table>>

SbrInit ==
  /\ lock = [a \in Att |-> NoAtt] /\ rules = {} /\ tables = {}
  /\ seen = [a \in Att |-> {}] /\ table = [a \in Att |-> FirstTable]

SbrTypeOK ==
  /\ lock \in [Att -> Att \cup {NoAtt}]
  /\ \A r \in rules \cup tables : r[1][1] \in Att /\ r[2] \in Nat
  /\ DOMAIN seen = Att /\ table \in [Att -> Nat]

Addresses(a) == {<<a, i>> : i \in 1..conf[a].ips}

(* From the i-th address on, one after the other: a rule and, unless the   *)
(* table is configured, the routes of a table of its own.                  *)
doRoutes(c, i) ==
  IF i <= c.ips THEN <<Step("RuleAdd", i, <<>>)>> ELSE <<Do("RouteDel", <<>>)>>

doRoutesWithTable(c, i) == When(i <= c.ips, <<Step("RuleAdd", i, <<>>)>>)

AfterRule(c, i) ==
  IF c.table # 0 THEN doRoutesWithTable(c, i + 1)
  ELSE <<Step(IF c.gateway THEN "RouteAdd" ELSE "copyRoutes", i, <<>>)>>

SbrAdd(c) ==
  <<Do("sbrLock", <<>>)>>
    \o (IF c.table = 0 THEN <<Do("sbrList", <<>>)>> ELSE doRoutesWithTable(c, 1))
    \o <<Do("sbrUnlock", <<>>)>>

SbrDel == <<Do("sbrLock", <<>>), Do("tidyRules", <<>>), Do("sbrUnlock", <<>>)>>

-----------------------------------------------------------------------------

(* The lock goes with the process that holds it.                           *)
Release(a) == lock' = [c \in Att |-> IF lock[c] = a THEN NoAtt ELSE lock[c]]

SbrFail(a) == Fail(a) /\ Release(a) /\ UNCHANGED <<rules, tables, seen, table, vethVars>>

(* Mutant: nobody is waited for.                                           *)
sbrLockNone(a) ==
  /\ At(a, "sbrLock") /\ ns[a] /\ Succeed(a) /\ UNCHANGED <<sbrVars, vethVars>>

(* The lock is on the file of the namespace.                               *)
sbrLock(a) ==
  /\ At(a, "sbrLock")
  /\ \/ /\ ns[a] /\ lock[Container(a)] = NoAtt
        /\ lock' = [lock EXCEPT ![Container(a)] = a]
        /\ Succeed(a) /\ UNCHANGED <<rules, tables, seen, table, vethVars>>
     \/ SbrFail(a)

sbrUnlock(a) ==
  /\ At(a, "sbrUnlock") /\ Release(a) /\ Succeed(a)
  /\ UNCHANGED <<rules, tables, seen, table, vethVars>>

(* The first free table from a candidate on.                               *)
getNextTableID(taken, candidate) == FirstFree(taken, candidate)

(* The rules of the namespace.                                             *)
RulesOf(a) == {r \in rules : Container(r[1][1]) = Container(a)}

(* Routes are listed too, but RouteList returns those of the main table.   *)
sbrList(a) ==
  LET used == {r[2] : r \in RulesOf(a)} IN
  /\ At(a, "sbrList")
  /\ \/ /\ a \in veth
        /\ seen' = [seen EXCEPT ![a] = used]
        /\ table' = [table EXCEPT ![a] = getNextTableID(used, FirstTable)]
        /\ Push(a, doRoutes(conf[a], 1)) /\ UNCHANGED <<lock, rules, tables, vethVars>>
     \/ SbrFail(a)

RuleAdd(a) ==
  LET t == IF conf[a].table = 0 THEN table[a] ELSE conf[a].table IN
  /\ At(a, "RuleAdd")
  /\ \/ /\ rules' = rules \cup {<<<<a, Arg(a)>>, t>>}
        /\ Push(a, AfterRule(conf[a], Arg(a))) /\ UNCHANGED <<lock, tables, seen, table, vethVars>>
     \/ SbrFail(a)

(* The default route, which must be new.                                   *)
RouteAdd(a) ==
  /\ At(a, "RouteAdd")
  /\ \/ /\ a \in veth
        /\ ~\E r \in tables : r[2] = table[a] /\ Container(r[1][1]) = Container(a)
        /\ tables' = tables \cup {<<<<a, Arg(a)>>, table[a]>>}
        /\ Push(a, <<Step("copyRoutes", Arg(a), <<>>)>>)
        /\ UNCHANGED <<lock, rules, seen, table, vethVars>>
     \/ SbrFail(a)

(* The routes are copied, and the next address gets the next free table.   *)
copyRoutes(a) ==
  /\ At(a, "copyRoutes")
  /\ \/ /\ a \in veth
        /\ tables' = tables \cup {<<<<a, Arg(a)>>, table[a]>>}
        /\ table' = [table EXCEPT ![a] = getNextTableID(seen[a], @ + 1)]
        /\ Push(a, doRoutes(conf[a], Arg(a) + 1)) /\ UNCHANGED <<lock, rules, seen, vethVars>>
     \/ SbrFail(a)

(* At last the routes of the interface leave the main table.               *)
RouteDel(a) ==
  /\ At(a, "RouteDel")
  /\ \/ /\ a \in main /\ main' = main \ {a}
        /\ Succeed(a) /\ UNCHANGED <<lock, rules, tables, seen, table, veth, v6>>
     \/ SbrFail(a)

(* The rules for an address of the interface.  A rule that cannot be       *)
(* deleted does not keep the others from being deleted.                    *)
tidyRules(a) ==
  LET own == {r \in RulesOf(a) : /\ a \in veth /\ r[1] \in Addresses(a)
                                 /\ conf[a].table \in {0, r[2]}}
  IN /\ At(a, "tidyRules")
     /\ \/ /\ rules' = rules \ own
           /\ Succeed(a) /\ UNCHANGED <<lock, tables, seen, table, vethVars>>
        \/ \E kept \in SUBSET own :
             /\ rules' = (rules \ own) \cup kept
             /\ Fail(a) /\ Release(a) /\ UNCHANGED <<tables, seen, table, vethVars>>

SbrStep(a) ==
  \/ sbrLock(a) \/ sbrUnlock(a) \/ sbrList(a) \/ RuleAdd(a) \/ RouteAdd(a)
  \/ copyRoutes(a) \/ RouteDel(a) \/ tidyRules(a)

(* The routes of an interface go with it, the rules with the namespace.    *)
NoRoutes(gone) == tables' = {r \in tables : r[1][1] \notin gone}
NoRules(gone) == rules' = {r \in rules : r[1][1] \notin gone}
=============================================================================
