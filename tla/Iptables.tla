------------------------------ MODULE Iptables ------------------------------
(***************************************************************************)
(* The chains of iptables and the helpers the plugins change them with.    *)
(* iptables runs one command at a time, but "if the rule does not exist,   *)
(* add it" is two commands, and other plugins run between them.            *)
(*                                                                         *)
(* One family of addresses is modelled.  A chain is named by a string and  *)
(* the attachment it is for, NoAtt when the containers share it.  No two   *)
(* attachments are of the same network and container, so that the names,   *)
(* made of these, differ.                                                  *)
(***************************************************************************)
EXTENDS Commands

VARIABLES
  chains,    \* the chains that exist, each the sequence of its rules
  ignored    \* the attachments whose last command ignored an error of the rules

iptVars == <<chains, ignored>>

Shared(n) == <<n, NoAtt>>

(* What a rule matches, whose address, port or bridge, and where it leads. *)
Rule(match, of, to) == [match |-> match, of |-> of, to |-> to]

BuiltIn == {Shared("FORWARD"), Shared("POSTROUTING"),
            Shared("PREROUTING"), Shared("OUTPUT")}

IptablesInit == chains = [ch \in BuiltIn |-> <<>>] /\ ignored = {}

Rules(ch) == IF ch \in DOMAIN chains THEN {chains[ch][i] : i \in DOMAIN chains[ch]}
                                     ELSE {}
Has(ch, rule) == rule \in Rules(ch)

(* The first such rule is deleted.                                         *)
Without(s, rule) ==
  LET n == CHOOSE i \in DOMAIN s : s[i] = rule /\ \A j \in 1..(i - 1) : s[j] # rule
  IN IF \E i \in DOMAIN s : s[i] = rule
     THEN [i \in 1..(Len(s) - 1) |-> IF i < n THEN s[i] ELSE s[i + 1]]
     ELSE s

DeleteFrom(ch, rule) ==
  IF ch \in DOMAIN chains THEN [chains EXCEPT ![ch] = Without(@, rule)] ELSE chains

References(ch) == {c \in DOMAIN chains : \E rule \in Rules(c) : rule.to = ch}

IptablesTypeOK ==
  /\ BuiltIn \subseteq DOMAIN chains /\ ignored \subseteq Att
  /\ \A ch \in DOMAIN chains :
       /\ ch[2] \in Att \cup {NoAtt}
       /\ \A rule \in Rules(ch) : DOMAIN rule = {"match", "of", "to"}

-----------------------------------------------------------------------------
(* The parts of programs.                                                  *)

EnsureChain(ch) == Step("EnsureChain", ch, <<>>)

(* The rule is looked for, and inserted when it is missing.  Also          *)
(* AppendUnique of go-iptables.                                            *)
InsertUnique(ch, prepend, rule, undo) ==
  Step("Exists", [chain |-> ch, rule |-> rule, prepend |-> prepend], undo)

(* A chain with its rules, entered from the entry chains.                  *)
Setup(ch, rules, entryChains, prependEntry, entryRule) ==
  <<EnsureChain(ch)>>
    \o [i \in DOMAIN rules |-> InsertUnique(ch, FALSE, rules[i], <<>>)]
    \o [i \in DOMAIN entryChains |->
          InsertUnique(entryChains[i], prependEntry, entryRule, <<>>)]

(* At DEL the entry rules are not known: they are looked for in the entry  *)
(* chain.                                                                  *)
Teardown(ch, entryChain) ==
  <<Step("ChainExists", [chain |-> ch, entry |-> entryChain], <<>>)>>

DeleteEach(ch, rules) ==
  When(rules # {}, <<Step("DeleteEach", [chain |-> ch, rules |-> rules], <<>>)>>)

-----------------------------------------------------------------------------
(* The steps.                                                              *)

IptFail(a) == Fail(a) /\ UNCHANGED iptVars

(* The chain is looked for and then created: that it exists by then is no  *)
(* error, so that the two commands are like one.  An iptables that cannot  *)
(* be started, which EnsureChain takes for success, is left out.           *)
EnsureChainStep(a) ==
  /\ At(a, "EnsureChain")
  /\ \/ /\ chains' = [ch \in DOMAIN chains \cup {Arg(a)} |->
                        IF ch \in DOMAIN chains THEN chains[ch] ELSE <<>>]
        /\ Succeed(a) /\ UNCHANGED ignored
     \/ IptFail(a)

Exists(a) ==
  /\ At(a, "Exists")
  /\ \/ Arg(a).chain \in DOMAIN chains /\ ~Has(Arg(a).chain, Arg(a).rule)
        /\ Push(a, <<Step("Insert", Arg(a), Head(rest[a]).undo)>>)
     \/ Has(Arg(a).chain, Arg(a).rule) /\ Succeed(a)
     \/ Fail(a)
  /\ UNCHANGED iptVars

(* Mutant: every rule is appended.                                         *)
InsertAppends(a) ==
  LET ch == Arg(a).chain IN
  /\ At(a, "Insert")
  /\ \/ /\ ch \in DOMAIN chains
        /\ chains' = [chains EXCEPT ![ch] = Append(@, Arg(a).rule)]
        /\ Succeed(a) /\ UNCHANGED ignored
     \/ IptFail(a)

Insert(a) ==
  LET ch == Arg(a).chain
      rule == Arg(a).rule
  IN /\ At(a, "Insert")
     /\ \/ /\ ch \in DOMAIN chains
           /\ chains' = [chains EXCEPT ![ch] =
                           IF Arg(a).prepend THEN <<rule>> \o @ ELSE Append(@, rule)]
           /\ Succeed(a) /\ UNCHANGED ignored
        \/ IptFail(a)

ChainExists(a) ==
  /\ At(a, "ChainExists")
  /\ \/ Arg(a).chain \notin DOMAIN chains /\ Succeed(a)
     \/ Push(a, <<Step("TryDeleteChain", Arg(a), <<>>)>>)
  /\ UNCHANGED iptVars

(* Clearing a chain and deleting it are two commands.  A chain that rules  *)
(* lead to is not deleted.                                                 *)
Cleared(ch) == [c \in DOMAIN chains |-> IF c = ch THEN <<>> ELSE chains[c]]
Deleted(ch) == [c \in DOMAIN chains \ {ch} |-> chains[c]]

TryDeleteChain(a) ==
  LET ch == Arg(a).chain IN
  /\ At(a, "TryDeleteChain")
  /\ \/ References(ch) = {} /\ chains' = Deleted(ch) /\ Succeed(a)
     \/ /\ chains' \in {chains, Cleared(ch)}
        /\ Push(a, << Step("FindReferences", Arg(a), <<>>),
                      Step("ClearAndDeleteChain", Arg(a), <<>>) >>)
  /\ UNCHANGED ignored

FindReferences(a) ==
  LET refs == {rule \in Rules(Arg(a).entry) : rule.to = Arg(a).chain} IN
  /\ At(a, "FindReferences")
  /\ Push(a, DeleteEach(Arg(a).entry, refs)) \/ Succeed(a)
  /\ UNCHANGED iptVars

(* The rules that were found, one after the other.                         *)
DeleteEachStep(a) ==
  /\ At(a, "DeleteEach")
  /\ \/ \E rule \in Arg(a).rules :
          /\ chains' = DeleteFrom(Arg(a).chain, rule)
          /\ Push(a, DeleteEach(Arg(a).chain, Arg(a).rules \ {rule}))
          /\ UNCHANGED ignored
     \/ IptFail(a)

(* That there is no such rule is no error.                                 *)
DeleteRule(a) ==
  /\ At(a, "DeleteRule")
  /\ \/ /\ chains' = DeleteFrom(Arg(a).chain, Arg(a).rule)
        /\ Succeed(a) /\ UNCHANGED ignored
     \/ IptFail(a)

(* Mutant: the chain is deleted although rules lead to it still.           *)
ClearAndDeleteChainForced(a) ==
  /\ At(a, "ClearAndDeleteChain")
  /\ chains' = Deleted(Arg(a).chain) /\ Succeed(a) /\ UNCHANGED ignored

ClearAndDeleteChain(a) ==
  LET ch == Arg(a).chain IN
  /\ At(a, "ClearAndDeleteChain")
  /\ \/ References(ch) = {} /\ chains' = Deleted(ch) /\ Succeed(a)
     \/ chains' \in {chains, Cleared(ch)} /\ Fail(a)
  /\ UNCHANGED ignored

(* A deletion whose error, if any, nobody looks at.                        *)
TryDeleteRule(a) ==
  /\ At(a, "TryDeleteRule")
  /\ \/ /\ chains' = DeleteFrom(Arg(a).chain, Arg(a).rule)
        /\ UNCHANGED ignored
     \/ UNCHANGED chains /\ ignored' = ignored \cup {a}
  /\ Succeed(a)

IptablesStep(a) ==
  \/ EnsureChainStep(a) \/ Exists(a) \/ Insert(a) \/ ChainExists(a)
  \/ TryDeleteChain(a) \/ FindReferences(a) \/ DeleteEachStep(a)
  \/ ClearAndDeleteChain(a) \/ DeleteRule(a) \/ TryDeleteRule(a)
=============================================================================
