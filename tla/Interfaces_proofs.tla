------------------------- MODULE Interfaces_proofs --------------------------
(***************************************************************************)
(* Proofs about Interfaces, for any attachments, addresses and             *)
(* configurations: the invariant, what the programs of the commands have   *)
(* in common, what a step has to do for the command to keep the invariant, *)
(* that every action does it, and what follows.  What a command has still  *)
(* to do says what it has done: the invariant speaks of the steps that are *)
(* left and of the order in which the programs have them.                  *)
(***************************************************************************)
EXTENDS Interfaces, SequenceTheorems, TLAPS

Undos == {Release, DropTmp, Unspoof, Unlink(<<>>)}
Left(s, step) == \E i \in DOMAIN s : s[i].do = step

AddSteps ==
  {"Check", "Lookup", "HasIPs", "LinkAdd", "LinkAddNamed", "RenameLink", "TryRename",
   "ConfigureIface", "ExecAdd", "Setup", "SetupIPMasq"}
UndoSteps == {"ExecDel", "LinkDel", "Teardown", "DelLinkByName"}
DelSteps == {"ExecDel", "DelLinkByName", "Teardown", "TeardownIPMasq"}

Names == AddSteps \cup UndoSteps \cup DelSteps
Deferred ==
  {<<>>, <<Release>>, <<DropTmp>>, <<Unspoof>>, <<Unlink(<<>>)>>,
   <<Release, Unspoof>>, <<Release, Unlink(<<>>)>>}
Steps == [do : Names, arg : {<<>>, <<Release>>}, undo : Deferred]

(* The plugins of whose deferred functions FailedAddReleases speaks.       *)
Releasing(c) == c.plugin \notin {"ipvlan", "ptp"}

(* Whatever fails in this step, the addresses are released.                *)
Safe(c, x) == Releasing(c) => x.do = "HasIPs" \/ Left(x.undo, "ExecDel")

(* x may come before y in a program of c: addresses are there before they  *)
(* are looked at or used, and released whenever a later step fails; the    *)
(* link is deleted once, by bridge before anything else, before            *)
(* masquerading is removed, and releases the addresses if it is to skip    *)
(* the step that would.                                                    *)
Precedes(c, x, y) ==
  /\ y.do = "ExecAdd" => x.do \notin {"ExecAdd", "HasIPs", "ConfigureIface", "SetupIPMasq"}
  /\ x.do = "ExecAdd" => Safe(c, y)
  /\ x.do = "DelLinkByName" /\ y.do = "ExecDel" => Left(x.arg, "ExecDel")
  /\ y.do = "DelLinkByName" =>
       c.plugin # "bridge" /\ x.do \notin {"DelLinkByName", "TeardownIPMasq"}

Arranged(c, s) == \A i, j \in DOMAIN s : i < j => Precedes(c, s[i], s[j])

AddStep(c, x) ==
  /\ x.do \in AddSteps
  /\ x.do = "ExecAdd" => c.layer3
  /\ x.do = "SetupIPMasq" => c.layer3 /\ c.ipMasq

DelStep(x) ==
  /\ x.do \in DelSteps /\ x.undo = <<>>
  /\ \A i \in DOMAIN x.arg : x.arg[i] = Release

Program(c, s) == s \in Seq(Steps) /\ Arranged(c, s)

-----------------------------------------------------------------------------
(* The invariant of an attachment, by what runs for it.                    *)

Adding(a) ==
  LET c == conf[a] s == rest[a] IN
  /\ ns[a] /\ Program(c, s)
  /\ \A i \in DOMAIN s : AddStep(c, s[i])
  /\ Left(s, "Lookup") \/ "named" \in links[a]
  /\ \/ Left(s, "ConfigureIface") /\ addr[a] = {}
     \/ ~Left(s, "ExecAdd") /\ addr[a] = live[a]
  /\ c.layer3 => Left(s, "HasIPs") \/ (~Left(s, "ExecAdd") /\ live[a] # {})
  /\ c.macSpoofChk => Left(s, "Setup") \/ spoof[a]
  /\ c.ipMasq => Left(s, "SetupIPMasq") \/ (~Left(s, "ExecAdd") /\ live[a] \subseteq masq[a])
  /\ IF Left(s, "ExecAdd")
     THEN live[a] = {} /\ (held[a] = {} \/ At(a, "ExecAdd"))
     ELSE /\ live[a] = held[a]
          /\ held[a] = {} \/ \A i \in DOMAIN s : Safe(c, s[i])

Undoing(a) ==
  /\ ns[a] /\ rest[a] \in Seq(Undos)
  /\ Releasing(conf[a]) /\ rt[a] = "undoing" => held[a] = {} \/ Left(rest[a], "ExecDel")

Deleting(a) ==
  LET c == conf[a] s == rest[a] IN
  /\ Program(c, s) /\ \A i \in DOMAIN s : DelStep(s[i])
  /\ Left(s, "DelLinkByName") \/ "named" \notin links[a]
  /\ Left(s, "DelLinkByName") => ipnets[a] = {}
  /\ Left(s, "ExecDel") \/ held[a] = {}
  /\ \/ Left(s, "TeardownIPMasq") \/ masq[a] = {}
     \/ ~Left(s, "DelLinkByName") /\ masq[a] \cap ipnets[a] = {}

Attached(a) ==
  LET c == conf[a] IN
  /\ c.layer3 => live[a] # {}
  /\ ns[a] => "named" \in links[a] /\ addr[a] = live[a]
  /\ c.macSpoofChk => spoof[a]
  /\ c.ipMasq => live[a] \subseteq masq[a]

Detached(a) ==
  "named" \notin links[a] /\ held[a] = {} /\ masq[a] \cap ipnets[a] = {}

Always(a) ==
  LET c == conf[a] IN
  /\ rt[a] # "reverting"
  /\ live[a] \subseteq held[a]
  /\ ~ns[a] => links[a] = {}
  /\ ~c.layer3 => held[a] = {}
  /\ ~(c.layer3 /\ c.ipMasq) => masq[a] = {}

Local(a) ==
  /\ Always(a)
  /\ rt[a] = "adding" => Adding(a)
  /\ rt[a] \in {"undoing", "botched"} => Undoing(a)
  /\ rt[a] = "deleting" => Deleting(a)
  /\ rt[a] = "attached" => Attached(a)
  /\ rt[a] = "detached" => Detached(a)
  /\ rt[a] = "failed" /\ Releasing(conf[a]) => held[a] = {}

HeldDisjoint == \A a, b \in Att : a # b => held[a] \cap held[b] = {}

Inv ==
  /\ TypeOK /\ rest \in [Att -> Seq(Steps)] /\ conf \in Confs /\ HeldDisjoint
  /\ \A a \in Att : Local(a)

-----------------------------------------------------------------------------
(* Steps that are left.                                                    *)

(* What is left of a program when its first step has been done.            *)
LEMMA TailLeft ==
  ASSUME NEW S, NEW s \in Seq(S), s # <<>>
  PROVE  /\ Tail(s) \in Seq(S) /\ Head(s) \in S /\ Len(s) \in Nat
         /\ Tail(s) = <<>> <=> Len(s) = 1
         /\ \A step : Left(s, step) <=> Head(s).do = step \/ Left(Tail(s), step)
         /\ \A i \in DOMAIN Tail(s) : \E j \in DOMAIN s : 1 < j /\ Tail(s)[i] = s[j]
<1>1. /\ Tail(s) \in Seq(S) /\ Len(s) \in Nat \ {0} /\ Len(Tail(s)) = Len(s) - 1
      /\ DOMAIN s = 1 .. Len(s) /\ DOMAIN Tail(s) = 1 .. (Len(s) - 1)
      /\ Head(s) = s[1] /\ Head(s) \in S
      /\ \A i \in 1 .. (Len(s) - 1) : Tail(s)[i] = s[i + 1]
  OBVIOUS
<1>2. Tail(s) = <<>> <=> Len(s) = 1
  <2>1. Tail(s) # <<>> => Len(Tail(s)) \in Nat \ {0}
    BY <1>1, EmptySeq, Zenon
  <2>2. Tail(s) = <<>> => Len(Tail(s)) = 0
    BY EmptySeq, Zenon
  <2>3. QED
    BY <1>1, <2>1, <2>2
<1>3. ASSUME NEW step
      PROVE  Left(s, step) <=> Head(s).do = step \/ Left(Tail(s), step)
  <2>1. ASSUME Left(s, step), Head(s).do # step
        PROVE  Left(Tail(s), step)
    <3>1. PICK i \in DOMAIN s : s[i].do = step
      BY <2>1, Zenon DEF Left
    <3>2. i - 1 \in 1 .. (Len(s) - 1) /\ Tail(s)[i - 1] = s[i]
      BY <1>1, <2>1, <3>1
    <3>3. QED
      BY <1>1, <3>1, <3>2, Zenon DEF Left
  <2>2. ASSUME Left(Tail(s), step)
        PROVE  Left(s, step)
    <3>1. PICK i \in DOMAIN Tail(s) : Tail(s)[i].do = step
      BY <2>2, Zenon DEF Left
    <3>2. i + 1 \in DOMAIN s /\ s[i + 1].do = step
      BY <1>1, <3>1
    <3>3. QED
      BY <3>2, Zenon DEF Left
  <2>3. Head(s).do = step => Left(s, step)
    BY <1>1 DEF Left
  <2>4. QED
    BY <2>1, <2>2, <2>3, Zenon
<1>4. ASSUME NEW i \in DOMAIN Tail(s)
      PROVE  \E j \in DOMAIN s : 1 < j /\ Tail(s)[i] = s[j]
  <2>1. i + 1 \in DOMAIN s /\ 1 < i + 1 /\ Tail(s)[i] = s[i + 1]
    BY <1>1
  <2>2. QED
    BY <2>1, Zenon
<1>5. QED
  BY <1>1, <1>2, <1>3, <1>4, Zenon

(* Programs are put together from parts.                                   *)
LEMMA ConcatLeft ==
  ASSUME NEW S, NEW s \in Seq(S), NEW t \in Seq(S)
  PROVE  /\ s \o t \in Seq(S)
         /\ \A step : Left(s \o t, step) <=> Left(s, step) \/ Left(t, step)
<1>1. /\ s \o t \in Seq(S) /\ Len(s) \in Nat /\ Len(t) \in Nat
      /\ DOMAIN s = 1 .. Len(s) /\ DOMAIN t = 1 .. Len(t)
      /\ DOMAIN (s \o t) = 1 .. (Len(s) + Len(t))
      /\ \A i \in 1 .. Len(s) : (s \o t)[i] = s[i]
      /\ \A i \in 1 .. Len(t) : (s \o t)[Len(s) + i] = t[i]
  OBVIOUS
<1>2. ASSUME NEW step
      PROVE  Left(s \o t, step) <=> Left(s, step) \/ Left(t, step)
  <2>1. ASSUME NEW i \in DOMAIN (s \o t), (s \o t)[i].do = step
        PROVE  Left(s, step) \/ Left(t, step)
    <3>1. CASE i \in 1 .. Len(s)
      BY <1>1, <2>1, <3>1, Zenon DEF Left
    <3>2. CASE i \notin 1 .. Len(s)
      <4>1. i - Len(s) \in 1 .. Len(t) /\ Len(s) + (i - Len(s)) = i
        BY <1>1, <3>2
      <4>2. t[i - Len(s)].do = step
        BY <1>1, <2>1, <4>1, Zenon
      <4>3. QED
        BY <1>1, <4>1, <4>2, Zenon DEF Left
    <3>3. QED
      BY <3>1, <3>2, Zenon
  <2>2. ASSUME NEW i \in DOMAIN s, s[i].do = step
        PROVE  Left(s \o t, step)
    BY <1>1, <2>2 DEF Left
  <2>3. ASSUME NEW i \in DOMAIN t, t[i].do = step
        PROVE  Left(s \o t, step)
    <3>1. Len(s) + i \in DOMAIN (s \o t) /\ (s \o t)[Len(s) + i].do = step
      BY <1>1, <2>3
    <3>2. QED
      BY <3>1, Zenon DEF Left
  <2>4. QED
    BY <2>1, <2>2, <2>3, Zenon DEF Left
<1>3. QED
  BY <1>1, <1>2, Zenon

(* The rest of a program is one, and its first step may precede the rest.  *)
LEMMA ProgramTail ==
  ASSUME NEW c, NEW s, Program(c, s), s # <<>>
  PROVE  /\ Program(c, Tail(s)) /\ Head(s) \in Steps
         /\ \A i \in DOMAIN Tail(s) : Precedes(c, Head(s), Tail(s)[i])
<1>1. s \in Seq(Steps) /\ Arranged(c, s)
  BY Zenon DEF Program
<1>2. /\ Tail(s) \in Seq(Steps) /\ Len(s) \in Nat \ {0} /\ Head(s) \in Steps
      /\ DOMAIN s = 1 .. Len(s) /\ DOMAIN Tail(s) = 1 .. (Len(s) - 1)
      /\ Head(s) = s[1]
      /\ \A i \in 1 .. (Len(s) - 1) : Tail(s)[i] = s[i + 1]
  BY <1>1
<1>3. ASSUME NEW i \in DOMAIN Tail(s), NEW j \in DOMAIN Tail(s), i < j
      PROVE  Precedes(c, Tail(s)[i], Tail(s)[j])
  <2>1. i + 1 \in DOMAIN s /\ j + 1 \in DOMAIN s /\ i + 1 < j + 1
    BY <1>2, <1>3
  <2>2. QED
    BY <1>1, <1>2, <2>1, Zenon DEF Arranged
<1>4. ASSUME NEW i \in DOMAIN Tail(s)
      PROVE  Precedes(c, Head(s), Tail(s)[i])
  <2>1. 1 \in DOMAIN s /\ i + 1 \in DOMAIN s /\ 1 < i + 1
    BY <1>2
  <2>2. QED
    BY <1>1, <1>2, <2>1, Zenon DEF Arranged
<1>5. QED
  BY <1>2, <1>3, <1>4, Zenon DEF Program, Arranged

(* Two programs, one after the other.                                      *)
LEMMA ProgramConcat ==
  ASSUME NEW c, NEW s, NEW t, Program(c, s), Program(c, t),
         \A i \in DOMAIN s, j \in DOMAIN t : Precedes(c, s[i], t[j])
  PROVE  /\ Program(c, s \o t)
         /\ \A i \in DOMAIN (s \o t) :
              (\E j \in DOMAIN s : (s \o t)[i] = s[j]) \/ (\E j \in DOMAIN t : (s \o t)[i] = t[j])
<1>1. s \in Seq(Steps) /\ t \in Seq(Steps) /\ Arranged(c, s) /\ Arranged(c, t)
  BY Zenon DEF Program
<1>2. /\ s \o t \in Seq(Steps) /\ Len(s) \in Nat /\ Len(t) \in Nat
      /\ DOMAIN s = 1 .. Len(s) /\ DOMAIN t = 1 .. Len(t)
      /\ DOMAIN (s \o t) = 1 .. (Len(s) + Len(t))
      /\ \A i \in 1 .. Len(s) : (s \o t)[i] = s[i]
      /\ \A i \in 1 .. Len(t) : (s \o t)[Len(s) + i] = t[i]
  BY <1>1
<1>3. ASSUME NEW i \in DOMAIN (s \o t)
      PROVE  \/ i \in DOMAIN s /\ (s \o t)[i] = s[i]
             \/ i > Len(s) /\ i - Len(s) \in DOMAIN t /\ (s \o t)[i] = t[i - Len(s)]
  <2>1. CASE i \in 1 .. Len(s)
    BY <1>2, <2>1, Zenon
  <2>2. CASE i \notin 1 .. Len(s)
    <3>1. i > Len(s) /\ i - Len(s) \in 1 .. Len(t) /\ Len(s) + (i - Len(s)) = i
      BY <1>2, <2>2
    <3>2. QED
      BY <1>2, <3>1, Zenon
  <2>3. QED
    BY <2>1, <2>2, Zenon
<1>4. ASSUME NEW i \in DOMAIN (s \o t), NEW j \in DOMAIN (s \o t), i < j
      PROVE  Precedes(c, (s \o t)[i], (s \o t)[j])
  <2>1. CASE i \in DOMAIN s /\ j \in DOMAIN s
    BY <1>1, <1>2, <1>4, <2>1, Zenon DEF Arranged
  <2>2. CASE i \in DOMAIN s /\ j \notin DOMAIN s
    BY <1>2, <1>3, <2>2, Zenon
  <2>3. CASE i \notin DOMAIN s
    <3>1. i - Len(s) \in DOMAIN t /\ j - Len(s) \in DOMAIN t /\ i - Len(s) < j - Len(s)
      BY <1>2, <1>3, <1>4, <2>3
    <3>2. (s \o t)[i] = t[i - Len(s)] /\ (s \o t)[j] = t[j - Len(s)]
      BY <1>2, <1>3, <1>4, <2>3
    <3>3. QED
      BY <1>1, <3>1, <3>2, Zenon DEF Arranged
  <2>4. QED
    BY <2>1, <2>2, <2>3, Zenon
<1>5. QED
  BY <1>2, <1>3, <1>4, Zenon DEF Program, Arranged

(* What the programs are made of.                                          *)
LEMMA StepTypes ==
  /\ \A step \in Names, undo \in Deferred : Do(step, undo) \in Steps
  /\ \A arg \in {<<>>, <<Release>>} : Unlink(arg) \in Steps
  /\ Undos \subseteq Steps /\ Deferred \subseteq Seq(Undos)
<1>1. \A step \in Names, undo \in Deferred : Do(step, undo) \in Steps
  BY Zenon DEF Do, Step, Steps
<1>2. \A arg \in {<<>>, <<Release>>} : Unlink(arg) \in Steps
  BY Zenon DEF Unlink, Step, Steps, Names, DelSteps, Deferred
<1>3. Undos \subseteq Steps
  BY <1>1, <1>2, Zenon DEF Undos, Deferred, Release, DropTmp, Unspoof, Names, UndoSteps
<1>4. Deferred \subseteq Seq(Undos)
  BY DEF Deferred, Undos
<1>5. QED
  BY <1>1, <1>2, <1>3, <1>4, Zenon

-----------------------------------------------------------------------------
(* The programs of cmdAdd.                                                 *)

AddProgram(c, s) == Program(c, s) /\ \A i \in DOMAIN s : AddStep(c, s[i])

(* Parts that may come before ExecAdd, and parts that may come after it.   *)
Early(s) ==
  \A i \in DOMAIN s : s[i].do \notin {"ExecAdd", "HasIPs", "ConfigureIface", "SetupIPMasq"}
Late(c, s) == \A i \in DOMAIN s : s[i].do # "ExecAdd" /\ Safe(c, s[i])

(* An early part may come first and a late one last.                       *)
LEMMA AddConcat ==
  ASSUME NEW c, NEW s, NEW t, AddProgram(c, s), AddProgram(c, t), Early(s) \/ Late(c, t)
  PROVE  /\ AddProgram(c, s \o t)
         /\ \A step : Left(s \o t, step) <=> Left(s, step) \/ Left(t, step)
         /\ Early(s) /\ Early(t) => Early(s \o t)
         /\ Late(c, s) /\ Late(c, t) => Late(c, s \o t)
<1>1. s \in Seq(Steps) /\ t \in Seq(Steps) /\ Program(c, s) /\ Program(c, t)
  BY Zenon DEF AddProgram, Program
<1>2. ASSUME NEW i \in DOMAIN s, NEW j \in DOMAIN t
      PROVE  Precedes(c, s[i], t[j])
  BY Zenon DEF Precedes, AddProgram, AddStep, AddSteps, Early, Late
<1>3. /\ Program(c, s \o t)
      /\ \A i \in DOMAIN (s \o t) :
           (\E j \in DOMAIN s : (s \o t)[i] = s[j]) \/ (\E j \in DOMAIN t : (s \o t)[i] = t[j])
  BY <1>1, <1>2, ProgramConcat
<1>4. \A step : Left(s \o t, step) <=> Left(s, step) \/ Left(t, step)
  BY <1>1, ConcatLeft, Zenon
<1>5. \A i \in DOMAIN (s \o t) : AddStep(c, (s \o t)[i])
  BY <1>3, Zenon DEF AddProgram
<1>6. Early(s) /\ Early(t) => Early(s \o t)
  BY <1>3, Zenon DEF Early
<1>7. Late(c, s) /\ Late(c, t) => Late(c, s \o t)
  BY <1>3, Zenon DEF Late
<1>8. QED
  BY <1>3, <1>4, <1>5, <1>6, <1>7, Zenon DEF AddProgram

(* A part that is not there.                                               *)
LEMMA NoPart ==
  ASSUME NEW c
  PROVE  /\ AddProgram(c, <<>>) /\ Early(<<>>) /\ Late(c, <<>>)
         /\ \A step : ~Left(<<>>, step)
  BY DEF AddProgram, Program, Arranged, Early, Late, Left

(* The part in which addresses are delegated, in the plugins whose         *)
(* deferred function sees every error from there on but the fresh one of   *)
(* an empty result, and in ipvlan.                                         *)
LEMMA DelegatePart ==
  ASSUME NEW c, c.layer3, NEW s,
         \/ s = <<Do("ExecAdd", <<>>), Do("Check", <<Release>>), Do("HasIPs", <<>>),
                  Do("ConfigureIface", <<Release>>)>>
         \/ s = <<Do("ExecAdd", <<Unlink(<<>>)>>), Do("Check", <<Release, Unlink(<<>>)>>),
                  Do("HasIPs", <<>>), Do("ConfigureIface", <<Release, Unlink(<<>>)>>)>>
  PROVE  /\ AddProgram(c, s)
         /\ Left(s, "ConfigureIface") /\ Left(s, "HasIPs")
<1>1. s \in Seq(Steps)
  <2>1. \A step \in AddSteps, undo \in Deferred : Do(step, undo) \in Steps
    BY StepTypes, Zenon DEF Names
  <2>2. /\ <<Do("ExecAdd", <<>>), Do("Check", <<Release>>), Do("HasIPs", <<>>),
             Do("ConfigureIface", <<Release>>)>> \in Seq(Steps)
        /\ <<Do("ExecAdd", <<Unlink(<<>>)>>), Do("Check", <<Release, Unlink(<<>>)>>),
             Do("HasIPs", <<>>), Do("ConfigureIface", <<Release, Unlink(<<>>)>>)>> \in Seq(Steps)
    BY <2>1 DEF Deferred, AddSteps
  <2>3. QED
    BY <2>2, Zenon
<1>2. Arranged(c, s)
  BY DEF Arranged, Precedes, Safe, Do, Step, Left, Release
<1>3. \A i \in DOMAIN s : AddStep(c, s[i])
  BY DEF AddStep, AddSteps, Do, Step
<1>4. Left(s, "ConfigureIface") /\ Left(s, "HasIPs")
  BY DEF Left, Do, Step
<1>5. QED
  BY <1>1, <1>2, <1>3, <1>4, Zenon DEF Program, AddProgram

(* The parts that make a link.                                             *)
LEMMA CreatePart ==
  ASSUME NEW c, NEW s \in {CreateMacvlan, CreateIpvlan, CreateVlan, CreateTap, CreateDummy,
                           BridgeVeth}
  PROVE  AddProgram(c, s) /\ Early(s) /\ Left(s, "Lookup")
<1>1. s \in Seq(Steps)
  <2> \A step \in AddSteps, undo \in Deferred : Do(step, undo) \in Steps
    BY StepTypes, Zenon DEF Names
  <2>1. CreateMacvlan \in Seq(Steps) /\ CreateIpvlan \in Seq(Steps) /\ CreateVlan \in Seq(Steps)
    BY DEF CreateMacvlan, CreateIpvlan, CreateVlan, Deferred, AddSteps
  <2>2. CreateTap \in Seq(Steps) /\ CreateDummy \in Seq(Steps) /\ BridgeVeth \in Seq(Steps)
    BY DEF CreateTap, CreateDummy, BridgeVeth, Deferred, AddSteps
  <2>3. QED
    BY <2>1, <2>2, Zenon
<1>2. Early(s) /\ \A i \in DOMAIN s : AddStep(c, s[i])
  BY DEF CreateMacvlan, CreateIpvlan, CreateVlan, CreateTap, CreateDummy, BridgeVeth,
         AddStep, AddSteps, Early, Do, Step
<1>3. Arranged(c, s)
  BY <1>2, Zenon DEF Arranged, Precedes, Early, AddStep, AddSteps
<1>4. Left(s, "Lookup")
  BY DEF CreateMacvlan, CreateIpvlan, CreateVlan, CreateTap, CreateDummy, BridgeVeth,
         Left, Do, Step
<1>5. QED
  BY <1>1, <1>2, <1>3, <1>4, Zenon DEF Program, AddProgram

(* What ADD has to do before it may report a result.                       *)
AddComplete(c, s) ==
  /\ AddProgram(c, s) /\ Left(s, "Lookup")
  /\ c.layer3 => Left(s, "HasIPs") /\ Left(s, "ConfigureIface")
  /\ c.macSpoofChk => Left(s, "Setup")
  /\ c.layer3 /\ c.ipMasq => Left(s, "SetupIPMasq")

(* cmdAdd of macvlan and tap.                                               *)
LEMMA MacvlanTapPrograms ==
  ASSUME NEW c, NetConf(c), c.plugin \in {"macvlan", "tap"}
  PROVE  AddComplete(c, MacvlanAdd(c)) /\ AddComplete(c, TapAdd(c))
<1> DEFINE l3 == <<Do("ExecAdd", <<>>), Do("Check", <<Release>>), Do("HasIPs", <<>>),
                   Do("ConfigureIface", <<Release>>)>>
           l2 == <<Do("Lookup", <<Unlink(<<>>)>>)>>
<1>1. c.layer3 => AddProgram(c, l3) /\ Left(l3, "ConfigureIface") /\ Left(l3, "HasIPs")
  BY DelegatePart, Zenon
<1>2. AddProgram(c, l2)
  <2>1. l2 \in Seq(Steps)
    BY StepTypes DEF Deferred, Names, AddSteps
  <2>2. Arranged(c, l2) /\ \A i \in DOMAIN l2 : AddStep(c, l2[i])
    BY DEF Arranged, AddStep, AddSteps, Do, Step
  <2>3. QED
    BY <2>1, <2>2, Zenon DEF Program, AddProgram
<1> DEFINE part == IF c.layer3 THEN l3 ELSE l2
<1>3. AddProgram(c, part)
  BY <1>1, <1>2, Zenon
<1>4. c.layer3 => Left(part, "ConfigureIface") /\ Left(part, "HasIPs")
  BY <1>1, Zenon
<1>5. MacvlanAdd(c) = CreateMacvlan \o part /\ TapAdd(c) = CreateTap \o part
  BY Zenon DEF MacvlanAdd, TapAdd
<1>6. ~c.ipMasq /\ ~c.macSpoofChk
  BY Zenon DEF NetConf
<1> HIDE DEF part
<1>7. ASSUME NEW s \in {CreateMacvlan, CreateTap}
      PROVE  AddComplete(c, s \o part)
  <2>1. AddProgram(c, s) /\ Early(s) /\ Left(s, "Lookup")
    BY CreatePart, Zenon
  <2>2. /\ AddProgram(c, s \o part)
        /\ \A step : Left(s \o part, step) <=> Left(s, step) \/ Left(part, step)
    BY <1>3, <2>1, AddConcat, Zenon
  <2>3. QED
    BY <1>4, <1>6, <2>1, <2>2, Zenon DEF AddComplete
<1>8. QED
  BY <1>5, <1>7, Zenon

(* cmdAdd of vlan and dummy.                                                *)
LEMMA VlanDummyPrograms ==
  ASSUME NEW c, NetConf(c), c.plugin \in {"vlan", "dummy"}
  PROVE  AddComplete(c, VlanAdd(c)) /\ AddComplete(c, DummyAdd(c))
<1> DEFINE part == <<Do("ExecAdd", <<>>), Do("Check", <<Release>>), Do("HasIPs", <<>>),
                     Do("ConfigureIface", <<Release>>)>>
           unlinking == <<Do("ExecAdd", <<Unlink(<<>>)>>), Do("Check", <<Release, Unlink(<<>>)>>),
                          Do("HasIPs", <<>>), Do("ConfigureIface", <<Release, Unlink(<<>>)>>)>>
<1>1. c.layer3 /\ ~c.ipMasq /\ ~c.macSpoofChk
  BY Zenon DEF NetConf
<1>2. /\ AddProgram(c, part) /\ Left(part, "ConfigureIface") /\ Left(part, "HasIPs")
      /\ AddProgram(c, unlinking) /\ Left(unlinking, "ConfigureIface") /\ Left(unlinking, "HasIPs")
  BY <1>1, DelegatePart, Zenon
<1>3. VlanAdd(c) = CreateVlan \o part /\ DummyAdd(c) = CreateDummy \o unlinking
  BY Zenon DEF VlanAdd, DummyAdd
<1> HIDE DEF part, unlinking
<1>4. ASSUME NEW s \in {CreateVlan, CreateDummy}, NEW t \in {part, unlinking}
      PROVE  AddComplete(c, s \o t)
  <2>1. AddProgram(c, s) /\ Early(s) /\ Left(s, "Lookup")
    BY CreatePart, Zenon
  <2>2. /\ AddProgram(c, s \o t)
        /\ \A step : Left(s \o t, step) <=> Left(s, step) \/ Left(t, step)
    BY <1>2, <2>1, AddConcat
  <2>3. QED
    BY <1>1, <1>2, <2>1, <2>2, Zenon DEF AddComplete
<1>5. QED
  BY <1>3, <1>4, Zenon

(* A part of one step.                                                     *)
LEMMA OneStep ==
  ASSUME NEW c, NEW x \in Steps, AddStep(c, x)
  PROVE  /\ AddProgram(c, <<x>>)
         /\ \A step : Left(<<x>>, step) <=> x.do = step
         /\ Early(<<x>>) <=> x.do \notin {"ExecAdd", "HasIPs", "ConfigureIface", "SetupIPMasq"}
         /\ Late(c, <<x>>) <=> x.do # "ExecAdd" /\ Safe(c, x)
<1>1. <<x>> \in Seq(Steps) /\ DOMAIN <<x>> = {1} /\ <<x>>[1] = x
  OBVIOUS
<1>2. Arranged(c, <<x>>)
  BY <1>1 DEF Arranged
<1>3. QED
  BY <1>1, <1>2, Zenon DEF AddProgram, Program, Left, Early, Late

(* cmdAdd of ipvlan.                                                        *)
LEMMA IpvlanProgram ==
  ASSUME NEW c, NetConf(c), c.plugin = "ipvlan"
  PROVE  AddComplete(c, IpvlanAdd(c))
<1> DEFINE l3 == <<Do("ExecAdd", <<>>), Do("Check", <<Release>>), Do("HasIPs", <<>>)>>
           part == When(c.layer3, l3)
           last == <<Do("ConfigureIface", <<>>)>>
<1>1. c.layer3 => AddProgram(c, l3) /\ Left(l3, "HasIPs")
  <2>1. l3 \in Seq(Steps)
    BY StepTypes DEF Deferred, Names, AddSteps
  <2>2. Arranged(c, l3) /\ Left(l3, "HasIPs")
    BY DEF Arranged, Precedes, Safe, Releasing, Left, Do, Step
  <2>3. c.layer3 => \A i \in DOMAIN l3 : AddStep(c, l3[i])
    BY DEF AddStep, AddSteps, Do, Step
  <2>4. QED
    BY <2>1, <2>2, <2>3, Zenon DEF Program, AddProgram
<1>2. AddProgram(c, part) /\ (c.layer3 => Left(part, "HasIPs"))
  BY <1>1, NoPart, Zenon DEF When
<1>3. AddProgram(c, last) /\ Late(c, last) /\ Left(last, "ConfigureIface")
  <2>1. Do("ConfigureIface", <<>>) \in Steps
    BY StepTypes, Zenon DEF Deferred, Names, AddSteps
  <2>2. /\ AddStep(c, Do("ConfigureIface", <<>>)) /\ Safe(c, Do("ConfigureIface", <<>>))
        /\ Do("ConfigureIface", <<>>).do = "ConfigureIface"
    BY Zenon DEF AddStep, AddSteps, Safe, Releasing, Do, Step
  <2>3. QED
    BY <2>1, <2>2, OneStep, Zenon
<1>4. AddProgram(c, CreateIpvlan) /\ Early(CreateIpvlan) /\ Left(CreateIpvlan, "Lookup")
  BY CreatePart, Zenon
<1>5. ~c.ipMasq /\ ~c.macSpoofChk
  BY Zenon DEF NetConf
<1>6. IpvlanAdd(c) = (CreateIpvlan \o part) \o last
  BY Zenon DEF IpvlanAdd
<1> HIDE DEF part, last
<1>7. /\ AddProgram(c, CreateIpvlan \o part)
      /\ \A step : Left(CreateIpvlan \o part, step) <=> Left(CreateIpvlan, step) \/ Left(part, step)
  BY <1>2, <1>4, AddConcat, Zenon
<1>8. /\ AddProgram(c, (CreateIpvlan \o part) \o last)
      /\ \A step : Left((CreateIpvlan \o part) \o last, step) <=>
                     Left(CreateIpvlan \o part, step) \/ Left(last, step)
  BY <1>3, <1>7, AddConcat
<1>9. QED
  BY <1>2, <1>3, <1>4, <1>5, <1>6, <1>7, <1>8, Zenon DEF AddComplete

(* cmdAdd of ptp, which delegates before there is a link.                   *)
LEMMA PtpProgram ==
  ASSUME NEW c, NetConf(c), c.plugin = "ptp"
  PROVE  AddComplete(c, PtpAdd(c))
<1> DEFINE first == <<Do("ExecAdd", <<>>), Do("Check", <<Release>>), Do("HasIPs", <<>>),
                      Do("Check", <<>>), Do("Check", <<Release>>)>>
           masqStep == Do("SetupIPMasq", <<Release>>)
           last == When(c.ipMasq, <<masqStep>>)
<1>1. c.layer3 /\ c.ipMasq \in BOOLEAN /\ ~c.macSpoofChk /\ ~Releasing(c)
  BY Zenon DEF NetConf, Releasing
<1>2. AddProgram(c, first) /\ Left(first, "HasIPs")
  <2>1. first \in Seq(Steps)
    BY StepTypes DEF Deferred, Names, AddSteps
  <2>2. Arranged(c, first) /\ Left(first, "HasIPs")
    BY <1>1 DEF Arranged, Precedes, Safe, Left, Do, Step
  <2>3. \A i \in DOMAIN first : AddStep(c, first[i])
    BY <1>1 DEF AddStep, AddSteps, Do, Step
  <2>4. QED
    BY <2>1, <2>2, <2>3, Zenon DEF Program, AddProgram
<1>3. /\ AddProgram(c, SetupContainerVeth) /\ Late(c, SetupContainerVeth)
      /\ Left(SetupContainerVeth, "Lookup") /\ Left(SetupContainerVeth, "ConfigureIface")
  <2>1. SetupContainerVeth \in Seq(Steps)
    BY StepTypes, SMTT(30) DEF SetupContainerVeth, Deferred, Names, AddSteps
  <2>2. /\ Arranged(c, SetupContainerVeth) /\ Late(c, SetupContainerVeth)
        /\ Left(SetupContainerVeth, "Lookup") /\ Left(SetupContainerVeth, "ConfigureIface")
    BY <1>1 DEF SetupContainerVeth, Arranged, Precedes, Late, Safe, Left, Do, Step
  <2>3. \A i \in DOMAIN SetupContainerVeth : AddStep(c, SetupContainerVeth[i])
    BY DEF SetupContainerVeth, AddStep, AddSteps, Do, Step
  <2>4. QED
    BY <2>1, <2>2, <2>3, Zenon DEF Program, AddProgram
<1>4. AddProgram(c, SetupHostVeth) /\ Late(c, SetupHostVeth)
  <2>1. Do("Check", <<Release>>) \in Steps
    BY StepTypes, Zenon DEF Deferred, Names, AddSteps
  <2>2. /\ AddStep(c, Do("Check", <<Release>>)) /\ Safe(c, Do("Check", <<Release>>))
        /\ Do("Check", <<Release>>).do = "Check"
    BY <1>1, Zenon DEF AddStep, AddSteps, Safe, Do, Step
  <2>3. QED
    BY <2>1, <2>2, OneStep, Zenon DEF SetupHostVeth
<1>5. AddProgram(c, last) /\ Late(c, last) /\ (c.ipMasq => Left(last, "SetupIPMasq"))
  <2>1. masqStep \in Steps
    BY StepTypes, Zenon DEF Deferred, Names, AddSteps
  <2>2. (c.ipMasq => AddStep(c, masqStep)) /\ Safe(c, masqStep) /\ masqStep.do = "SetupIPMasq"
    BY <1>1, Zenon DEF AddStep, AddSteps, Safe, Do, Step
  <2>3. c.ipMasq => /\ AddProgram(c, <<masqStep>>) /\ Late(c, <<masqStep>>)
                    /\ Left(<<masqStep>>, "SetupIPMasq")
    BY <2>1, <2>2, OneStep, Zenon
  <2>4. QED
    BY <1>1, <2>3, NoPart, Zenon DEF When
<1>6. PtpAdd(c) = ((first \o SetupContainerVeth) \o SetupHostVeth) \o last
  BY Zenon DEF PtpAdd
<1> HIDE DEF first, last
<1> DEFINE s2 == first \o SetupContainerVeth
           s3 == s2 \o SetupHostVeth
           s4 == s3 \o last
<1>7. AddProgram(c, s2) /\ \A step : Left(s2, step) <=> Left(first, step) \/ Left(SetupContainerVeth, step)
  BY <1>2, <1>3, AddConcat, Zenon
<1> HIDE DEF s2
<1>8. AddProgram(c, s3) /\ \A step : Left(s3, step) <=> Left(s2, step) \/ Left(SetupHostVeth, step)
  BY <1>4, <1>7, AddConcat, Zenon
<1> HIDE DEF s3
<1>9. AddProgram(c, s4) /\ \A step : Left(s4, step) <=> Left(s3, step) \/ Left(last, step)
  BY <1>5, <1>8, AddConcat, Zenon
<1> HIDE DEF s4
<1>10. PtpAdd(c) = s4
  BY <1>6, Zenon DEF s2, s3, s4
<1>11. QED
  BY <1>1, <1>2, <1>3, <1>5, <1>7, <1>8, <1>9, <1>10, Zenon DEF AddComplete

(* cmdAdd of bridge.                                                        *)
LEMMA BridgeProgram ==
  ASSUME NEW c, NetConf(c), c.plugin = "bridge"
  PROVE  AddComplete(c, BridgeAdd(c))
<1> DEFINE unspoof == When(c.macSpoofChk, <<Unspoof>>)
           undo == When(c.layer3, <<Release>>) \o unspoof
           check == Do("Check", <<>>)
           setup == Do("Setup", <<>>)
           spoofing == When(c.macSpoofChk, <<setup>>)
           l3 == <<Do("ExecAdd", unspoof), Do("Check", undo), Do("HasIPs", undo),
                   Do("ConfigureIface", undo), Do("Check", undo)>>
           setupMasq == Do("SetupIPMasq", undo)
           masquerading == When(c.ipMasq, <<setupMasq>>)
           lookup == Do("Lookup", undo)
<1>1. {c.layer3, c.ipMasq, c.macSpoofChk} \subseteq BOOLEAN
  BY Zenon DEF NetConf
<1>2. unspoof \in Deferred /\ undo \in Deferred /\ (c.layer3 => Left(undo, "ExecDel"))
  <2>1. <<Release>> \o <<>> = <<Release>> /\ <<>> \o <<Unspoof>> = <<Unspoof>> /\ <<>> \o <<>> = <<>>
    <3>1. <<>> \in Seq({Release, Unspoof}) /\ <<Release>> \in Seq({Release, Unspoof})
          /\ <<Unspoof>> \in Seq({Release, Unspoof})
      OBVIOUS
    <3>2. QED
      BY <3>1, ConcatEmptySeq, Zenon
  <2>2. <<Release>> \o <<Unspoof>> = <<Release, Unspoof>>
    <3> DEFINE S == {Release, Unspoof}
               both == <<Release>> \o <<Unspoof>>
    <3>1. /\ both \in Seq(S) /\ Len(both) = 2 /\ both[1] = Release /\ both[2] = Unspoof
      <4>1. <<Release>> \in Seq(S) /\ <<Unspoof>> \in Seq(S)
        OBVIOUS
      <4>2. /\ Len(<<Release>>) = 1 /\ <<Release>>[1] = Release
            /\ Len(<<Unspoof>>) = 1 /\ <<Unspoof>>[1] = Unspoof
        BY Zenon
      <4>3. QED
        BY <4>1, <4>2, ConcatProperties
    <3>2. <<Release, Unspoof>> \in Seq(S) /\ Len(<<Release, Unspoof>>) = 2
      OBVIOUS
    <3> HIDE DEF both
    <3>3. \A i \in 1 .. 2 : both[i] = <<Release, Unspoof>>[i]
      BY <3>1
    <3>4. both = <<Release, Unspoof>>
      BY <3>1, <3>2, <3>3, SeqEqual, Zenon
    <3>5. QED
      BY <3>4, Zenon DEF both
  <2>3. Left(<<Release>>, "ExecDel") /\ Left(<<Release, Unspoof>>, "ExecDel")
    BY DEF Left, Release, Do, Step
  <2>4. QED
    BY <1>1, <2>1, <2>2, <2>3, Zenon DEF When, Deferred
<1> HIDE DEF unspoof, undo
<1>3. /\ check \in Steps /\ setup \in Steps /\ setupMasq \in Steps /\ lookup \in Steps
      /\ \A step \in AddSteps, u \in {unspoof, undo} : Do(step, u) \in Steps
  BY <1>2, StepTypes, Zenon DEF Deferred, Names, AddSteps
<1>4. /\ AddProgram(c, <<check>>) /\ Early(<<check>>)
      /\ AddProgram(c, <<setup>>) /\ Early(<<setup>>) /\ Left(<<setup>>, "Setup")
      /\ AddProgram(c, <<lookup>>) /\ Early(<<lookup>>) /\ (c.layer3 => Late(c, <<lookup>>))
      /\ Left(<<lookup>>, "Lookup")
      /\ c.layer3 /\ c.ipMasq => /\ AddProgram(c, <<setupMasq>>) /\ Late(c, <<setupMasq>>)
                                 /\ Left(<<setupMasq>>, "SetupIPMasq")
  <2>1. /\ AddStep(c, check) /\ check.do = "Check"
        /\ AddStep(c, setup) /\ setup.do = "Setup"
        /\ AddStep(c, lookup) /\ lookup.do = "Lookup" /\ lookup.undo = undo
        /\ (c.layer3 /\ c.ipMasq => AddStep(c, setupMasq))
        /\ setupMasq.do = "SetupIPMasq" /\ setupMasq.undo = undo
    BY Zenon DEF AddStep, AddSteps, Do, Step
  <2>2. c.layer3 => Safe(c, lookup) /\ Safe(c, setupMasq)
    BY <1>2, <2>1, Zenon DEF Safe
  <2> HIDE DEF check, setup, lookup, setupMasq
  <2>3. QED
    BY <1>3, <2>1, <2>2, OneStep, Zenon
<1> HIDE DEF check, setup, lookup, setupMasq
<1>5. c.layer3 => /\ AddProgram(c, l3) /\ Left(l3, "HasIPs") /\ Left(l3, "ConfigureIface")
  <2>1. l3 \in Seq(Steps)
    BY <1>3 DEF AddSteps
  <2>2. c.layer3 => Arranged(c, l3) 
    BY <1>2 DEF Arranged, Precedes, Safe, Do, Step
  <2>3. c.layer3 => \A i \in DOMAIN l3 : AddStep(c, l3[i])
    BY DEF AddStep, AddSteps, Do, Step
  <2>4. Left(l3, "HasIPs") /\ Left(l3, "ConfigureIface")
    BY DEF Left, Do, Step
  <2>5. QED
    BY <2>1, <2>2, <2>3, <2>4, Zenon DEF Program, AddProgram
<1> HIDE DEF l3
<1> DEFINE part == IF c.layer3 THEN l3 \o masquerading ELSE <<>>
<1>6. /\ AddProgram(c, part)
      /\ c.layer3 => Left(part, "HasIPs") /\ Left(part, "ConfigureIface")
      /\ c.layer3 /\ c.ipMasq => Left(part, "SetupIPMasq")
      /\ ~c.layer3 => Early(part)
  <2>1. CASE c.layer3
    <3>1. /\ AddProgram(c, masquerading) /\ Late(c, masquerading)
          /\ c.ipMasq => Left(masquerading, "SetupIPMasq")
      BY <1>1, <1>4, <2>1, NoPart, Zenon DEF When
    <3> HIDE DEF masquerading
    <3>2. /\ AddProgram(c, l3 \o masquerading)
          /\ \A step : Left(l3 \o masquerading, step) <=> Left(l3, step) \/ Left(masquerading, step)
      BY <1>5, <2>1, <3>1, AddConcat, Zenon
    <3>3. QED
      BY <1>5, <2>1, <3>1, <3>2, Zenon
  <2>2. CASE ~c.layer3
    BY <2>2, NoPart, Zenon
  <2>3. QED
    BY <1>1, <2>1, <2>2, Zenon
<1> HIDE DEF part
<1>7. /\ AddProgram(c, spoofing) /\ Early(spoofing)
      /\ c.macSpoofChk => Left(spoofing, "Setup")
  BY <1>1, <1>4, NoPart, Zenon DEF When
<1> HIDE DEF spoofing
<1>8. AddProgram(c, BridgeVeth) /\ Early(BridgeVeth)
  BY CreatePart, Zenon
<1> DEFINE s2 == <<check>> \o BridgeVeth
           s3 == s2 \o spoofing
           s4 == s3 \o part
           s5 == s4 \o <<lookup>>
<1>9. AddProgram(c, s2) /\ Early(s2)
  BY <1>4, <1>8, AddConcat, Zenon
<1> HIDE DEF s2
<1>10. /\ AddProgram(c, s3) /\ Early(s3)
       /\ \A step : Left(s3, step) <=> Left(s2, step) \/ Left(spoofing, step)
  BY <1>7, <1>9, AddConcat, Zenon
<1> HIDE DEF s3
<1>11. /\ AddProgram(c, s4) /\ (~c.layer3 => Early(s4))
       /\ \A step : Left(s4, step) <=> Left(s3, step) \/ Left(part, step)
  BY <1>6, <1>10, AddConcat, Zenon
<1> HIDE DEF s4
<1>12. /\ AddProgram(c, s5)
       /\ \A step : Left(s5, step) <=> Left(s4, step) \/ Left(<<lookup>>, step)
  BY <1>1, <1>4, <1>11, AddConcat, Zenon
<1>13. BridgeAdd(c) = s5
  BY Zenon DEF BridgeAdd, s2, s3, s4, s5, part, spoofing, l3, masquerading, check, setup, lookup,
         setupMasq, undo, unspoof
<1> HIDE DEF s5
<1>14. QED
  BY <1>4, <1>6, <1>7, <1>10, <1>11, <1>12, <1>13, Zenon DEF AddComplete

(* Every cmdAdd.                                                           *)
LEMMA AddPrograms ==
  ASSUME NEW c, NetConf(c)
  PROVE  AddComplete(c, CmdAdd(c))
  BY MacvlanTapPrograms, VlanDummyPrograms, IpvlanProgram, PtpProgram, BridgeProgram, Zenon
  DEF NetConf, CmdAdd

-----------------------------------------------------------------------------
(* The programs of cmdDel.                                                 *)

DelProgram(c, s) == Program(c, s) /\ \A i \in DOMAIN s : DelStep(s[i])

(* What cmdDel has to do: delete the link, release the addresses, remove   *)
(* the masquerading rules.                                                 *)
DelComplete(c, s) ==
  /\ DelProgram(c, s) /\ Left(s, "DelLinkByName")
  /\ c.layer3 => Left(s, "ExecDel")
  /\ c.layer3 /\ c.ipMasq => Left(s, "TeardownIPMasq")

(* A DEL program of one step, or none.                                     *)
LEMMA DelOneStep ==
  ASSUME NEW c
  PROVE  /\ DelProgram(c, <<>>) /\ \A step : ~Left(<<>>, step)
         /\ \A x \in {Release, Unspoof, Unmasq, Unlink(<<>>), Unlink(<<Release>>)} :
              DelProgram(c, <<x>>) /\ \A step : Left(<<x>>, step) <=> x.do = step
<1>1. DelProgram(c, <<>>) /\ \A step : ~Left(<<>>, step)
  BY DEF DelProgram, Program, Arranged, Left
<1>2. ASSUME NEW x \in {Release, Unspoof, Unmasq, Unlink(<<>>), Unlink(<<Release>>)}
      PROVE  DelProgram(c, <<x>>) /\ \A step : Left(<<x>>, step) <=> x.do = step
  <2>1. x \in Steps
    BY StepTypes, Zenon DEF Release, Unspoof, Unmasq, Names, DelSteps, Deferred
  <2>2. DelStep(x)
    BY DEF DelStep, DelSteps, Release, Unspoof, Unmasq, Unlink, Do, Step
  <2>3. <<x>> \in Seq(Steps) /\ DOMAIN <<x>> = {1} /\ <<x>>[1] = x
    BY <2>1
  <2>4. QED
    BY <2>2, <2>3 DEF DelProgram, Program, Arranged, Left
<1>3. QED
  BY <1>1, <1>2, Zenon

(* A DEL program may be put before another when the link is not deleted    *)
(* after it, and when its own deletion of the link releases the addresses  *)
(* if the other one does.                                                  *)
LEMMA DelConcat ==
  ASSUME NEW c, NEW s, NEW t, DelProgram(c, s), DelProgram(c, t),
         Left(t, "DelLinkByName") =>
           c.plugin # "bridge" /\ ~Left(s, "DelLinkByName") /\ ~Left(s, "TeardownIPMasq"),
         Left(t, "ExecDel") =>
           \A i \in DOMAIN s : s[i].do = "DelLinkByName" => Left(s[i].arg, "ExecDel")
  PROVE  /\ DelProgram(c, s \o t)
         /\ \A step : Left(s \o t, step) <=> Left(s, step) \/ Left(t, step)
<1>1. s \in Seq(Steps) /\ t \in Seq(Steps) /\ Program(c, s) /\ Program(c, t)
  BY Zenon DEF DelProgram, Program
<1>2. \A step : Left(s \o t, step) <=> Left(s, step) \/ Left(t, step)
  BY <1>1, ConcatLeft, Zenon
<1>3. ASSUME NEW i \in DOMAIN s, NEW j \in DOMAIN t
      PROVE  Precedes(c, s[i], t[j])
  <2>1. s[i].do \in DelSteps /\ t[j].do \in DelSteps
    BY Zenon DEF DelProgram, DelStep
  <2>2. QED
    BY <2>1, Zenon DEF Precedes, Left, DelSteps
<1>4. /\ Program(c, s \o t)
      /\ \A i \in DOMAIN (s \o t) :
           (\E j \in DOMAIN s : (s \o t)[i] = s[j]) \/ (\E j \in DOMAIN t : (s \o t)[i] = t[j])
  BY <1>1, <1>3, ProgramConcat
<1>5. \A i \in DOMAIN (s \o t) : DelStep((s \o t)[i])
  <2>1. (\A j \in DOMAIN s : DelStep(s[j])) /\ (\A j \in DOMAIN t : DelStep(t[j]))
    BY Zenon DEF DelProgram
  <2>2. QED
    BY <1>4, <2>1, Zenon
<1>6. QED
  BY <1>2, <1>4, <1>5, Zenon DEF DelProgram

(* cmdDel of the plugins that release the addresses first.                 *)
LEMMA ReleaseFirstPrograms ==
  ASSUME NEW c, NetConf(c), c.plugin # "bridge"
  PROVE  DelComplete(c, CmdDel(c))
<1> DEFINE release == When(c.layer3, <<Release>>)
           l2 == release \o <<Unlink(<<>>)>>
           l3 == <<Release, Unlink(<<>>)>>
           unmasq == When(c.ipMasq, <<Unmasq>>)
<1>1. /\ Release.do = "ExecDel" /\ Unlink(<<>>).do = "DelLinkByName"
      /\ Unmasq.do = "TeardownIPMasq"
  BY Zenon DEF Release, Unlink, Unmasq, Do, Step
<1>2. c.layer3 \in BOOLEAN /\ c.ipMasq \in BOOLEAN
  BY Zenon DEF NetConf
<1>3. /\ DelProgram(c, release) /\ (c.layer3 => Left(release, "ExecDel"))
      /\ ~Left(release, "DelLinkByName") /\ ~Left(release, "TeardownIPMasq")
      /\ DelProgram(c, <<Unlink(<<>>)>>)
      /\ \A step : Left(<<Unlink(<<>>)>>, step) <=> step = "DelLinkByName"
      /\ DelProgram(c, unmasq) /\ (c.ipMasq => Left(unmasq, "TeardownIPMasq"))
      /\ ~Left(unmasq, "DelLinkByName") /\ ~Left(unmasq, "ExecDel")
  BY <1>1, <1>2, DelOneStep, Zenon DEF When
<1>4. /\ DelProgram(c, l2) /\ Left(l2, "DelLinkByName") /\ (c.layer3 => Left(l2, "ExecDel"))
  <2> HIDE DEF release
  <2>1. /\ DelProgram(c, l2)
        /\ \A step : Left(l2, step) <=> Left(release, step) \/ Left(<<Unlink(<<>>)>>, step)
    BY <1>3, DelConcat, Zenon
  <2>2. QED
    BY <1>3, <2>1, Zenon
<1>5. DelProgram(c, l3) /\ Left(l3, "DelLinkByName") /\ Left(l3, "ExecDel")
  <2>1. l3 \in Seq(Steps)
    BY StepTypes DEF Undos
  <2>2. \A i \in DOMAIN l3 : DelStep(l3[i])
    BY DEF DelStep, DelSteps, Release, Unlink, Do, Step
  <2>3. Arranged(c, l3)
    BY DEF Arranged, Precedes, Safe, Release, Unlink, Do, Step
  <2>4. QED
    BY <1>1, <2>1, <2>2, <2>3 DEF DelProgram, Program, Left
<1>6. /\ DelProgram(c, l3 \o unmasq)
      /\ \A step : Left(l3 \o unmasq, step) <=> Left(l3, step) \/ Left(unmasq, step)
  <2> HIDE DEF l3, unmasq
  <2>1. QED
    BY <1>3, <1>5, DelConcat, Zenon
<1>7. CASE c.plugin \in {"macvlan", "ipvlan", "tap"}
  <2>1. CmdDel(c) = l2
    BY <1>7, Zenon DEF CmdDel, MacvlanDel, IpvlanDel, TapDel
  <2> HIDE DEF l2
  <2>2. QED
    BY <1>4, <1>7, <2>1, Zenon DEF DelComplete, NetConf
<1>8. CASE c.plugin \in {"vlan", "dummy"}
  <2>1. CmdDel(c) = l3
    BY <1>8, Zenon DEF CmdDel, VlanDel, DummyDel
  <2> HIDE DEF l3
  <2>2. QED
    BY <1>5, <1>8, <2>1, Zenon DEF DelComplete, NetConf
<1>9. CASE c.plugin = "ptp"
  <2>1. CmdDel(c) = l3 \o unmasq
    BY <1>9, Zenon DEF CmdDel, PtpDel
  <2> HIDE DEF l3, unmasq
  <2>2. QED
    BY <1>3, <1>5, <1>6, <1>9, <2>1, Zenon DEF DelComplete
<1>10. QED
  BY <1>7, <1>8, <1>9, Zenon DEF NetConf

(* cmdDel of bridge, which deletes the link first.                         *)
LEMMA BridgeDelProgram ==
  ASSUME NEW c, NetConf(c), c.plugin = "bridge"
  PROVE  DelComplete(c, CmdDel(c))
<1> DEFINE release == When(c.layer3, <<Release>>)
           unlink == <<Unlink(release)>>
           unspoof == When(c.macSpoofChk, <<Unspoof>>)
           unmasq == When(c.layer3 /\ c.ipMasq, <<Unmasq>>)
<1>1. {c.layer3, c.ipMasq, c.macSpoofChk} \subseteq BOOLEAN
  BY Zenon DEF NetConf
<1>2. /\ Release.do = "ExecDel" /\ Unspoof.do = "Teardown" /\ Unmasq.do = "TeardownIPMasq"
      /\ \A arg : Unlink(arg).do = "DelLinkByName" /\ Unlink(arg).arg = arg
  BY Zenon DEF Release, Unspoof, Unmasq, Unlink, Do, Step
<1>3. /\ DelProgram(c, release) /\ ~Left(release, "DelLinkByName")
      /\ Left(release, "ExecDel") <=> c.layer3
  BY <1>1, <1>2, DelOneStep, Zenon DEF When
<1>4. DelProgram(c, unlink) /\ \A step : Left(unlink, step) <=> step = "DelLinkByName"
  BY <1>1, <1>2, DelOneStep, Zenon DEF When
<1>5. /\ DelProgram(c, unspoof) /\ ~Left(unspoof, "DelLinkByName") /\ ~Left(unspoof, "ExecDel")
      /\ DelProgram(c, unmasq) /\ ~Left(unmasq, "DelLinkByName") /\ ~Left(unmasq, "ExecDel")
      /\ c.layer3 /\ c.ipMasq => Left(unmasq, "TeardownIPMasq")
  BY <1>1, <1>2, DelOneStep, Zenon DEF When
<1>6. \A i \in DOMAIN unlink : unlink[i].arg = release
  BY <1>2
<1> HIDE DEF release, unlink, unspoof, unmasq
<1> DEFINE s2 == unlink \o release
           s3 == s2 \o unspoof
           s4 == s3 \o unmasq
<1>7. DelProgram(c, s2) /\ \A step : Left(s2, step) <=> Left(unlink, step) \/ Left(release, step)
  BY <1>3, <1>4, <1>6, DelConcat
<1> HIDE DEF s2
<1>8. DelProgram(c, s3) /\ \A step : Left(s3, step) <=> Left(s2, step) \/ Left(unspoof, step)
  BY <1>5, <1>7, DelConcat, Zenon
<1> HIDE DEF s3
<1>9. DelProgram(c, s4) /\ \A step : Left(s4, step) <=> Left(s3, step) \/ Left(unmasq, step)
  BY <1>5, <1>8, DelConcat, Zenon
<1>10. CmdDel(c) = s4
  BY Zenon DEF CmdDel, BridgeDel, s2, s3, s4, release, unlink, unspoof, unmasq
<1> HIDE DEF s4
<1>11. QED
  BY <1>3, <1>4, <1>5, <1>7, <1>8, <1>9, <1>10, Zenon DEF DelComplete

(* Every cmdDel.                                                           *)
LEMMA DelPrograms ==
  ASSUME NEW c, NetConf(c)
  PROVE  DelComplete(c, CmdDel(c))
  BY ReleaseFirstPrograms, BridgeDelProgram, Zenon

-----------------------------------------------------------------------------
(* What a step does to the command it belongs to.                          *)

(* Nothing changes for attachment b.                                       *)
Same(b) ==
  /\ conf'[b] = conf[b] /\ rt'[b] = rt[b] /\ rest'[b] = rest[b] /\ ns'[b] = ns[b]
  /\ links'[b] = links[b] /\ addr'[b] = addr[b]
  /\ spoof'[b] = spoof[b] /\ masq'[b] = masq[b] /\ ipnets'[b] = ipnets[b]
  /\ held'[b] = held[b] /\ live'[b] = live[b]

(* The command of a goes on with the steps s, in phase t.                  *)
Goes(a, s, t) ==
  /\ rest' \in [Att -> Seq(Steps)] /\ rest'[a] = s
  /\ rt' \in [Att -> Idle \cup DOMAIN Final] /\ rt'[a] = t
  /\ s = <<>> <=> t \in Idle
  /\ \A b \in Att : b # a => rest'[b] = rest[b] /\ rt'[b] = rt[b]

(* The phases, and what they end in.                                       *)
LEMMA Phases ==
  /\ Idle \cup DOMAIN Final = {"detached", "attached", "failed", "dirty", "adding", "undoing",
                               "botched", "deleting", "reverting"}
  /\ Final["adding"] = "attached" /\ Final["undoing"] = "failed" /\ Final["botched"] = "dirty"
  /\ Final["deleting"] = "detached"
  /\ "dirty" \in Idle /\ <<>> \in Seq(Steps)
  BY DEF Idle, Final

(* The types of what there is for an attachment.                           *)
LEMMA Types ==
  ASSUME Inv
  PROVE  /\ ns \in [Att -> BOOLEAN] /\ links \in [Att -> SUBSET {"tmp", "named"}]
         /\ addr \in [Att -> SUBSET IPs] /\ ipnets \in [Att -> SUBSET IPs]
         /\ spoof \in [Att -> BOOLEAN] /\ masq \in [Att -> SUBSET IPs]
         /\ held \in [Att -> SUBSET IPs] /\ live \in [Att -> SUBSET IPs]
         /\ rest \in [Att -> Seq(Steps)] /\ rt \in [Att -> Idle \cup DOMAIN Final]
  BY Zenon DEF Inv, TypeOK

(* What the invariant says of one attachment.                              *)
LEMMA InvAt ==
  ASSUME Inv, NEW a \in Att
  PROVE  /\ Local(a) /\ Always(a)
         /\ rt[a] = "adding" => Adding(a)
         /\ rt[a] \in {"undoing", "botched"} => Undoing(a)
         /\ rt[a] = "deleting" => Deleting(a)
         /\ rt[a] = "attached" => Attached(a)
         /\ rt[a] = "detached" => Detached(a)
         /\ rt[a] = "failed" /\ Releasing(conf[a]) => held[a] = {}
         /\ rest[a] = <<>> <=> rt[a] \in Idle
         /\ addr[a] # {} => "named" \in links[a]
<1>1. Local(a) /\ TypeOK
  BY Zenon DEF Inv
<1>2. (rest[a] = <<>> <=> rt[a] \in Idle) /\ (addr[a] # {} => "named" \in links[a])
  BY <1>1, Zenon DEF TypeOK
<1>3. QED
  BY <1>1, <1>2, Zenon DEF Local

(* A command that has steps left is in one of four phases.                 *)
LEMMA Running ==
  ASSUME Inv, NEW a \in Att, rest[a] # <<>>
  PROVE  rt[a] \in {"adding", "undoing", "botched", "deleting"}
<1>1. rt[a] \in Idle \cup DOMAIN Final /\ rt[a] \notin Idle /\ rt[a] # "reverting"
  BY InvAt, Types, Zenon DEF Always
<1>2. QED
  BY <1>1, Phases, Zenon DEF Idle

(* What the programs say of the step at the head and of those after it.    *)
LEMMA HeadFirst ==
  ASSUME NEW c, NEW s, Program(c, s), s # <<>>
  PROVE  LET x == Head(s) t == Tail(s) IN
         /\ s \in Seq(Steps) /\ Program(c, t) /\ x \in Steps
         /\ \A step : Left(s, step) <=> x.do = step \/ Left(t, step)
         /\ (\A i \in DOMAIN s : AddStep(c, s[i])) =>
              AddStep(c, x) /\ \A i \in DOMAIN t : AddStep(c, t[i])
         /\ (\A i \in DOMAIN s : DelStep(s[i])) => DelStep(x) /\ \A i \in DOMAIN t : DelStep(t[i])
         /\ (\A i \in DOMAIN s : Safe(c, s[i])) => Safe(c, x) /\ \A i \in DOMAIN t : Safe(c, t[i])
         /\ x.do \in {"ExecAdd", "HasIPs", "ConfigureIface", "SetupIPMasq"} => ~Left(t, "ExecAdd")
         /\ x.do = "ExecAdd" => \A i \in DOMAIN t : Safe(c, t[i])
         /\ x.do \in {"DelLinkByName", "TeardownIPMasq"} \/ c.plugin = "bridge" =>
              ~Left(t, "DelLinkByName")
         /\ x.do = "DelLinkByName" /\ Left(t, "ExecDel") => Left(x.arg, "ExecDel")
<1> DEFINE x == Head(s)
           t == Tail(s)
<1>1. s \in Seq(Steps) /\ Program(c, t) /\ x \in Steps
  BY ProgramTail, Zenon DEF Program
<1>2. \A i \in DOMAIN t : Precedes(c, x, t[i])
  BY ProgramTail, Zenon
<1>3. /\ \A step : Left(s, step) <=> x.do = step \/ Left(t, step)
      /\ \A i \in DOMAIN t : \E j \in DOMAIN s : t[i] = s[j]
  BY <1>1, TailLeft, Zenon
<1>4. 1 \in DOMAIN s /\ x = s[1]
  <2>1. Len(s) \in Nat \ {0}
    BY <1>1, EmptySeq, Zenon
  <2>2. QED
    BY <1>1, <2>1
<1> HIDE DEF x, t
<1>5. /\ (\A i \in DOMAIN s : AddStep(c, s[i])) =>
           AddStep(c, x) /\ \A i \in DOMAIN t : AddStep(c, t[i])
      /\ (\A i \in DOMAIN s : DelStep(s[i])) => DelStep(x) /\ \A i \in DOMAIN t : DelStep(t[i])
      /\ (\A i \in DOMAIN s : Safe(c, s[i])) => Safe(c, x) /\ \A i \in DOMAIN t : Safe(c, t[i])
  BY <1>3, <1>4, Zenon
<1>6. /\ x.do \in {"ExecAdd", "HasIPs", "ConfigureIface", "SetupIPMasq"} => ~Left(t, "ExecAdd")
      /\ x.do = "ExecAdd" => \A i \in DOMAIN t : Safe(c, t[i])
      /\ x.do \in {"DelLinkByName", "TeardownIPMasq"} \/ c.plugin = "bridge" =>
              ~Left(t, "DelLinkByName")
      /\ x.do = "DelLinkByName" /\ Left(t, "ExecDel") => Left(x.arg, "ExecDel")
  BY <1>2, Zenon DEF Precedes, Left
<1>7. QED
  BY <1>1, <1>3, <1>5, <1>6, Zenon DEF x, t

(* A step is done and the command goes on.                                 *)
LEMMA GoesOn ==
  ASSUME Inv, NEW a \in Att, NEW s \in Seq(Steps), NEW t \in Idle \cup DOMAIN Final,
         s = <<>> <=> t \in Idle,
         rest' = [rest EXCEPT ![a] = s], rt' = [rt EXCEPT ![a] = t]
  PROVE  Goes(a, s, t)
<1>1. rest \in [Att -> Seq(Steps)] /\ rt \in [Att -> Idle \cup DOMAIN Final]
  BY Zenon DEF Inv, TypeOK
<1>2. QED
  BY <1>1, Zenon DEF Goes

(* A step succeeds.                                                         *)
LEMMA SucceedGoes ==
  ASSUME Inv, NEW a \in Att, rest[a] # <<>>, Succeed(a)
  PROVE  LET s == Tail(rest[a]) IN
         Goes(a, s, IF s = <<>> THEN Final[rt[a]] ELSE rt[a])
<1> DEFINE s == Tail(rest[a])
           t == IF s = <<>> THEN Final[rt[a]] ELSE rt[a]
<1>1. rest[a] \in Seq(Steps) /\ s \in Seq(Steps)
  BY TailLeft, Zenon DEF Inv
<1>2. rt[a] \in {"adding", "undoing", "botched", "deleting"}
  BY Running, Zenon
<1>3. t \in Idle \cup DOMAIN Final /\ (s = <<>> <=> t \in Idle)
  <2> HIDE DEF s
  <2>1. QED
    BY <1>2, Phases, Zenon DEF Idle
<1>4. rest' = [rest EXCEPT ![a] = s] /\ rt' = [rt EXCEPT ![a] = t]
  BY Zenon DEF Succeed, GoOn
<1>5. QED
  BY <1>1, <1>3, <1>4, GoesOn, Zenon

(* A step of ADD fails.                                                    *)
LEMMA AddFailGoes ==
  ASSUME Inv, NEW a \in Att, rest[a] # <<>>, rt[a] = "adding", Fail(a)
  PROVE  LET s == Head(rest[a]).undo IN
         Goes(a, s, IF s = <<>> THEN "failed" ELSE "undoing") /\ s \in Seq(Undos)
<1> DEFINE s == Head(rest[a]).undo
           t == IF s = <<>> THEN "failed" ELSE "undoing"
<1>1. Head(rest[a]) \in Steps
  BY HeadFirst, InvAt, Zenon DEF Adding
<1>2. s \in Seq(Undos)
  BY <1>1, StepTypes, Zenon DEF Steps
<1>3. s \in Seq(Steps)
  BY <1>2, StepTypes
<1>4. t \in Idle \cup DOMAIN Final /\ (s = <<>> <=> t \in Idle)
  <2> HIDE DEF s
  <2>1. QED
    BY Phases, Zenon DEF Idle
<1>5. rest' = [rest EXCEPT ![a] = s] /\ rt' = [rt EXCEPT ![a] = t]
  BY Zenon DEF Fail
<1>6. QED
  BY <1>2, <1>3, <1>4, <1>5, GoesOn, Zenon

(* A deferred function fails.                                              *)
LEMMA UndoFailGoes ==
  ASSUME Inv, NEW a \in Att, rest[a] # <<>>, rt[a] \in {"undoing", "botched"}, Fail(a)
  PROVE  LET s == Tail(rest[a]) IN Goes(a, s, IF s = <<>> THEN "dirty" ELSE "botched")
<1> DEFINE s == Tail(rest[a])
           t == IF s = <<>> THEN "dirty" ELSE "botched"
<1>1. rest[a] \in Seq(Steps) /\ s \in Seq(Steps) /\ (s = <<>> <=> Len(rest[a]) = 1)
  BY TailLeft, Zenon DEF Inv
<1>2. t \in Idle \cup DOMAIN Final /\ (s = <<>> <=> t \in Idle)
  <2> HIDE DEF s
  <2>1. QED
    BY Phases, Zenon DEF Idle
<1>3. rest' = [rest EXCEPT ![a] = s] /\ rt' = [rt EXCEPT ![a] = t]
  BY <1>1, Zenon DEF Fail
<1>4. QED
  BY <1>1, <1>2, <1>3, GoesOn, Zenon

(* A step of DEL fails; DEL defers nothing.                                *)
LEMMA DelFailGoes ==
  ASSUME Inv, NEW a \in Att, rest[a] # <<>>, rt[a] = "deleting", Fail(a)
  PROVE  Goes(a, <<>>, "dirty")
<1>1. DelStep(Head(rest[a]))
  BY HeadFirst, InvAt, Zenon DEF Deleting
<1>2. Head(rest[a]).undo = <<>>
  BY <1>1, Zenon DEF DelStep
<1>3. rest' = [rest EXCEPT ![a] = <<>>] /\ rt' = [rt EXCEPT ![a] = "dirty"]
  BY <1>2, Zenon DEF Fail
<1>4. <<>> \in Seq(Steps) /\ "dirty" \in Idle
  BY Phases, Zenon
<1>5. QED
  BY <1>3, <1>4, GoesOn, Zenon

(* Local of an attachment is about nothing but that attachment.            *)
LEMMA Frame ==
  ASSUME NEW b, Local(b), Same(b)
  PROVE  Local(b)'
<1>1. /\ Always(b)' /\ (rt[b] \in {"undoing", "botched"} => Undoing(b)')
      /\ (rt[b] = "deleting" => Deleting(b)')
  BY Zenon DEF Local, Same, Always, Undoing, Deleting
<1>2. /\ (rt[b] = "adding" => Adding(b)')
  BY Zenon DEF Local, Same, Adding, At
<1>3. /\ (rt[b] = "attached" => Attached(b)') /\ (rt[b] = "detached" => Detached(b)')
  BY Zenon DEF Local, Same, Attached, Detached
<1>4. QED
  BY <1>1, <1>2, <1>3, Zenon DEF Local, Same

-----------------------------------------------------------------------------
(* What a step has to do for its command to keep the invariant.            *)

(* Which steps a phase can be at.                                          *)
LEMMA PhaseSteps ==
  ASSUME Inv, NEW a \in Att, NEW step, At(a, step)
  PROVE  /\ rest[a] # <<>> /\ Head(rest[a]).do = step
         /\ rt[a] \in {"adding", "undoing", "botched", "deleting"}
         /\ rt[a] = "adding" => AddStep(conf[a], Head(rest[a])) /\ step \in AddSteps
         /\ rt[a] \in {"undoing", "botched"} => step \in UndoSteps
         /\ rt[a] = "deleting" => DelStep(Head(rest[a])) /\ step \in DelSteps
<1>1. rest[a] # <<>> /\ Head(rest[a]).do = step
  BY Zenon DEF At
<1>2. rt[a] \in {"adding", "undoing", "botched", "deleting"}
  BY <1>1, Running, Zenon
<1>3. rt[a] = "adding" => AddStep(conf[a], Head(rest[a])) /\ step \in AddSteps
  BY <1>1, HeadFirst, InvAt, ZenonT(60) DEF Adding, AddStep
<1>4. ASSUME rt[a] \in {"undoing", "botched"}
      PROVE  step \in UndoSteps
  <2>1. rest[a] \in Seq(Undos)
    BY <1>4, InvAt, Zenon DEF Undoing
  <2>2. Head(rest[a]) \in Undos
    BY <1>1, <2>1, TailLeft, Zenon
  <2>3. QED
    BY <1>1, <2>2 DEF Undos, UndoSteps, Release, DropTmp, Unspoof, Unlink, Do, Step
<1>5. rt[a] = "deleting" => DelStep(Head(rest[a])) /\ step \in DelSteps
  BY <1>1, HeadFirst, InvAt, Zenon DEF Deleting, DelStep
<1>6. QED
  BY <1>1, <1>2, <1>3, <1>4, <1>5, Zenon

(* A step of ADD succeeds.                                                 *)
LEMMA AddGoesOn ==
  ASSUME Inv, NEW a \in Att, rest[a] # <<>>, rt[a] = "adding", Succeed(a),
         Always(a)', Adding(a)'
  PROVE  Local(a)'
<1> DEFINE s == Tail(rest[a])
<1>1. rest'[a] = s /\ rt'[a] = IF s = <<>> THEN "attached" ELSE "adding"
  BY SucceedGoes, Phases, Zenon DEF Goes
<1>2. ASSUME rest'[a] = <<>>
      PROVE  Attached(a)'
  <2>1. \A step : ~Left(rest[a], step)'
    BY <1>2 DEF Left
  <2>2. QED
    BY <2>1, Zenon DEF Adding, Attached
<1>3. QED
  BY <1>1, <1>2, Zenon DEF Local

(* A step of ADD fails.                                                    *)
LEMMA AddStops ==
  ASSUME Inv, NEW a \in Att, rest[a] # <<>>, rt[a] = "adding", Fail(a),
         Always(a)', conf' = conf, ns'[a] = ns[a],
         Releasing(conf[a]) => held'[a] = {} \/ Left(Head(rest[a]).undo, "ExecDel")
  PROVE  Local(a)'
<1> DEFINE s == Head(rest[a]).undo
<1>1. rest'[a] = s /\ rt'[a] = (IF s = <<>> THEN "failed" ELSE "undoing") /\ s \in Seq(Undos)
  BY AddFailGoes, Zenon DEF Goes
<1>2. ns[a]
  BY InvAt, Zenon DEF Adding
<1>3. Undoing(a)'
  BY <1>1, <1>2, Zenon DEF Undoing
<1>4. s = <<>> => (Releasing(conf[a]) => held'[a] = {})
  BY DEF Left
<1>5. QED
  BY <1>1, <1>3, <1>4, Zenon DEF Local

(* A deferred function has run.                                            *)
LEMMA UndoGoesOn ==
  ASSUME Inv, NEW a \in Att, rest[a] # <<>>, rt[a] \in {"undoing", "botched"},
         Succeed(a) \/ Fail(a), Always(a)', conf' = conf, ns'[a] = ns[a],
         held'[a] \subseteq held[a],
         Succeed(a) /\ Head(rest[a]).do = "ExecDel" => held'[a] = {}
  PROVE  Local(a)'
<1> DEFINE s == Tail(rest[a])
<1>1. rest[a] \in Seq(Undos) /\ ns[a]
  BY InvAt, Zenon DEF Undoing
<1>2. s \in Seq(Undos) /\ \A step : Left(rest[a], step) <=> Head(rest[a]).do = step \/ Left(s, step)
  BY <1>1, TailLeft, Zenon
<1>3. CASE Succeed(a)
  <2>1. rest'[a] = s /\ rt'[a] = IF s = <<>> THEN Final[rt[a]] ELSE rt[a]
    BY <1>3, SucceedGoes, Zenon DEF Goes
  <2>2. rt[a] = "undoing" /\ Releasing(conf[a]) => held'[a] = {} \/ Left(s, "ExecDel")
    BY <1>2, <1>3, InvAt, Zenon DEF Undoing
  <2>3. Undoing(a)'
    BY <1>1, <1>2, <2>1, <2>2, Phases, Zenon DEF Undoing
  <2>4. CASE s = <<>>
    <3>1. ~Left(s, "ExecDel")
      BY <2>4 DEF Left
    <3> HIDE DEF s
    <3>2. rt'[a] \in {"failed", "dirty"} /\ (rt'[a] = "failed" => rt[a] = "undoing")
      BY <2>1, <2>4, Phases, Zenon
    <3>3. QED
      BY <2>2, <2>3, <3>1, <3>2, Zenon DEF Local
  <2>5. CASE s # <<>>
    BY <2>1, <2>3, <2>5, Zenon DEF Local
  <2>6. QED
    BY <2>4, <2>5, Zenon
<1>4. CASE Fail(a)
  <2>1. rest'[a] = s /\ rt'[a] = IF s = <<>> THEN "dirty" ELSE "botched"
    BY <1>4, UndoFailGoes, Zenon DEF Goes
  <2>2. Undoing(a)'
    BY <1>1, <1>2, <2>1, Zenon DEF Undoing
  <2>3. QED
    BY <2>1, <2>2, Zenon DEF Local
<1>5. QED
  BY <1>3, <1>4, Zenon

(* A step of DEL succeeds, or is the last one.                             *)
LEMMA DelGoesOn ==
  ASSUME NEW a \in Att, NEW s, Goes(a, s, IF s = <<>> THEN "detached" ELSE "deleting"),
         Always(a)', Deleting(a)'
  PROVE  Local(a)'
<1>1. rest'[a] = s /\ rt'[a] = IF s = <<>> THEN "detached" ELSE "deleting"
  BY Zenon DEF Goes
<1>2. ASSUME rest'[a] = <<>>
      PROVE  Detached(a)'
  <2>1. \A step : ~Left(rest[a], step)'
    BY <1>2, SMTT(30) DEF Left
  <2>2. QED
    BY <2>1, Zenon DEF Deleting, Detached
<1>3. QED
  BY <1>1, <1>2, Zenon DEF Local

(* A step of DEL fails.                                                    *)
LEMMA DelStops ==
  ASSUME Inv, NEW a \in Att, rest[a] # <<>>, rt[a] = "deleting", Fail(a), Always(a)'
  PROVE  Local(a)'
  BY DelFailGoes, Zenon DEF Goes, Local

(* What the steps of ADD do when they succeed.                             *)
AddEffect(a, step) ==
  /\ conf' = conf /\ ns'[a] = ns[a]
  /\ "named" \in links[a] \/ step = "Lookup" => "named" \in links'[a]
  /\ held'[a] = held[a]
  /\ live'[a] = IF step = "ExecAdd" THEN held[a] ELSE live[a]
  /\ step = "HasIPs" => live[a] # {}
  /\ addr'[a] = IF step = "ConfigureIface" THEN addr[a] \cup live[a] ELSE addr[a]
  /\ spoof[a] \/ step = "Setup" => spoof'[a]
  /\ IF step = "SetupIPMasq" THEN live[a] \subseteq masq'[a] ELSE masq'[a] = masq[a]

(* A step of ADD that succeeds and does that keeps the invariant.           *)
LEMMA AddKeeps ==
  ASSUME Inv, NEW a \in Att, NEW step, At(a, step), rt[a] = "adding", Succeed(a),
         AddEffect(a, step), Always(a)'
  PROVE  Local(a)'
<1> DEFINE c == conf[a]
           s == rest[a]
           t == Tail(rest[a])
<1>1. s # <<>> /\ Head(s).do = step /\ rest'[a] = t
  BY PhaseSteps, SucceedGoes, Zenon DEF Goes
<1>2. Adding(a)
  BY InvAt, Zenon
<1>3. /\ Program(c, t)
      /\ \A x : Left(s, x) <=> step = x \/ Left(t, x)
      /\ \A i \in DOMAIN t : AddStep(c, t[i])
      /\ (\A i \in DOMAIN s : Safe(c, s[i])) => \A i \in DOMAIN t : Safe(c, t[i])
      /\ step \in {"ExecAdd", "HasIPs", "ConfigureIface", "SetupIPMasq"} => ~Left(t, "ExecAdd")
      /\ step = "ExecAdd" => \A i \in DOMAIN t : Safe(c, t[i])
  BY <1>1, <1>2, HeadFirst, Zenon DEF Adding
<1>4. conf'[a] = c /\ ns'[a]
  BY <1>2, Zenon DEF Adding, AddEffect
<1> HIDE DEF s, t, c
<1>5. \A x : Left(rest[a], x)' <=> Left(t, x)
  BY <1>1, Zenon DEF Left
<1>6. Left(t, "Lookup") \/ "named" \in links'[a]
  BY <1>2, <1>3, Zenon DEF Adding, AddEffect, s
<1>7. \/ Left(t, "ConfigureIface") /\ addr'[a] = {}
      \/ ~Left(t, "ExecAdd") /\ addr'[a] = live'[a]
  BY <1>2, <1>3, Zenon DEF Adding, AddEffect, s
<1>8. c.layer3 => Left(t, "HasIPs") \/ (~Left(t, "ExecAdd") /\ live'[a] # {})
  BY <1>2, <1>3, Zenon DEF Adding, AddEffect, s, c
<1>9. c.macSpoofChk => Left(t, "Setup") \/ spoof'[a]
  BY <1>2, <1>3, Zenon DEF Adding, AddEffect, s, c
<1>10. c.ipMasq => Left(t, "SetupIPMasq") \/ (~Left(t, "ExecAdd") /\ live'[a] \subseteq masq'[a])
  BY <1>2, <1>3, Zenon DEF Adding, AddEffect, s, c
<1>11. IF Left(t, "ExecAdd")
       THEN live'[a] = {} /\ held'[a] = {}
       ELSE /\ live'[a] = held'[a]
            /\ held'[a] = {} \/ \A i \in DOMAIN t : Safe(c, t[i])
  BY <1>1, <1>2, <1>3, Zenon DEF Adding, AddEffect, At, s, c
<1>12. Adding(a)'
  BY <1>1, <1>3, <1>4, <1>5, <1>6, <1>7, <1>8, <1>9, <1>10, <1>11, ZenonT(60) DEF Adding
<1>13. QED
  BY <1>1, <1>12, AddGoesOn, Zenon DEF s

(* What the steps of DEL do when they succeed.                             *)
DelEffect(a, step) ==
  /\ conf' = conf
  /\ links'[a] \subseteq links[a] /\ (step = "DelLinkByName" => "named" \notin links'[a])
  /\ IF step = "ExecDel" THEN held'[a] = {} ELSE held'[a] = held[a]
  /\ masq'[a] \subseteq masq[a] /\ (step = "TeardownIPMasq" => masq'[a] \cap ipnets[a] = {})
  /\ step # "DelLinkByName" => ipnets'[a] = ipnets[a]

(* A step of DEL that succeeds and does that keeps the invariant.           *)
LEMMA DelKeeps ==
  ASSUME Inv, NEW a \in Att, NEW step, At(a, step), rt[a] = "deleting", Succeed(a),
         DelEffect(a, step), Always(a)'
  PROVE  Local(a)'
<1> DEFINE c == conf[a]
           s == rest[a]
           t == Tail(rest[a])
<1>1. /\ s # <<>> /\ Head(s).do = step /\ rest'[a] = t
      /\ Goes(a, t, IF t = <<>> THEN "detached" ELSE "deleting")
  <2>1. s # <<>> /\ Head(s).do = step
    BY PhaseSteps, Zenon
  <2>2. Goes(a, t, IF t = <<>> THEN Final["deleting"] ELSE "deleting")
    BY <2>1, SucceedGoes, Zenon
  <2> HIDE DEF t
  <2>3. QED
    BY <2>1, <2>2, Phases, Zenon DEF Goes
<1>2. Deleting(a)
  BY InvAt, Zenon
<1>3. /\ Program(c, t)
      /\ \A x : Left(s, x) <=> step = x \/ Left(t, x)
      /\ \A i \in DOMAIN t : DelStep(t[i])
      /\ step \in {"DelLinkByName", "TeardownIPMasq"} => ~Left(t, "DelLinkByName")
  BY <1>1, <1>2, HeadFirst, Zenon DEF Deleting
<1>4. conf'[a] = c
  BY Zenon DEF DelEffect
<1> HIDE DEF s, t, c
<1>5. \A x : Left(rest[a], x)' <=> Left(t, x)
  BY <1>1, Zenon DEF Left
<1>6. /\ Left(t, "DelLinkByName") \/ "named" \notin links'[a]
      /\ Left(t, "DelLinkByName") => ipnets'[a] = {}
      /\ Left(t, "ExecDel") \/ held'[a] = {}
  BY <1>2, <1>3, Zenon DEF Deleting, DelEffect, s
<1>7. \/ Left(t, "TeardownIPMasq") \/ masq'[a] = {}
      \/ ~Left(t, "DelLinkByName") /\ masq'[a] \cap ipnets'[a] = {}
  <2>1. CASE step = "DelLinkByName"
    BY <1>2, <1>3, <2>1, Zenon DEF Deleting, DelEffect, s
  <2>2. CASE step # "DelLinkByName"
    BY <1>2, <1>3, <2>2, Zenon DEF Deleting, DelEffect, s
  <2>3. QED
    BY <2>1, <2>2, Zenon
<1>8. Deleting(a)'
  BY <1>1, <1>3, <1>4, <1>5, <1>6, <1>7, Zenon DEF Deleting
<1>9. QED
  BY <1>1, <1>8, DelGoesOn, Zenon

(* A step of ADD that fails with no more reserved than before leaves it to *)
(* the deferred functions to release what it has.                          *)
LEMMA AddFailKeeps ==
  ASSUME Inv, NEW a \in Att, NEW step, At(a, step), rt[a] = "adding", Fail(a),
         Always(a)', conf' = conf, ns'[a] = ns[a],
         IF step = "ExecAdd" THEN held'[a] = {} ELSE held'[a] = held[a],
         step = "HasIPs" => live[a] = {}
  PROVE  Local(a)'
<1>1. rest[a] # <<>> /\ Head(rest[a]).do = step
  BY PhaseSteps, Zenon
<1>2. Adding(a)
  BY InvAt, Zenon
<1>3. /\ \A x : Left(rest[a], x) <=> step = x \/ Left(Tail(rest[a]), x)
      /\ (\A i \in DOMAIN rest[a] : Safe(conf[a], rest[a][i])) => Safe(conf[a], Head(rest[a]))
      /\ step = "HasIPs" => ~Left(Tail(rest[a]), "ExecAdd")
  BY <1>1, <1>2, HeadFirst, Zenon DEF Adding
<1>4. Releasing(conf[a]) => held'[a] = {} \/ Left(Head(rest[a]).undo, "ExecDel")
  <2>1. CASE step = "ExecAdd"
    BY <2>1, Zenon
  <2>2. CASE step # "ExecAdd"
    <3>1. held[a] = {} \/ (live[a] = held[a] /\ Safe(conf[a], Head(rest[a])))
      BY <1>1, <1>2, <1>3, <2>2, Zenon DEF Adding, At
    <3>2. QED
      BY <1>1, <2>2, <3>1, Zenon DEF Safe
  <2>3. QED
    BY <2>1, <2>2, Zenon
<1>5. QED
  BY <1>1, <1>4, AddStops, Zenon

-----------------------------------------------------------------------------
(* The actions.                                                            *)

(* A step changes nothing for the other attachments.                       *)
LEMMA SucceedOthers ==
  ASSUME Inv, NEW a \in Att, Succeed(a) \/ Fail(a) \/ Die(a) \/ GoOn(a, Arg(a))
  PROVE  \A b \in Att : b # a => rest'[b] = rest[b] /\ rt'[b] = rt[b]
  BY Types, Zenon DEF Succeed, Fail, Die, GoOn

(* Steps that only look.                                                   *)
LEMMA LookingKeeps ==
  ASSUME Inv, NEW a \in Att, Check(a) \/ Lookup(a) \/ HasIPs(a)
  PROVE  Local(a)'
<1>1. UNCHANGED <<conf, ns, dev, rules, ipnets, ipam>>
  BY Zenon DEF Check, Lookup, HasIPs
<1>2. PICK step \in {"Check", "Lookup", "HasIPs"} :
        /\ At(a, step)
        /\ step = "HasIPs" => IF live[a] # {} THEN Succeed(a) ELSE Fail(a)
        /\ step # "HasIPs" => Fail(a) \/ (Succeed(a) /\ (step = "Lookup" => "named" \in links[a]))
  BY Zenon DEF Check, Lookup, HasIPs
<1>3. rt[a] = "adding" /\ rest[a] # <<>>
  BY <1>2, PhaseSteps, Zenon DEF UndoSteps, DelSteps
<1>4. Succeed(a) \/ Fail(a)
  BY <1>2, Zenon
<1>5. rt'[a] # "reverting"
  BY <1>3, <1>4, SucceedGoes, AddFailGoes, Phases, Zenon DEF Goes
<1>6. Always(a)'
  BY <1>1, <1>5, InvAt, Zenon DEF Always, dev, rules, ipam
<1>7. CASE Succeed(a) /\ (step = "HasIPs" => live[a] # {})
                      /\ (step = "Lookup" => "named" \in links[a])
  <2>1. AddEffect(a, step)
    BY <1>1, <1>2, <1>7, Zenon DEF AddEffect, dev, rules, ipam
  <2>2. QED
    BY <1>2, <1>3, <1>6, <1>7, <2>1, AddKeeps, Zenon
<1>8. CASE Fail(a) /\ (step = "HasIPs" => live[a] = {})
  BY <1>1, <1>2, <1>3, <1>6, <1>8, AddFailKeeps, Zenon DEF ipam
<1>9. QED
  BY <1>2, <1>7, <1>8, Zenon

(* Steps of ADD that change links, their addresses or the rules, and no    *)
(* reservation.                                                            *)
LEMMA AlwaysKept ==
  ASSUME Inv, NEW a \in Att, rt[a] = "adding", rest[a] # <<>>, Succeed(a) \/ Fail(a),
         conf' = conf, ns' = ns, ipam' = ipam,
         ~(conf[a].layer3 /\ conf[a].ipMasq) => masq'[a] = {}
  PROVE  Always(a)'
<1>1. rt'[a] # "reverting"
  BY SucceedGoes, AddFailGoes, Phases, Zenon DEF Goes
<1>2. ns[a]
  BY InvAt, Zenon DEF Adding
<1>3. QED
  BY <1>1, <1>2, InvAt, Zenon DEF Always, ipam

(* LinkAdd and RenameLink never take the link ifName away.                  *)
LEMMA LinkKeeps ==
  ASSUME Inv, NEW a \in Att, LinkAdd(a) \/ RenameLink(a)
  PROVE  Local(a)'
<1>1. UNCHANGED <<conf, ns, addr, rules, ipnets, ipam>>
  BY Zenon DEF LinkAdd, RenameLink
<1>2. PICK step \in {"LinkAdd", "LinkAddNamed", "RenameLink", "TryRename"} : At(a, step)
  BY Zenon DEF LinkAdd, RenameLink
<1>3. rt[a] = "adding" /\ rest[a] # <<>>
  BY <1>2, PhaseSteps, Zenon DEF UndoSteps, DelSteps
<1>4. /\ Succeed(a) \/ Fail(a)
      /\ "named" \in links[a] => "named" \in links'[a]
  BY Types, Zenon DEF LinkAdd, RenameLink
<1>5. Always(a)'
  BY <1>1, <1>3, <1>4, AlwaysKept, InvAt, Zenon DEF rules, Always
<1>6. CASE Succeed(a)
  <2>1. AddEffect(a, step)
    BY <1>1, <1>2, <1>4, Zenon DEF AddEffect, rules, ipam
  <2>2. QED
    BY <1>2, <1>3, <1>5, <1>6, <2>1, AddKeeps, Zenon
<1>7. CASE Fail(a)
  BY <1>1, <1>2, <1>3, <1>5, <1>7, AddFailKeeps, Zenon DEF ipam
<1>8. QED
  BY <1>4, <1>6, <1>7, Zenon

(* ConfigureIface puts the addresses of the result on the link, or fails.   *)
LEMMA ConfigureIfaceKeeps ==
  ASSUME Inv, NEW a \in Att, ConfigureIface(a)
  PROVE  Local(a)'
<1>1. At(a, "ConfigureIface") /\ UNCHANGED <<conf, ns, links, rules, ipnets, ipam>>
  BY Zenon DEF ConfigureIface
<1>2. rt[a] = "adding" /\ rest[a] # <<>>
  BY <1>1, PhaseSteps, Zenon DEF UndoSteps, DelSteps
<1>3. \/ Succeed(a) /\ addr'[a] = addr[a] \cup live[a]
      \/ Fail(a)
  BY Types, Zenon DEF ConfigureIface
<1>4. Always(a)'
  BY <1>1, <1>2, <1>3, AlwaysKept, InvAt, Zenon DEF rules, Always
<1>5. CASE Succeed(a) /\ addr'[a] = addr[a] \cup live[a]
  <2>1. AddEffect(a, "ConfigureIface")
    BY <1>1, <1>5, Zenon DEF AddEffect, rules, ipam
  <2>2. QED
    BY <1>1, <1>2, <1>4, <1>5, <2>1, AddKeeps, Zenon
<1>6. CASE Fail(a)
  BY <1>1, <1>2, <1>4, <1>6, AddFailKeeps, Zenon DEF ipam
<1>7. QED
  BY <1>3, <1>5, <1>6, Zenon

(* The spoof-check rules are there, or Setup fails.                         *)
LEMMA SetupKeeps ==
  ASSUME Inv, NEW a \in Att, Setup(a)
  PROVE  Local(a)'
<1>1. At(a, "Setup") /\ UNCHANGED <<conf, ns, dev, masq, ipnets, ipam>>
  BY Zenon DEF Setup
<1>2. rt[a] = "adding" /\ rest[a] # <<>>
  BY <1>1, PhaseSteps, Zenon DEF UndoSteps, DelSteps
<1>3. \/ Succeed(a) /\ spoof'[a]
      \/ Fail(a)
  BY Types, Zenon DEF Setup
<1>4. Always(a)'
  BY <1>1, <1>2, <1>3, AlwaysKept, InvAt, Zenon DEF Always
<1>5. CASE Succeed(a) /\ spoof'[a]
  <2>1. AddEffect(a, "Setup")
    BY <1>1, <1>5, Zenon DEF AddEffect, dev, ipam
  <2>2. QED
    BY <1>1, <1>2, <1>4, <1>5, <2>1, AddKeeps, Zenon
<1>6. CASE Fail(a)
  BY <1>1, <1>2, <1>4, <1>6, AddFailKeeps, Zenon DEF ipam
<1>7. QED
  BY <1>3, <1>5, <1>6, Zenon

(* The addresses of the result are masqueraded, or SetupIPMasq fails.       *)
LEMMA SetupIPMasqKeeps ==
  ASSUME Inv, NEW a \in Att, SetupIPMasq(a)
  PROVE  Local(a)'
<1>1. At(a, "SetupIPMasq") /\ UNCHANGED <<conf, ns, dev, spoof, ipnets, ipam>>
  BY Zenon DEF SetupIPMasq
<1>2. rt[a] = "adding" /\ rest[a] # <<>> /\ AddStep(conf[a], Head(rest[a]))
      /\ Head(rest[a]).do = "SetupIPMasq"
  BY <1>1, PhaseSteps, Zenon DEF UndoSteps, DelSteps
<1>3. conf[a].layer3 /\ conf[a].ipMasq
  BY <1>2, Zenon DEF AddStep
<1>4. \/ Succeed(a) /\ live[a] \subseteq masq'[a]
      \/ Fail(a)
  BY Types, Zenon DEF SetupIPMasq
<1>5. Always(a)'
  BY <1>1, <1>2, <1>3, <1>4, AlwaysKept, Zenon
<1>6. CASE Succeed(a) /\ live[a] \subseteq masq'[a]
  <2>1. AddEffect(a, "SetupIPMasq")
    BY <1>1, <1>6, Zenon DEF AddEffect, dev, ipam
  <2>2. QED
    BY <1>1, <1>2, <1>5, <1>6, <2>1, AddKeeps, Zenon
<1>7. CASE Fail(a)
  BY <1>1, <1>2, <1>5, <1>7, AddFailKeeps, Zenon DEF ipam
<1>8. QED
  BY <1>4, <1>6, <1>7, Zenon

(* The IPAM plugin reserves only while ADD waits for it.                    *)
LEMMA ReserveAddressKeeps ==
  ASSUME Inv, NEW a \in Att, ReserveAddress(a)
  PROVE  Local(a)'
<1>1. /\ At(a, "ExecAdd") /\ UNCHANGED <<conf, rt, rest, ns, dev, rules, ipnets>>
      /\ live[a] = {} /\ live' = live
  BY Zenon DEF ReserveAddress, Delegate!Reserve
<1>2. rt[a] = "adding" /\ AddStep(conf[a], Head(rest[a])) /\ Head(rest[a]).do = "ExecAdd"
  BY <1>1, PhaseSteps, Zenon DEF UndoSteps, DelSteps
<1>3. conf[a].layer3 /\ rest[a] # <<>>
  BY <1>1, <1>2, Zenon DEF AddStep, At
<1>4. Adding(a)
  BY <1>2, InvAt, Zenon
<1>5. Left(rest[a], "ExecAdd")
  BY <1>2, <1>3, <1>4, HeadFirst, Zenon DEF Adding
<1>6. Always(a)'
  BY <1>1, <1>2, <1>3, InvAt, Zenon DEF Always, dev, rules
<1>7. Adding(a)'
  BY <1>1, <1>4, <1>5, Zenon DEF Adding, At, dev, rules
<1>8. QED
  BY <1>1, <1>2, <1>6, <1>7, Zenon DEF Local

(* The IPAM plugin hands out what it has reserved, or nothing stays.        *)
LEMMA ExecAddKeeps ==
  ASSUME Inv, NEW a \in Att, ExecAdd(a)
  PROVE  Local(a)'
<1>1. At(a, "ExecAdd") /\ UNCHANGED <<conf, ns, dev, rules, ipnets>>
  BY Zenon DEF ExecAdd
<1>2. /\ rt[a] = "adding" /\ rest[a] # <<>> /\ AddStep(conf[a], Head(rest[a]))
      /\ Head(rest[a]).do = "ExecAdd"
  BY <1>1, PhaseSteps, Zenon DEF UndoSteps, DelSteps
<1>3. conf[a].layer3 /\ ns[a]
  BY <1>2, InvAt, Zenon DEF AddStep, Adding
<1>4. \/ Succeed(a) /\ live'[a] = held[a] /\ held'[a] = held[a]
      \/ Fail(a) /\ live'[a] = {} /\ held'[a] = {}
  BY Types, Zenon DEF ExecAdd, Delegate!HandOut, Delegate!Withdraw
<1>5. rt'[a] # "reverting"
  BY <1>2, <1>4, SucceedGoes, AddFailGoes, Phases, Zenon DEF Goes
<1>6. Always(a)'
  BY <1>1, <1>3, <1>4, <1>5, InvAt, Zenon DEF Always, dev, rules
<1>7. CASE Succeed(a) /\ live'[a] = held[a] /\ held'[a] = held[a]
  <2>1. AddEffect(a, "ExecAdd")
    BY <1>1, <1>7, Zenon DEF AddEffect, dev, rules
  <2>2. QED
    BY <1>1, <1>2, <1>6, <1>7, <2>1, AddKeeps, Zenon
<1>8. CASE Fail(a) /\ held'[a] = {}
  BY <1>1, <1>2, <1>6, <1>8, AddFailKeeps, Zenon
<1>9. QED
  BY <1>4, <1>7, <1>8, Zenon

(* Steps of DEL and deferred functions.                                    *)
LEMMA AlwaysKeptLater ==
  ASSUME Inv, NEW a \in Att, rt[a] \in {"undoing", "botched", "deleting"}, rest[a] # <<>>,
         Succeed(a) \/ Fail(a), conf' = conf, ns' = ns,
         links'[a] \subseteq links[a], held'[a] \subseteq held[a], live'[a] \subseteq held'[a],
         masq'[a] \subseteq masq[a]
  PROVE  Always(a)'
<1>1. rt'[a] # "reverting"
  BY SucceedGoes, UndoFailGoes, DelFailGoes, Phases, Zenon DEF Goes
<1>2. QED
  BY <1>1, InvAt, Zenon DEF Always

(* A step of DEL, or a deferred function, that adds nothing keeps the invariant. *)
LEMMA LaterKeeps ==
  ASSUME Inv, NEW a \in Att, NEW step, At(a, step), rt[a] \in {"undoing", "botched", "deleting"},
         Succeed(a) \/ Fail(a), conf' = conf, ns' = ns,
         links'[a] \subseteq links[a], held'[a] \subseteq held[a], live'[a] \subseteq held'[a],
         masq'[a] \subseteq masq[a],
         rt[a] = "deleting" /\ Succeed(a) => DelEffect(a, step),
         Succeed(a) /\ step = "ExecDel" => held'[a] = {}
  PROVE  Local(a)'
<1>1. rest[a] # <<>> /\ Head(rest[a]).do = step
  BY PhaseSteps, Zenon
<1>2. Always(a)'
  BY <1>1, AlwaysKeptLater, Zenon
<1>3. CASE rt[a] \in {"undoing", "botched"}
  BY <1>1, <1>2, <1>3, UndoGoesOn, Zenon
<1>4. CASE rt[a] = "deleting"
  BY <1>1, <1>2, <1>4, DelKeeps, DelStops, Zenon
<1>5. QED
  BY <1>3, <1>4, Zenon

(* The deferred deletion of the link with the random name.                  *)
LEMMA LinkDelKeeps ==
  ASSUME Inv, NEW a \in Att, LinkDel(a)
  PROVE  Local(a)'
<1>1. At(a, "LinkDel") /\ UNCHANGED <<conf, ns, addr, rules, ipnets, ipam>>
  BY Zenon DEF LinkDel
<1>2. rt[a] \in {"undoing", "botched"}
  BY <1>1, PhaseSteps DEF AddSteps, DelSteps
<1>3. (Succeed(a) \/ Fail(a)) /\ links'[a] \subseteq links[a]
  BY Types, Zenon DEF LinkDel
<1>4. held'[a] = held[a] /\ live'[a] = live[a] /\ masq'[a] = masq[a] /\ live[a] \subseteq held[a]
  BY <1>1, InvAt, Zenon DEF Always, rules, ipam
<1>5. QED
  BY <1>1, <1>2, <1>3, <1>4, LaterKeeps, Zenon

(* Removing the spoof-check rules, deferred or in DEL.                      *)
LEMMA TeardownKeeps ==
  ASSUME Inv, NEW a \in Att, Teardown(a)
  PROVE  Local(a)'
<1>1. At(a, "Teardown") /\ UNCHANGED <<conf, ns, dev, masq, ipnets, ipam>>
  BY Zenon DEF Teardown
<1>2. rt[a] \in {"undoing", "botched", "deleting"}
  BY <1>1, PhaseSteps DEF AddSteps
<1>3. Succeed(a) \/ Fail(a)
  BY Zenon DEF Teardown
<1>4. /\ links'[a] = links[a] /\ held'[a] = held[a] /\ live'[a] = live[a] /\ masq'[a] = masq[a]
      /\ live[a] \subseteq held[a]
  BY <1>1, InvAt, Zenon DEF Always, dev, ipam
<1>5. DelEffect(a, "Teardown")
  BY <1>1, <1>4, Zenon DEF DelEffect
<1>6. QED
  BY <1>1, <1>2, <1>3, <1>4, <1>5, LaterKeeps, Zenon

(* Releasing the addresses, deferred or in DEL; a success releases all.     *)
LEMMA ExecDelKeeps ==
  ASSUME Inv, NEW a \in Att, ExecDel(a)
  PROVE  Local(a)'
<1>1. At(a, "ExecDel") /\ UNCHANGED <<conf, ns, dev, rules, ipnets>>
  BY Zenon DEF ExecDel
<1>2. rt[a] \in {"undoing", "botched", "deleting"}
  BY <1>1, PhaseSteps DEF AddSteps
<1>3. CASE Delegate!GiveUp(a) /\ UNCHANGED <<rt, rest>>
  <2>1. live'[a] = {} /\ held' = held
    BY <1>3, Types, Zenon DEF Delegate!GiveUp
  <2>2. Always(a)'
    BY <1>1, <1>3, <2>1, InvAt, Zenon DEF Always, dev, rules
  <2>3. /\ rt[a] \in {"undoing", "botched"} => Undoing(a)'
        /\ rt[a] = "deleting" => Deleting(a)'
    BY <1>1, <1>3, <2>1, InvAt, Zenon DEF Undoing, Deleting, dev, rules
  <2>4. QED
    BY <1>2, <1>3, <2>2, <2>3, Zenon DEF Local
<1>4. CASE \/ Delegate!Withdraw(a, held[a]) /\ Succeed(a)
           \/ \E S \in SUBSET held[a] : Delegate!Withdraw(a, S) /\ Fail(a)
  <2>1. /\ live'[a] = {} /\ held'[a] \subseteq held[a]
        /\ (Succeed(a) /\ held'[a] = {}) \/ Fail(a)
    BY <1>4, Types, Zenon DEF Delegate!Withdraw
  <2>2. links'[a] = links[a] /\ masq'[a] = masq[a]
    BY <1>1, Zenon DEF dev, rules
  <2>3. CASE Succeed(a) /\ held'[a] = {}
    <3>1. DelEffect(a, "ExecDel")
      BY <1>1, <2>2, <2>3, Zenon DEF DelEffect
    <3>2. QED
      BY <1>1, <1>2, <2>1, <2>2, <2>3, <3>1, LaterKeeps, Zenon
  <2>4. CASE Fail(a)
    <3>1. rest[a] # <<>>
      BY <1>1, PhaseSteps, Zenon
    <3>2. Always(a)'
      BY <1>1, <1>2, <2>1, <2>2, <2>4, <3>1, AlwaysKeptLater, Zenon
    <3>3. CASE rt[a] = "deleting"
      BY <2>4, <3>1, <3>2, <3>3, DelStops, Zenon
    <3>4. CASE rt[a] \in {"undoing", "botched"}
      <4> DEFINE s == Tail(rest[a])
      <4>1. rest[a] \in Seq(Undos) /\ ns[a]
        BY <3>4, InvAt, Zenon DEF Undoing
      <4>2. s \in Seq(Undos)
        BY <3>1, <4>1, TailLeft, Zenon
      <4>3. rest'[a] = s /\ rt'[a] = IF s = <<>> THEN "dirty" ELSE "botched"
        BY <2>4, <3>1, <3>4, UndoFailGoes, Zenon DEF Goes
      <4>4. Undoing(a)'
        BY <1>1, <4>1, <4>2, <4>3, Zenon DEF Undoing
      <4>5. QED
        BY <3>2, <4>3, <4>4, Zenon DEF Local
    <3>5. QED
      BY <1>2, <3>3, <3>4, Zenon
  <2>5. QED
    BY <2>1, <2>3, <2>4, Zenon
<1>5. QED
  BY <1>3, <1>4, Zenon DEF ExecDel

(* Removing the masquerading rules; a success removes those of ipnets.      *)
LEMMA TeardownIPMasqKeeps ==
  ASSUME Inv, NEW a \in Att, TeardownIPMasq(a)
  PROVE  Local(a)'
<1>1. At(a, "TeardownIPMasq") /\ UNCHANGED <<conf, ns, dev, spoof, ipnets, ipam>>
  BY Zenon DEF TeardownIPMasq
<1>2. rt[a] = "deleting" /\ rest[a] # <<>>
  BY <1>1, PhaseSteps DEF AddSteps, UndoSteps
<1>3. /\ links'[a] = links[a] /\ held'[a] = held[a] /\ live'[a] = live[a]
      /\ live[a] \subseteq held[a]
  BY <1>1, InvAt, Zenon DEF Always, dev, ipam
<1>4. masq[a] \cap ipnets[a] \subseteq Unwanted(a)
  BY Zenon DEF Unwanted
<1>5. /\ masq'[a] \subseteq masq[a]
      /\ (Succeed(a) /\ masq'[a] \cap ipnets[a] = {}) \/ Fail(a)
  BY <1>4, Types DEF TeardownIPMasq
<1>6. CASE Succeed(a) /\ masq'[a] \cap ipnets[a] = {}
  <2>1. DelEffect(a, "TeardownIPMasq")
    BY <1>1, <1>3, <1>5, <1>6, Zenon DEF DelEffect
  <2>2. QED
    BY <1>1, <1>2, <1>3, <1>5, <1>6, <2>1, LaterKeeps, ZenonT(60)
<1>7. CASE Fail(a)
  <2>1. Always(a)'
    BY <1>1, <1>2, <1>3, <1>5, <1>7, AlwaysKeptLater, ZenonT(60)
  <2>2. QED
    BY <1>2, <1>7, <2>1, DelStops, Zenon
<1>8. QED
  BY <1>5, <1>6, <1>7, Zenon

(* DEL in a namespace that is gone: the link went with it, and the         *)
(* addresses are released if they were to be.                              *)
LEMMA NetnsGoneJump ==
  ASSUME Inv, NEW a \in Att, At(a, "DelLinkByName"), ~ns[a], GoOn(a, Arg(a)),
         UNCHANGED <<conf, ns, dev, rules, ipnets, ipam>>
  PROVE  Local(a)' /\ Goes(a, Arg(a), IF Arg(a) = <<>> THEN "detached" ELSE "deleting")
<1> DEFINE s == rest[a]
           arg == Arg(a)
<1>1. rt[a] = "deleting" /\ s # <<>> /\ Head(s).do = "DelLinkByName" /\ DelStep(Head(s))
  BY PhaseSteps, InvAt DEF AddSteps, Undoing
<1>2. Deleting(a) /\ Always(a)
  BY <1>1, InvAt, Zenon
<1>3. /\ Head(s) \in Steps
      /\ \A x : Left(s, x) <=> x = "DelLinkByName" \/ Left(Tail(s), x)
      /\ Left(Tail(s), "ExecDel") => Left(arg, "ExecDel")
  BY <1>1, <1>2, HeadFirst, Zenon DEF Deleting, Arg
<1>4. arg \in {<<>>, <<Release>>}
  BY <1>3, Zenon DEF Steps, Arg
<1>5. /\ Program(conf[a], arg) /\ (\A i \in DOMAIN arg : DelStep(arg[i]))
      /\ ~Left(arg, "DelLinkByName")
  <2>1. Release.do = "ExecDel"
    BY Zenon DEF Release, Do, Step
  <2>2. QED
    BY <1>4, <2>1, DelOneStep, Zenon DEF DelProgram
<1>6. arg \in Seq(Steps)
  BY <1>5, Zenon DEF Program
<1> HIDE DEF arg
<1> DEFINE t == IF arg = <<>> THEN "detached" ELSE "deleting"
<1>7. rest' = [rest EXCEPT ![a] = arg] /\ rt' = [rt EXCEPT ![a] = t]
  BY <1>1, Phases, Zenon DEF GoOn, arg
<1>8. t \in Idle \cup DOMAIN Final /\ (arg = <<>> <=> t \in Idle)
  BY Phases, Zenon DEF Idle
<1>9. Goes(a, arg, t)
  BY <1>6, <1>7, <1>8, GoesOn, Zenon
<1>10. /\ conf'[a] = conf[a] /\ links'[a] = {} /\ ipnets'[a] = {} /\ masq'[a] = masq[a]
       /\ held'[a] = held[a] /\ live'[a] = live[a] /\ ns'[a] = ns[a]
  BY <1>2, <1>3, Zenon DEF Deleting, Always, dev, rules, ipam
<1>11. rest'[a] = arg /\ rt'[a] = t
  BY <1>9, Zenon DEF Goes
<1>12. Left(arg, "ExecDel") \/ held[a] = {}
  BY <1>2, <1>3, Zenon DEF Deleting
<1>13. Deleting(a)'
  <2>1. \A x : Left(rest[a], x)' <=> Left(arg, x)
    BY <1>11, Zenon DEF Left
  <2>2. QED
    BY <1>5, <1>10, <1>11, <1>12, <2>1, Zenon DEF Deleting
<1>14. Always(a)'
  BY <1>2, <1>8, <1>10, <1>11, Zenon DEF Always
<1>15. Local(a)'
  BY <1>9, <1>13, <1>14, DelGoesOn, Zenon
<1>16. QED
  BY <1>9, <1>15, Zenon DEF arg

(* Deleting the link, deferred or in DEL, with or without a namespace.      *)
LEMMA DelLinkByNameKeeps ==
  ASSUME Inv, NEW a \in Att, DelLinkByName(a)
  PROVE  Local(a)'
<1>1. At(a, "DelLinkByName") /\ UNCHANGED <<conf, ns, rules, ipam>>
  BY Zenon DEF DelLinkByName
<1>2. rt[a] \in {"undoing", "botched", "deleting"} /\ rest[a] # <<>>
  BY <1>1, PhaseSteps DEF AddSteps
<1>3. held'[a] = held[a] /\ live'[a] = live[a] /\ masq'[a] = masq[a] /\ live[a] \subseteq held[a]
  BY <1>1, InvAt, Zenon DEF Always, rules, ipam
<1>4. CASE /\ Succeed(a) /\ links' = [links EXCEPT ![a] = @ \ {"named"}]
  <2>1. links'[a] \subseteq links[a] /\ "named" \notin links'[a]
    BY <1>4, Types, Zenon
  <2>2. DelEffect(a, "DelLinkByName")
    BY <1>1, <1>3, <2>1, Zenon DEF DelEffect
  <2>3. QED
    BY <1>1, <1>2, <1>3, <1>4, <2>1, <2>2, LaterKeeps, Zenon
<1>5. CASE Fail(a) /\ UNCHANGED <<dev, ipnets>>
  <2>1. links'[a] = links[a]
    BY <1>5, Zenon DEF dev
  <2>2. Always(a)'
    BY <1>1, <1>2, <1>3, <1>5, <2>1, AlwaysKeptLater, Zenon
  <2>3. CASE rt[a] = "deleting"
    BY <1>2, <1>5, <2>2, <2>3, DelStops, ZenonT(60)
  <2>4. CASE rt[a] \in {"undoing", "botched"}
    BY <1>1, <1>2, <1>3, <1>5, <2>2, <2>4, PhaseSteps, UndoGoesOn, SMTT(30)
  <2>5. QED
    BY <1>2, <2>3, <2>4, Zenon
<1>6. CASE ~ns[a] /\ GoOn(a, Arg(a)) /\ UNCHANGED <<dev, ipnets>>
  BY <1>1, <1>6, NetnsGoneJump, Zenon
<1>7. QED
  BY <1>4, <1>5, <1>6, Zenon DEF DelLinkByName

(* What the runtime starts.                                                *)
LEMMA Start ==
  ASSUME Inv, NEW a \in Att
  PROVE  /\ StartAdd(a) => Goes(a, CmdAdd(conf[a]), "adding")
         /\ StartDel(a) => Goes(a, CmdDel(conf[a]), "deleting")
         /\ AddComplete(conf[a], CmdAdd(conf[a])) /\ DelComplete(conf[a], CmdDel(conf[a]))
<1>1. NetConf(conf[a])
  BY ConfsAssumption, Zenon DEF Inv
<1>2. AddComplete(conf[a], CmdAdd(conf[a])) /\ DelComplete(conf[a], CmdDel(conf[a]))
  BY <1>1, AddPrograms, DelPrograms, Zenon
<1>3. /\ CmdAdd(conf[a]) \in Seq(Steps) /\ CmdAdd(conf[a]) # <<>>
      /\ CmdDel(conf[a]) \in Seq(Steps) /\ CmdDel(conf[a]) # <<>>
  <2>1. CmdAdd(conf[a]) \in Seq(Steps) /\ CmdDel(conf[a]) \in Seq(Steps)
    BY <1>2, Zenon DEF AddComplete, DelComplete, AddProgram, DelProgram, Program
  <2>2. Left(CmdAdd(conf[a]), "Lookup") /\ Left(CmdDel(conf[a]), "DelLinkByName")
    BY <1>2, Zenon DEF AddComplete, DelComplete
  <2>3. ~Left(<<>>, "Lookup") /\ ~Left(<<>>, "DelLinkByName")
    BY DEF Left
  <2>4. QED
    BY <2>1, <2>2, <2>3, Zenon
<1>4. /\ "adding" \in Idle \cup DOMAIN Final /\ "adding" \notin Idle
      /\ "deleting" \in Idle \cup DOMAIN Final /\ "deleting" \notin Idle
  BY Phases, Zenon DEF Idle
<1>5. QED
  BY <1>2, <1>3, <1>4, GoesOn, Zenon DEF StartAdd, StartDel

(* ADD starts with nothing there.                                           *)
LEMMA StartAddKeeps ==
  ASSUME Inv, NEW a \in Att, StartAdd(a)
  PROVE  Local(a)'
<1> DEFINE s == CmdAdd(conf[a])
<1>1. rt[a] = "detached" /\ UNCHANGED <<conf, dev, rules, ipam>> /\ ns'[a]
  BY Types, Zenon DEF StartAdd
<1>2. rest'[a] = s /\ rt'[a] = "adding" /\ AddComplete(conf[a], s)
  BY Start, Zenon DEF Goes
<1>3. "named" \notin links[a] /\ held[a] = {} /\ live[a] = {} /\ addr[a] = {}
  BY <1>1, InvAt, Zenon DEF Detached, Always
<1>4. Always(a)'
  BY <1>1, <1>2, <1>3, InvAt, Zenon DEF Always, dev, rules, ipam
<1> HIDE DEF s
<1>5. \A x : Left(rest[a], x)' <=> Left(s, x)
  BY <1>2, Zenon DEF Left
<1>6. conf'[a] = conf[a] /\ held'[a] = {} /\ live'[a] = {} /\ addr'[a] = {}
  BY <1>1, <1>3, Zenon DEF dev, ipam
<1>7. /\ Program(conf[a], s) /\ (\A i \in DOMAIN s : AddStep(conf[a], s[i]))
      /\ Left(s, "Lookup") /\ (conf[a].layer3 => Left(s, "HasIPs") /\ Left(s, "ConfigureIface"))
      /\ (conf[a].macSpoofChk => Left(s, "Setup"))
      /\ (conf[a].layer3 /\ conf[a].ipMasq => Left(s, "SetupIPMasq"))
  BY <1>2, Zenon DEF AddComplete, AddProgram
<1>8. Left(s, "ExecAdd") => conf[a].layer3
  BY <1>7, Zenon DEF Left, AddStep
<1>9. Adding(a)'
  BY <1>1, <1>2, <1>5, <1>6, <1>7, <1>8, ZenonT(60) DEF Adding
<1>10. QED
  BY <1>2, <1>4, <1>9, Zenon DEF Local

(* DEL starts with all its steps left.                                      *)
LEMMA StartDelKeeps ==
  ASSUME Inv, NEW a \in Att, StartDel(a)
  PROVE  Local(a)'
<1> DEFINE s == CmdDel(conf[a])
<1>1. UNCHANGED <<conf, ns, dev, rules, ipam>> /\ ipnets'[a] = {}
  BY Types, Zenon DEF StartDel
<1>2. rest'[a] = s /\ rt'[a] = "deleting" /\ DelComplete(conf[a], s)
  BY Start, Zenon DEF Goes
<1>3. Always(a)'
  BY <1>1, <1>2, InvAt, Zenon DEF Always, dev, rules, ipam
<1>4. /\ ~conf[a].layer3 => held[a] = {}
      /\ ~(conf[a].layer3 /\ conf[a].ipMasq) => masq[a] = {}
  BY InvAt, Zenon DEF Always
<1> HIDE DEF s
<1>5. \A x : Left(rest[a], x)' <=> Left(s, x)
  BY <1>2, Zenon DEF Left
<1>6. Deleting(a)'
  BY <1>1, <1>2, <1>4, <1>5, Zenon DEF Deleting, DelComplete, DelProgram, rules, ipam
<1>7. QED
  BY <1>2, <1>3, <1>6, Zenon DEF Local

(* What a killed plugin leaves is known to nobody.                          *)
LEMMA CrashKeeps ==
  ASSUME Inv, NEW a \in Att, Crash(a)
  PROVE  Local(a)' /\ Goes(a, <<>>, "dirty")
<1>1. <<>> \in Seq(Steps) /\ "dirty" \in Idle
  BY Phases, Zenon
<1>2. Goes(a, <<>>, "dirty")
  BY <1>1, GoesOn, Zenon DEF Crash, Die
<1>3. QED
  BY <1>2, InvAt, Zenon DEF Goes, Local, Always, Crash, dev, rules, ipam

(* The links go with the namespace.                                         *)
LEMMA NetnsGoneKeeps ==
  ASSUME Inv, NEW a \in Att, NetnsGone(a)
  PROVE  Local(a)'
<1>1. /\ UNCHANGED <<conf, rt, rest, rules, ipnets, ipam>> /\ ~ns'[a] /\ links'[a] = {}
      /\ rt[a] \in Idle \cup {"deleting"}
  BY Types, Zenon DEF NetnsGone
<1>2. Always(a)'
  BY <1>1, InvAt, Zenon DEF Always, rules, ipam
<1>3. rt[a] = "deleting" => Deleting(a)'
  BY <1>1, InvAt, Zenon DEF Deleting, rules, ipam
<1>4. (rt[a] = "attached" => Attached(a)') /\ (rt[a] = "detached" => Detached(a)')
  BY <1>1, InvAt, Zenon DEF Attached, Detached, rules, ipam
<1>5. QED
  BY <1>1, <1>2, <1>3, <1>4, InvAt, Zenon DEF Local, Idle, ipam

(* What may happen for attachment a.                                       *)
Act(a) ==
  \/ StartAdd(a) \/ StartDel(a) \/ Crash(a) \/ NetnsGone(a)
  \/ Check(a) \/ Lookup(a) \/ HasIPs(a)
  \/ LinkAdd(a) \/ RenameLink(a) \/ LinkDel(a) \/ ConfigureIface(a) \/ DelLinkByName(a)
  \/ ReserveAddress(a) \/ ExecAdd(a) \/ ExecDel(a)
  \/ Setup(a) \/ Teardown(a) \/ SetupIPMasq(a) \/ TeardownIPMasq(a)

(* The invariant of the attachment a step is for.                           *)
LEMMA ActKeeps ==
  ASSUME Inv, NEW a \in Att, Act(a)
  PROVE  Local(a)'
  BY StartAddKeeps, StartDelKeeps, CrashKeeps, NetnsGoneKeeps, LookingKeeps, LinkKeeps,
     LinkDelKeeps, ConfigureIfaceKeeps, DelLinkByNameKeeps, ReserveAddressKeeps, ExecAddKeeps,
     ExecDelKeeps, SetupKeeps, TeardownKeeps, SetupIPMasqKeeps, TeardownIPMasqKeeps, ZenonT(60)
  DEF Act

(* The command of a goes on somehow, the others do not.                    *)
Control(a) ==
  /\ rest' \in [Att -> Seq(Steps)] /\ rt' \in [Att -> Idle \cup DOMAIN Final]
  /\ rest'[a] = <<>> <=> rt'[a] \in Idle
  /\ \A b \in Att : b # a => rest'[b] = rest[b] /\ rt'[b] = rt[b]

(* Every step goes on with a sequence of steps, or ends in an idle phase.   *)
LEMMA ActControl ==
  ASSUME Inv, NEW a \in Att, Act(a)
  PROVE  Control(a)
<1>1. ASSUME NEW s, NEW t, Goes(a, s, t)
      PROVE  Control(a)
  BY <1>1, Zenon DEF Goes, Control
<1>2. CASE StartAdd(a) \/ StartDel(a) \/ Crash(a)
  BY <1>1, <1>2, Start, CrashKeeps, Zenon
<1>3. CASE rt' = rt /\ rest' = rest
  BY <1>3, Types, Zenon DEF Control, Inv, TypeOK
<1>4. CASE rest[a] # <<>> /\ (Succeed(a) \/ Fail(a))
  BY <1>1, <1>4, Running, SucceedGoes, AddFailGoes, UndoFailGoes, DelFailGoes, ZenonT(60)
<1>5. CASE DelLinkByName(a) /\ ~ns[a]
  <2>1. At(a, "DelLinkByName") /\ UNCHANGED <<conf, ns, dev, rules, ipnets, ipam>>
        /\ GoOn(a, Arg(a))
    BY <1>5, Zenon DEF DelLinkByName
  <2>2. QED
    BY <1>1, <1>5, <2>1, NetnsGoneJump, Zenon
<1>6. CASE NetnsGone(a) \/ ReserveAddress(a)
  BY <1>3, <1>6, Zenon DEF NetnsGone, ReserveAddress
<1>7. CASE Check(a) \/ Lookup(a) \/ HasIPs(a) \/ LinkAdd(a) \/ RenameLink(a) \/ LinkDel(a)
           \/ ConfigureIface(a)
  BY <1>4, <1>7, Zenon DEF Check, Lookup, HasIPs, LinkAdd, RenameLink, LinkDel, ConfigureIface, At
<1>8. CASE ExecAdd(a) \/ ExecDel(a)
  BY <1>3, <1>4, <1>8, Zenon DEF ExecAdd, ExecDel, At
<1>9. CASE Setup(a) \/ Teardown(a) \/ SetupIPMasq(a) \/ TeardownIPMasq(a)
  BY <1>4, <1>9, Zenon DEF Setup, Teardown, SetupIPMasq, TeardownIPMasq, At
<1>10. CASE DelLinkByName(a) /\ ns[a]
  BY <1>4, <1>10, Zenon DEF DelLinkByName, At
<1>11. QED
  BY <1>2, <1>5, <1>6, <1>7, <1>8, <1>9, <1>10, Types, ZenonT(60) DEF Act

(* The types of the rest, and that only a's part changes.                  *)
LEMMA ActLinks ==
  ASSUME Inv, NEW a \in Att, Act(a)
  PROVE  /\ conf' = conf /\ ns' \in [Att -> BOOLEAN]
         /\ links' \in [Att -> SUBSET {"tmp", "named"}]
         /\ addr' \in [Att -> SUBSET IPs] /\ ipnets' \in [Att -> SUBSET IPs]
         /\ addr'[a] # {} => "named" \in links'[a]
         /\ \A b \in Att : b # a =>
              /\ ns'[b] = ns[b] /\ links'[b] = links[b] /\ addr'[b] = addr[b]
              /\ ipnets'[b] = ipnets[b]
<1>1. addr[a] # {} => "named" \in links[a]
  BY Zenon DEF Inv, TypeOK
<1>2. CASE UNCHANGED <<conf, ns, dev, ipnets>>
  BY <1>1, <1>2, Types, Zenon DEF dev
<1>3. CASE StartAdd(a) \/ StartDel(a)
  BY <1>1, <1>3, Types, Zenon DEF StartAdd, StartDel, dev
<1>4. CASE NetnsGone(a)
  BY <1>4, Types, Zenon DEF NetnsGone
<1>5. CASE LinkAdd(a) \/ RenameLink(a) \/ LinkDel(a)
  <2>1. PICK l \in SUBSET {"tmp", "named"} :
          links' = [links EXCEPT ![a] = l] /\ ("named" \in links[a] => "named" \in l)
    <3>1. links = [links EXCEPT ![a] = links[a]] /\ links[a] \in SUBSET {"tmp", "named"}
      BY Types, Zenon
    <3>2. CASE LinkAdd(a)
      BY <3>1, <3>2, Zenon DEF LinkAdd
    <3>3. CASE RenameLink(a)
      BY <3>1, <3>3, Zenon DEF RenameLink
    <3>4. CASE LinkDel(a)
      BY <3>1, <3>4, Zenon DEF LinkDel
    <3>5. QED
      BY <1>5, <3>2, <3>3, <3>4, Zenon
  <2>2. UNCHANGED <<conf, ns, addr, ipnets>>
    BY <1>5, Zenon DEF LinkAdd, RenameLink, LinkDel
  <2>3. QED
    BY <1>1, <2>1, <2>2, Types, Zenon
<1>6. CASE ConfigureIface(a)
  BY <1>1, <1>6, Types, ZenonT(60) DEF ConfigureIface
<1>7. CASE DelLinkByName(a)
  BY <1>1, <1>7, Types, ZenonT(60) DEF DelLinkByName, dev
<1>8. QED
  BY <1>2, <1>3, <1>4, <1>5, <1>6, <1>7, ZenonT(60)
  DEF Act, Crash, Check, Lookup, HasIPs, ReserveAddress, ExecAdd, ExecDel, Setup, Teardown,
      SetupIPMasq, TeardownIPMasq

(* The same of the rules.                                                   *)
LEMMA ActRules ==
  ASSUME Inv, NEW a \in Att, Act(a)
  PROVE  /\ spoof' \in [Att -> BOOLEAN] /\ masq' \in [Att -> SUBSET IPs]
         /\ \A b \in Att : b # a => spoof'[b] = spoof[b] /\ masq'[b] = masq[b]
<1>1. CASE UNCHANGED rules
  BY <1>1, Types, Zenon DEF rules
<1>2. CASE Setup(a) \/ Teardown(a)
  <2>1. masq' = masq /\ \E v \in BOOLEAN : spoof' = [spoof EXCEPT ![a] = v]
    BY <1>2, Types, Zenon DEF Setup, Teardown
  <2>2. QED
    BY <2>1, Types, Zenon
<1>3. CASE SetupIPMasq(a) \/ TeardownIPMasq(a)
  <2>1. spoof' = spoof /\ \E m \in SUBSET IPs : masq' = [masq EXCEPT ![a] = m]
    <3>1. /\ masq = [masq EXCEPT ![a] = masq[a]] /\ masq[a] \in SUBSET IPs
          /\ live[a] \in SUBSET IPs
      BY Types, Zenon
    <3>2. CASE SetupIPMasq(a)
      BY <3>1, <3>2, Zenon DEF SetupIPMasq
    <3>3. CASE TeardownIPMasq(a)
      BY <3>1, <3>3, Zenon DEF TeardownIPMasq
    <3>4. QED
      BY <1>3, <3>2, <3>3, Zenon
  <2>2. QED
    BY <2>1, Types
<1>4. QED
  BY <1>1, <1>2, <1>3, Zenon
  DEF Act, StartAdd, StartDel, Crash, NetnsGone, Check, Lookup, HasIPs, LinkAdd, RenameLink,
      LinkDel, ConfigureIface, DelLinkByName, ReserveAddress, ExecAdd, ExecDel

(* The part of the IPAM plugin: what is reserved anew was free.            *)
LEMMA ActAddresses ==
  ASSUME Inv, NEW a \in Att, Act(a)
  PROVE  /\ held' \in [Att -> SUBSET IPs] /\ live' \in [Att -> SUBSET IPs]
         /\ \A b \in Att : b # a =>
              held'[b] = held[b] /\ live'[b] = live[b] /\ held'[a] \cap held[b] = {}
<1>1. \A b \in Att : b # a => held[a] \cap held[b] = {}
  BY Zenon DEF Inv, HeldDisjoint
<1>2. CASE UNCHANGED ipam
  BY <1>1, <1>2, Types, Zenon DEF ipam
<1>3. CASE ReserveAddress(a)
  BY <1>1, <1>3, Types, SMTT(30) DEF ReserveAddress, Delegate!Reserve
<1>4. CASE ExecAdd(a)
  <2>1. \/ Delegate!HandOut(a, held[a])
        \/ Delegate!Withdraw(a, held[a])
    BY <1>4, Zenon DEF ExecAdd
  <2>2. CASE Delegate!HandOut(a, held[a])
    BY <1>1, <2>2, Types, Zenon DEF Delegate!HandOut
  <2>3. CASE Delegate!Withdraw(a, held[a])
    BY <1>1, <2>3, Types, Zenon DEF Delegate!Withdraw
  <2>4. QED
    BY <2>1, <2>2, <2>3, Zenon
<1>5. CASE ExecDel(a)
  <2>1. \/ Delegate!GiveUp(a)
        \/ \E S \in SUBSET held[a] : Delegate!Withdraw(a, S)
    BY <1>5, Zenon DEF ExecDel
  <2>2. CASE Delegate!GiveUp(a)
    BY <1>1, <2>2, Types, Zenon DEF Delegate!GiveUp
  <2>3. ASSUME NEW S \in SUBSET held[a], Delegate!Withdraw(a, S)
        PROVE  /\ held' \in [Att -> SUBSET IPs] /\ live' \in [Att -> SUBSET IPs]
               /\ \A b \in Att : b # a =>
                    held'[b] = held[b] /\ live'[b] = live[b] /\ held'[a] \cap held[b] = {}
    BY <1>1, <2>3, Types, Zenon DEF Delegate!Withdraw
  <2>4. QED
    BY <2>1, <2>2, <2>3, Zenon
<1>6. QED
  BY <1>2, <1>3, <1>4, <1>5, ZenonT(60)
  DEF Act, StartAdd, StartDel, Crash, NetnsGone, Check, Lookup, HasIPs, LinkAdd, RenameLink,
      LinkDel, ConfigureIface, DelLinkByName, Setup, Teardown, SetupIPMasq, TeardownIPMasq

-----------------------------------------------------------------------------
(* The invariant holds at the start: nothing runs and nothing is there.    *)
LEMMA InitInv ==
  Init => Inv
<1> SUFFICES ASSUME Init PROVE Inv
  BY Zenon
<1>1. /\ held = [a \in Att |-> {}] /\ live = [a \in Att |-> {}] /\ conf \in Confs
      /\ rest = [a \in Att |-> <<>>] /\ rt = [a \in Att |-> "detached"]
  BY Zenon DEF Init, Delegate!Init
<1>2. /\ "detached" \in Idle /\ <<>> \in Seq(Steps)
  BY DEF Idle
<1>3. TypeOK
  BY <1>1, <1>2, Zenon DEF Init, TypeOK
<1>4. HeldDisjoint
  BY <1>1, Zenon DEF HeldDisjoint
<1>5. ASSUME NEW a \in Att
      PROVE  Local(a)
  BY <1>1, Zenon DEF Init, Local, Always, Detached
<1>6. QED
  BY <1>1, <1>2, <1>3, <1>4, <1>5, Zenon DEF Inv

(* Every step keeps it.                                                    *)
LEMMA NextInv ==
  Inv /\ [Next]_vars => Inv'
<1> SUFFICES ASSUME Inv, [Next]_vars PROVE Inv'
  BY Zenon
<1>1. CASE UNCHANGED vars
  <2>1. \A b : Same(b)
    BY <1>1, Zenon DEF vars, Same, dev, rules, ipam
  <2>2. \A b \in Att : Local(b)'
    BY <2>1, Frame, Zenon DEF Inv
  <2>3. TypeOK' /\ HeldDisjoint' /\ conf' \in Confs /\ rest' \in [Att -> Seq(Steps)]
    BY <1>1, Zenon DEF Inv, TypeOK, HeldDisjoint, vars, dev, rules, ipam
  <2>4. QED
    BY <2>2, <2>3, Zenon DEF Inv
<1>2. ASSUME NEW a \in Att, Act(a)
      PROVE  Inv'
  <2>1. Control(a)
    BY <1>2, ActControl, Zenon
  <2>2. /\ conf' = conf /\ ns' \in [Att -> BOOLEAN]
        /\ links' \in [Att -> SUBSET {"tmp", "named"}]
        /\ addr' \in [Att -> SUBSET IPs] /\ ipnets' \in [Att -> SUBSET IPs]
        /\ addr'[a] # {} => "named" \in links'[a]
        /\ \A b \in Att : b # a =>
             /\ ns'[b] = ns[b] /\ links'[b] = links[b] /\ addr'[b] = addr[b]
             /\ ipnets'[b] = ipnets[b]
    BY <1>2, ActLinks, Zenon
  <2>3. /\ spoof' \in [Att -> BOOLEAN] /\ masq' \in [Att -> SUBSET IPs]
        /\ \A b \in Att : b # a => spoof'[b] = spoof[b] /\ masq'[b] = masq[b]
    BY <1>2, ActRules, Zenon
  <2>4. /\ held' \in [Att -> SUBSET IPs] /\ live' \in [Att -> SUBSET IPs]
        /\ \A b \in Att : b # a =>
             held'[b] = held[b] /\ live'[b] = live[b] /\ held'[a] \cap held[b] = {}
    BY <1>2, ActAddresses, Zenon
  <2>5. \A b \in Att : b # a => Same(b)
    BY <2>1, <2>2, <2>3, <2>4, Zenon DEF Same, Control
  <2>6. \A b \in Att : Local(b)'
    BY <1>2, <2>5, ActKeeps, Frame, Zenon DEF Inv
  <2>7. /\ \A b \in Att : rest'[b] = <<>> <=> rt'[b] \in Idle
        /\ \A b \in Att : addr'[b] # {} => "named" \in links'[b]
    BY <2>1, <2>2, Zenon DEF Control, Inv, TypeOK
  <2>8. TypeOK' /\ rest' \in [Att -> Seq(Steps)] /\ conf' \in Confs
    BY <2>1, <2>2, <2>3, <2>4, <2>7, ZenonT(60) DEF TypeOK, Control, Inv
  <2>9. HeldDisjoint'
    BY <2>4, Zenon DEF HeldDisjoint, Inv
  <2>10. QED
    BY <2>6, <2>8, <2>9, Zenon DEF Inv
<1>3. QED
  BY <1>1, <1>2, Zenon DEF Next, Act

(* The invariant, of all reachable states.                                 *)
THEOREM Invariance ==
  Spec => []Inv
  BY InitInv, NextInv, PTL DEF Spec

(* The types: a command runs exactly when it has steps left, and addresses *)
(* are on links only.                                                      *)
THEOREM TypeCorrect ==
  Spec => []TypeOK
<1>1. Inv => TypeOK
  BY Zenon DEF Inv
<1>2. QED
  BY <1>1, Invariance, PTL

(* What the ADD of any of the plugins reports is there, in any             *)
(* configuration and whatever failed or crashed before.                    *)
THEOREM AddIsComplete ==
  Spec => []AttachedIsComplete
<1>1. Inv => AttachedIsComplete
  BY InvAt, Zenon DEF Always, Attached, AttachedIsComplete
<1>2. QED
  BY <1>1, Invariance, PTL

(* When all is quiet no address is on the links of two containers.         *)
THEOREM AddressesApart ==
  Spec => []NoAddressTwice
<1>1. ASSUME Inv
      PROVE  NoAddressTwice
  <2>1. ASSUME NEW a \in Att, rt[a] \in {"attached", "detached"}
        PROVE  addr[a] \subseteq held[a]
    <3>1. /\ addr[a] # {} => "named" \in links[a]
          /\ ~ns[a] => links[a] = {} /\ live[a] \subseteq held[a]
          /\ rt[a] = "attached" => Attached(a)
          /\ rt[a] = "detached" => Detached(a)
          /\ live[a] \subseteq held[a] /\ ns[a] \in BOOLEAN
      BY <1>1, InvAt, Types, ZenonT(60) DEF Always
    <3>2. QED
      BY <2>1, <3>1, Zenon DEF Attached, Detached
  <2>2. QED
    BY <1>1, <2>1, Zenon DEF NoAddressTwice, Inv, HeldDisjoint
<1>2. QED
  BY <1>1, Invariance, PTL

(* A DEL that reports success leaves neither the link nor a reservation.   *)
THEOREM DelIsComplete ==
  Spec => []DelCleansUp
<1>1. Inv => DelCleansUp
  BY InvAt, Zenon DEF Detached, DelCleansUp
<1>2. QED
  BY <1>1, Invariance, PTL

(* A failed ADD whose deferred functions worked holds no address, for      *)
(* every plugin but ipvlan and ptp.                                        *)
THEOREM NoAddressLeaks ==
  Spec => []FailedAddReleases
<1>1. Inv => FailedAddReleases
  BY InvAt, Zenon DEF Releasing, FailedAddReleases
<1>2. QED
  BY <1>1, Invariance, PTL

(* A DEL that reports success removes the masquerading of the addresses it *)
(* found on the link, with iptables and with nftables.                     *)
THEOREM MasqueradingGoes ==
  Spec => []DelUnmasquerades
<1>1. Inv => DelUnmasquerades
  BY InvAt, Zenon DEF Detached, DelUnmasquerades
<1>2. QED
  BY <1>1, Invariance, PTL

(* DEL of bridge frees no address that is still on the link.               *)
THEOREM BridgeOrder ==
  Spec => BridgeReleasesLast
<1> DEFINE Ordered ==
      \A a \in Att : conf[a].plugin = "bridge" /\ rt[a] = "deleting" =>
        (held[a] \ held'[a]) \cap addr[a] = {}
<1>1. ASSUME Inv, [Next]_vars
      PROVE  [Ordered]_vars
  <2>1. ASSUME NEW b \in Att, Act(b), NEW a \in Att,
               conf[a].plugin = "bridge", rt[a] = "deleting"
        PROVE  (held[a] \ held'[a]) \cap addr[a] = {}
    <3>1. CASE held'[a] = held[a]
      BY <3>1, Zenon
    <3>2. CASE a # b
      BY <1>1, <2>1, <3>1, <3>2, ActAddresses, Zenon
    <3>3. CASE ReserveAddress(a)
      BY <3>3, <1>1, Types, Zenon DEF ReserveAddress, Delegate!Reserve
    <3>4. CASE ExecAdd(a)
      <4>1. rt[a] # "deleting"
        BY <1>1, <3>4, PhaseSteps, Zenon DEF ExecAdd, DelSteps
      <4>2. QED
        BY <2>1, <4>1, Zenon
    <3>5. CASE ExecDel(a)
      <4>1. At(a, "ExecDel") /\ Deleting(a)
        BY <1>1, <2>1, <3>5, InvAt, Zenon DEF ExecDel
      <4>2. ~Left(rest[a], "DelLinkByName")
        BY <2>1, <4>1, HeadFirst, Zenon DEF Deleting, At
      <4>3. addr[a] = {}
        BY <1>1, <4>1, <4>2, Zenon DEF Deleting, Inv, TypeOK
      <4>4. QED
        BY <4>3, Zenon
    <3>6. QED
      BY <1>1, <2>1, <3>1, <3>2, <3>3, <3>4, <3>5, ZenonT(60)
      DEF Act, StartAdd, StartDel, Crash, NetnsGone, Check, Lookup, HasIPs, LinkAdd, RenameLink,
          LinkDel, ConfigureIface, DelLinkByName, Setup, Teardown, SetupIPMasq, TeardownIPMasq,
          ipam
  <2>2. QED
    BY <1>1, <2>1, Zenon DEF Next, Act
<1>2. QED
  BY <1>1, Invariance, PTL DEF Spec, BridgeReleasesLast

=============================================================================
