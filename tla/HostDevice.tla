----------------------------- MODULE HostDevice -----------------------------
(***************************************************************************)
(* The host-device plugin: ADD moves a device of the host into the         *)
(* container under the wanted name and keeps its own name in its alias;    *)
(* DEL moves it back.  Each renames it in a temporary namespace, one       *)
(* netlink call at a time, and undoes the calls when one fails.  One       *)
(* device is modelled, which the attachments compete for.                  *)
(***************************************************************************)
EXTENDS Commands

VARIABLES
  place,    \* the namespace the device is in
  name,     \* its name
  alias,    \* its alias
  addr,     \* whose addresses it has
  link,     \* its name as the command of an attachment found it
  held,     \* the attachments the IPAM plugin holds addresses for
  hurt,     \* whether an undo failed, or its namespace went away under it
  attr,     \* who set each attribute of the device last, NoAtt its owner
  mac       \* the MAC address in the result of each attachment: whose it is,
            \* and whether it is written as the kernel's is

moveVars == <<place, name, alias, addr, link, held, hurt>>
devVars == <<moveVars, attr, mac>>

Attrs == {"mac", "mtu", "promisc", "allmulti", "txQLen"}

Host == <<"host", NoAtt>>
Lost == <<"lost", NoAtt>>       \* destroyed, or in another namespace
Temp(a) == <<"temp", a>>
Cont(a) == <<"cont", a>>
Places == {Host, Lost} \cup {Temp(a) : a \in Att} \cup {Cont(a) : a \in Att}

Own == "eth1"                   \* its name on the host
IfName == "net1"                \* its name in any container
Names == {Own, IfName}

HostDeviceInit ==
  /\ place = Host /\ name = Own /\ alias = "" /\ addr = NoAtt
  /\ link = [a \in Att |-> Own]
  /\ held = {} /\ hurt = FALSE
  /\ attr = [x \in Attrs |-> NoAtt] /\ mac = [a \in Att |-> <<NoAtt, TRUE>>]

HostDeviceTypeOK ==
  /\ place \in Places /\ name \in Names /\ alias \in Names \cup {""}
  /\ addr \in Att \cup {NoAtt} /\ link \in [Att -> Names]
  /\ held \subseteq Att /\ hurt \in BOOLEAN
  /\ attr \in [Attrs -> Att \cup {NoAtt}]
  /\ mac \in [Att -> (Att \cup {NoAtt}) \X BOOLEAN]

-----------------------------------------------------------------------------
(* The programs.  A call names the namespace or the name it sets.  Whether *)
(* the device is up is left out: the undos that set it up again, and that  *)
(* a move sets it down.                                                    *)

Undo(step, arg) == Step(step, arg, <<>>)

(* What is undone when the device is found where it got its new name.      *)
moveBack ==
  << Undo("LinkSetAlias", ""), Undo("LinkSetName", "own"),
     Undo("LinkSetNsFd", "host") >>

(* Mutant: the name is not restored.                                       *)
moveLinkInKeepsName ==
  LET close  == <<Undo("Close", "")>>
      home   == <<Undo("LinkSetNsFd", "host")>> \o close
      alone  == <<Undo("LinkSetAlias", "")>> \o home
      again  == <<Undo("FindAgain", "")>> \o close
      back   == <<Undo("LinkSetNsFd", "temp")>> \o again
  IN << Do("TempNetNS", <<>>), Step("LinkSetNsFd", "temp", close),
        Do("FindInTemp", close), Step("LinkSetName", "if", home),
        Step("LinkSetAlias", "own", home), Step("LinkSetNsFd", "cont", alone),
        Do("FindInCont", again), Do("LinkSetUp", back), Do("Close", <<>>) >>

moveLinkIn ==
  LET close  == <<Undo("Close", "")>>
      home   == <<Undo("LinkSetNsFd", "host")>> \o close
      rename == <<Undo("LinkSetName", "own")>> \o home
      alone  == <<Undo("LinkSetAlias", "")>> \o rename
      again  == <<Undo("FindAgain", "")>> \o close
      back   == <<Undo("LinkSetNsFd", "temp")>> \o again
  IN << Do("TempNetNS", <<>>), Step("LinkSetNsFd", "temp", close),
        Do("FindInTemp", close), Step("LinkSetName", "if", home),
        Step("LinkSetAlias", "own", rename), Step("LinkSetNsFd", "cont", alone),
        Do("FindInCont", again), Do("LinkSetUp", back), Do("Close", <<>>) >>

(* Mutant: the alias is not set back.                                      *)
moveLinkOutForgets ==
  LET close  == <<Undo("Close", "")>>
      home   == <<Undo("LinkSetNsFd", "cont")>> \o close
      rename == <<Undo("LinkSetName", "if")>> \o home
  IN << Do("TempNetNS", <<>>), Do("FindToReturn", close),
        Step("LinkSetNsFd", "temp", close), Do("FindInTemp", close),
        Step("LinkSetName", "own", home), Step("LinkSetAlias", "", rename),
        Step("LinkSetNsFd", "host", rename), Do("Close", <<>>) >>

moveLinkOut ==
  LET close  == <<Undo("Close", "")>>
      home   == <<Undo("LinkSetNsFd", "cont")>> \o close
      rename == <<Undo("LinkSetName", "if")>> \o home
      realias == <<Undo("LinkSetAlias", "own")>> \o rename
  IN << Do("TempNetNS", <<>>), Do("FindToReturn", close),
        Step("LinkSetNsFd", "temp", close), Do("FindInTemp", close),
        Step("LinkSetName", "own", home), Step("LinkSetAlias", "", rename),
        Step("LinkSetNsFd", "host", realias), Do("Close", <<>>) >>

(* A device in DPDK mode has no link.  The check for missing addresses     *)
(* returns a new error, which the deferred ExecDel does not see.           *)
HostDeviceAdd(c) ==
  LET release == <<Do("DevExecDel", <<>>)>> IN
  When(~c.dpdk, <<Do("getLink", <<>>)>> \o moveLinkIn)
    \o When(c.ipam, << Do("DevExecAdd", <<>>), Do("DevCheck", release),
                       Do("DevCheck", <<>>) >>
                    \o When(~c.dpdk, <<Do("DevConfigureIface", release)>>))

HostDeviceDel == <<Do("DevGetNS", <<>>)>>

HostDeviceReturn(c) ==
  When(c.ipam, <<Do("DevExecDel", <<>>)>>) \o When(~c.dpdk, moveLinkOut)

-----------------------------------------------------------------------------
(* The steps.  Every call may fail.                                        *)

(* An undo that fails leaves the device changed.                           *)
FailHurts(a) ==
  /\ Fail(a)
  /\ hurt' = (hurt \/ rt[a] \notin {"adding", "deleting"})
  /\ UNCHANGED <<place, name, alias, addr, link, held>>

FailPlain(a) == Fail(a) /\ UNCHANGED moveVars

(* A device is looked up by its name, or by its hardware or PCI address    *)
(* whatever its name is.                                                   *)
getLink(a) ==
  /\ At(a, "getLink")
  /\ \/ /\ place = Host /\ (conf[a].byName => name = Own)
        /\ link' = [link EXCEPT ![a] = name]
        /\ Succeed(a)
        /\ UNCHANGED <<place, name, alias, addr, held, hurt>>
     \/ FailPlain(a)

TempNetNS(a) ==
  /\ At(a, "TempNetNS") /\ (Succeed(a) \/ Fail(a)) /\ UNCHANGED moveVars

(* The index a command holds is that of a device of one namespace.  The    *)
(* kernel takes the addresses of a device that moves.                      *)
LinkSetNsFd(a) ==
  LET from == IF Arg(a) = "temp"
              THEN IF rt[a] = "adding" THEN Host ELSE Cont(a)
              ELSE Temp(a)
      to == [host |-> Host, temp |-> Temp(a), cont |-> Cont(a)][Arg(a)]
  IN /\ At(a, "LinkSetNsFd")
     /\ \/ /\ place = from
           /\ place' = to /\ addr' = NoAtt
           /\ Succeed(a) /\ UNCHANGED <<name, alias, link, held, hurt>>
        \/ FailPlain(a)

LinkSetName(a) ==
  /\ At(a, "LinkSetName")
  /\ \/ /\ place = Temp(a)
        /\ name' = IF Arg(a) = "if" THEN IfName ELSE link[a]
        /\ Succeed(a) /\ UNCHANGED <<place, alias, addr, link, held, hurt>>
     \/ FailHurts(a)

LinkSetAlias(a) ==
  /\ At(a, "LinkSetAlias")
  /\ \/ /\ place = Temp(a)
        /\ alias' = IF Arg(a) = "" THEN "" ELSE link[a]
        /\ Succeed(a) /\ UNCHANGED <<place, name, addr, link, held, hurt>>
     \/ FailHurts(a)

(* The result has the MAC address of what is found in the container.       *)
Find(a) ==
  /\ \/ At(a, "FindInTemp") /\ place = Temp(a) /\ Succeed(a) /\ UNCHANGED mac
     \/ /\ At(a, "FindInCont") /\ place = Cont(a) /\ Succeed(a)
        /\ mac' = [mac EXCEPT ![a] = <<attr["mac"], TRUE>>]
     \/ (At(a, "FindInTemp") \/ At(a, "FindInCont")) /\ Fail(a) /\ UNCHANGED mac
  /\ UNCHANGED moveVars

(* Back in the temporary namespace.  The undos of a device that is not     *)
(* there do nothing.                                                       *)
FindAgain(a) ==
  /\ At(a, "FindAgain")
  /\ \/ place = Temp(a) /\ Push(a, moveBack)
     \/ Succeed(a)
  /\ UNCHANGED moveVars

(* The device must have its own name in its alias.                         *)
FindToReturn(a) ==
  /\ At(a, "FindToReturn")
  /\ \/ /\ place = Cont(a) /\ name = IfName /\ alias # ""
        /\ link' = [link EXCEPT ![a] = alias]
        /\ Succeed(a) /\ UNCHANGED <<place, name, alias, addr, held, hurt>>
     \/ FailPlain(a)

LinkSetUp(a) ==
  /\ At(a, "LinkSetUp")
  /\ (place = Cont(a) /\ Succeed(a)) \/ Fail(a)
  /\ UNCHANGED moveVars

(* With the last descriptor of a namespace the kernel destroys it: a       *)
(* virtual device with it, while a physical one goes to the initial        *)
(* namespace, which need not be the one the plugin runs in.                *)
Destroy(nspaces, falls) ==
  /\ IF place \in nspaces
     THEN /\ place' = (IF falls THEN Host ELSE Lost)
          /\ addr' = NoAtt /\ hurt' = TRUE
     ELSE UNCHANGED <<place, addr, hurt>>
  /\ UNCHANGED <<name, alias, link, held>>

Close(a) ==
  /\ At(a, "Close") /\ Succeed(a) /\ Destroy({Temp(a)}, conf[a].falls)

DevCheck(a) ==
  /\ At(a, "DevCheck") /\ (Succeed(a) \/ Fail(a)) /\ UNCHANGED moveVars

(* Without the namespace the runtime passes no path, and the plugin        *)
(* returns at once, or a path that cannot be opened.  The result is of no  *)
(* more use.                                                               *)
DevGetNS(a) ==
  /\ At(a, "DevGetNS")
  /\ \/ ns[a] /\ Push(a, HostDeviceReturn(conf[a]))
     \/ ~ns[a] /\ Succeed(a)
     \/ Fail(a)
  /\ mac' = [mac EXCEPT ![a] = <<NoAtt, TRUE>>]
  /\ UNCHANGED moveVars

DevExecAdd(a) ==
  /\ At(a, "DevExecAdd")
  /\ \/ Succeed(a) /\ held' = held \cup {a}
     \/ Fail(a) /\ UNCHANGED held
  /\ UNCHANGED <<place, name, alias, addr, link, hurt>>

DevExecDel(a) ==
  /\ At(a, "DevExecDel")
  /\ \/ Succeed(a) /\ held' = held \ {a}
     \/ Fail(a) /\ UNCHANGED held
  /\ UNCHANGED <<place, name, alias, addr, link, hurt>>

DevConfigureIface(a) ==
  /\ At(a, "DevConfigureIface")
  /\ \/ /\ place = Cont(a) /\ addr' = a
        /\ Succeed(a) /\ UNCHANGED <<place, name, alias, link, held, hurt>>
     \/ FailPlain(a)

HostDeviceStep(a) ==
  /\ \/ Find(a) \/ DevGetNS(a)
     \/ /\ \/ getLink(a) \/ TempNetNS(a) \/ LinkSetNsFd(a) \/ LinkSetName(a)
           \/ LinkSetAlias(a) \/ FindAgain(a) \/ FindToReturn(a)
           \/ LinkSetUp(a) \/ Close(a) \/ DevCheck(a)
           \/ DevExecAdd(a) \/ DevExecDel(a) \/ DevConfigureIface(a)
        /\ UNCHANGED mac
  /\ UNCHANGED attr

(* cmdCheck.  The MAC address is compared as it is written.                *)
HostDeviceCheck(a) ==
  LET c == conf[a] IN
  /\ c.ipam => a \in held
  /\ ~c.dpdk => /\ place = Cont(a) /\ name = IfName
                /\ mac[a] = <<attr["mac"], TRUE>>
                /\ c.ipam => addr = a
=============================================================================
