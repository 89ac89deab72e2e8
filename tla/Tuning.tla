------------------------------- MODULE Tuning -------------------------------
(***************************************************************************)
(* The tuning plugin on the device that host-device moved: ADD writes the  *)
(* attributes it is going to change to a backup file, named after the      *)
(* container and the interface, and changes them; DEL restores them from   *)
(* the file and removes it.  DEL returns no error of a restore.            *)
(***************************************************************************)
EXTENDS HostDevice

VARIABLES
  backup,    \* the backup file of each attachment
  sysctl,    \* the attachments whose sysctls their namespace has
  swallowed  \* whether DEL ignored an error

tunVars == <<backup, sysctl, swallowed>>

(* A file that was not written to its end is no JSON.                      *)
NoFile == [is |-> "none", old |-> [x \in {} |-> NoAtt]]
TornFile == [is |-> "torn", old |-> [x \in {} |-> NoAtt]]

TuningInit ==
  /\ backup = [a \in Att |-> NoFile]
  /\ sysctl = {} /\ swallowed = FALSE

TuningTypeOK ==
  /\ \A a \in Att : /\ backup[a].is \in {"none", "torn", "whole"}
                    /\ DOMAIN backup[a].old \subseteq Attrs
                    /\ \A x \in DOMAIN backup[a].old :
                         backup[a].old[x] \in Att \cup {NoAtt}
  /\ sysctl \subseteq Att /\ swallowed \in BOOLEAN

-----------------------------------------------------------------------------

(* The attributes are changed, and restored, one after the other.          *)
ChangeOrder == [mac |-> 1, promisc |-> 2, mtu |-> 3, allmulti |-> 4, txQLen |-> 5]
RestoreOrder == [mtu |-> 1, mac |-> 2, promisc |-> 3, allmulti |-> 4, txQLen |-> 5]
FirstOf(xs, order) == CHOOSE x \in xs : \A y \in xs : order[x] <= order[y]

Changes(xs) == When(xs # {}, <<Step("change", xs, <<>>)>>)

(* The file is removed after the last one, unless one could not be         *)
(* restored.                                                               *)
Restores(xs, failed) ==
  IF xs # {} THEN <<Step("restore", [xs |-> xs, failed |-> failed], <<>>)>>
             ELSE When(~failed, <<Do("removeBackup", <<>>)>>)

(* Mutant: the backup is made after the changes.                           *)
TuningAddBackupLate(c) ==
  <<Do("validateSysctlConf", <<>>)>>
    \o When(c.sysctl # "none", <<Do("WriteSysctl", <<>>)>>)
    \o Changes(c.tunes)
    \o When(c.tunes # {}, <<Do("createBackup", <<>>)>>)

(* Nothing is undone when a step fails.                                    *)
TuningAdd(c) ==
  <<Do("validateSysctlConf", <<>>)>>
    \o When(c.sysctl # "none", <<Do("WriteSysctl", <<>>)>>)
    \o When(c.tunes # {}, <<Do("createBackup", <<>>)>>)
    \o Changes(c.tunes)

TuningDel == <<Do("readBackup", <<>>)>>

-----------------------------------------------------------------------------

LinkThere(a) == place = Cont(a) /\ name = IfName

validateSysctlConf(a) ==
  /\ At(a, "validateSysctlConf")
  /\ \/ conf[a].sysctl # "refused" /\ Succeed(a)
     \/ Fail(a)
  /\ UNCHANGED <<tunVars, attr, mac>>

WriteSysctl(a) ==
  /\ At(a, "WriteSysctl")
  /\ \/ Succeed(a) /\ sysctl' = sysctl \cup {a}
     \/ Fail(a) /\ UNCHANGED sysctl
  /\ UNCHANGED <<attr, mac, backup, swallowed>>

(* The file is overwritten in place.                                       *)
createBackup(a) ==
  /\ At(a, "createBackup")
  /\ \/ /\ LinkThere(a)
        /\ backup' = [backup EXCEPT ![a] =
                        [is |-> "whole", old |-> [x \in conf[a].tunes |-> attr[x]]]]
        /\ Succeed(a)
     \/ /\ LinkThere(a)
        /\ backup' = [backup EXCEPT ![a] = TornFile]
        /\ Fail(a)
     \/ Fail(a) /\ UNCHANGED backup
  /\ UNCHANGED <<attr, mac, sysctl, swallowed>>

(* A MAC address goes into the result as it is configured.                 *)
change(a) ==
  LET x == FirstOf(Arg(a), ChangeOrder) IN
  /\ At(a, "change")
  /\ \/ /\ LinkThere(a) /\ attr' = [attr EXCEPT ![x] = a]
        /\ mac' = IF x = "mac" THEN [mac EXCEPT ![a] = <<a, conf[a].canonical>>]
                               ELSE mac
        /\ Push(a, Changes(Arg(a) \ {x}))
     \/ Fail(a) /\ UNCHANGED <<attr, mac>>
  /\ UNCHANGED <<backup, sysctl, swallowed>>

(* Without the namespace, the file or the link there is nothing to do.     *)
readBackup(a) ==
  /\ At(a, "readBackup")
  /\ \/ /\ ns[a] /\ backup[a].is = "whole" /\ LinkThere(a)
        /\ Push(a, Restores(DOMAIN backup[a].old, FALSE)) /\ UNCHANGED swallowed
     \/ /\ ~(ns[a] /\ backup[a].is = "whole" /\ LinkThere(a))
        /\ Succeed(a) /\ UNCHANGED swallowed
     \/ swallowed' = TRUE /\ Succeed(a)
  /\ UNCHANGED <<attr, mac, backup, sysctl>>

(* The other attributes are restored after one that failed, and the file   *)
(* stays.                                                                  *)
restore(a) ==
  LET x == FirstOf(Arg(a).xs, RestoreOrder)
      others == Arg(a).xs \ {x}
  IN /\ At(a, "restore")
     /\ \/ /\ LinkThere(a)
           /\ attr' = [attr EXCEPT ![x] = backup[a].old[x]]
           /\ Push(a, Restores(others, Arg(a).failed)) /\ UNCHANGED swallowed
        \/ /\ Push(a, Restores(others, TRUE))
           /\ swallowed' = TRUE /\ UNCHANGED attr
     /\ UNCHANGED <<mac, backup, sysctl>>

removeBackup(a) ==
  /\ At(a, "removeBackup")
  /\ \/ backup' = [backup EXCEPT ![a] = NoFile] /\ UNCHANGED swallowed
     \/ swallowed' = TRUE /\ UNCHANGED backup
  /\ Succeed(a)
  /\ UNCHANGED <<attr, mac, sysctl>>

TuningStep(a) ==
  /\ \/ validateSysctlConf(a) \/ WriteSysctl(a) \/ createBackup(a) \/ change(a)
     \/ readBackup(a) \/ restore(a) \/ removeBackup(a)
  /\ UNCHANGED moveVars

(* cmdCheck.  A promiscuous device that should not be is an error too, and *)
(* so is a MAC address that is not configured as the kernel writes it.     *)
TuningCheck(a) ==
  LET c == conf[a] IN
  /\ c.sysctl = "allowed" => a \in sysctl
  /\ LinkThere(a)
  /\ \A x \in c.tunes : attr[x] = a
  /\ "mac" \in c.tunes => c.canonical
  /\ "promisc" \notin c.tunes => attr["promisc"] = NoAtt
=============================================================================
