-------------------------------- MODULE Vrf ---------------------------------
(***************************************************************************)
(* The vrf plugin: ADD makes the interface a port of a VRF of the          *)
(* container, which the first one creates, and restores what the kernel    *)
(* takes from an interface that gets a master; DEL takes it out, and the   *)
(* last one deletes the VRF.                                               *)
(***************************************************************************)
EXTENDS Veth

VARIABLES
  vrfs,     \* the VRFs: container, name and routing table
  master,   \* the VRF each interface is in
  moved     \* the attachments whose routes through a gateway are in its table

vrfVars == <<vrfs, master, moved>>

VrfInit == vrfs = {} /\ master = [a \in Att |-> ""] /\ moved = {}

VrfTypeOK ==
  /\ \A v \in vrfs : v.of \in Att /\ v.table \in Nat \ {0}
  /\ moved \subseteq Att /\ DOMAIN master = Att

findVRF(a) == {v \in vrfs : v.of = Container(a) /\ v.name = conf[a].vrf}

VrfAdd ==
  << Do("findVRF", <<>>), Do("saveAddresses", <<>>), Do("LinkSetMaster", <<>>),
     Do("restoreAddresses", <<>>), Do("restoreRoutes", <<>>) >>

VrfDel == <<Do("findVRFToLeave", <<>>)>>

-----------------------------------------------------------------------------

VrfFail(a) == Fail(a) /\ UNCHANGED <<vrfVars, vethVars>>

(* A VRF with another table than the one asked for is an error.            *)
findOrCreate(a) ==
  /\ At(a, "findVRF")
  /\ \/ /\ findVRF(a) = {}
        /\ Push(a, <<Do("createVRF", <<>>), Do("LinkSetUpVRF", <<>>)>>)
     \/ /\ \E v \in findVRF(a) : conf[a].vrfTable \in {0, v.table}
        /\ Succeed(a)
     \/ Fail(a)
  /\ UNCHANGED <<vrfVars, vethVars>>

findFreeRoutingTableID(a) ==
  FirstFree({v.table : v \in {w \in vrfs : w.of = Container(a)}}, 1)

createVRF(a) ==
  LET table == IF conf[a].vrfTable # 0 THEN conf[a].vrfTable
                                       ELSE findFreeRoutingTableID(a)
  IN /\ At(a, "createVRF")
     /\ \/ /\ findVRF(a) = {}
           /\ vrfs' = vrfs \cup {[of |-> Container(a), name |-> conf[a].vrf,
                                  table |-> table]}
           /\ Succeed(a) /\ UNCHANGED <<master, moved, vethVars>>
        \/ VrfFail(a)

LinkSetUpVRF(a) ==
  /\ At(a, "LinkSetUpVRF") /\ (Succeed(a) \/ Fail(a))
  /\ UNCHANGED <<vrfVars, vethVars>>

(* An interface that has a master is refused.  Of its routes, those that   *)
(* have no preferred source are not saved.                                 *)
saveAddresses(a) ==
  /\ At(a, "saveAddresses")
  /\ (a \in veth /\ master[a] = "" /\ Succeed(a)) \/ Fail(a)
  /\ UNCHANGED <<vrfVars, vethVars>>

(* The kernel takes the routes, and the IPv6 addresses unless it is told   *)
(* to keep them.                                                           *)
LinkSetMaster(a) ==
  /\ At(a, "LinkSetMaster")
  /\ \/ /\ a \in veth /\ findVRF(a) # {}
        /\ master' = [master EXCEPT ![a] = conf[a].vrf]
        /\ main' = main \ {a} /\ v6' \in {v6, v6 \ {a}}
        /\ Succeed(a) /\ UNCHANGED <<vrfs, moved, veth>>
     \/ VrfFail(a)

(* Mutant: only the routes are restored.                                   *)
restoreAddressesNone(a) ==
  /\ At(a, "restoreAddresses") /\ Succeed(a) /\ UNCHANGED <<vrfVars, vethVars>>

(* The addresses that are missing are added again, and the plugin waits    *)
(* for their routes to appear in the table, but not for ever.              *)
restoreAddresses(a) ==
  /\ At(a, "restoreAddresses")
  /\ \/ /\ v6' = v6 \cup {a} /\ (Succeed(a) \/ Fail(a))
        /\ UNCHANGED <<vrfVars, veth, main>>
     \/ VrfFail(a)

(* The routes that were saved are added to the table of the VRF: none of   *)
(* those through a gateway that a main plugin makes without a source.      *)
restoreRoutes(a) ==
  /\ At(a, "restoreRoutes")
  /\ \/ /\ moved' = IF conf[a].sourced THEN moved \cup {a} ELSE moved
        /\ Succeed(a) /\ UNCHANGED <<vrfs, master, vethVars>>
     \/ VrfFail(a)

(* Without the namespace or the VRF there is nothing to do.                *)
findVRFToLeave(a) ==
  /\ At(a, "findVRFToLeave")
  /\ \/ /\ ns[a] /\ findVRF(a) # {}
        /\ Push(a, <<Do("resetMaster", <<>>), Do("LinkDelVRF", <<>>)>>)
     \/ (~ns[a] \/ findVRF(a) = {}) /\ Succeed(a)
     \/ Fail(a)
  /\ UNCHANGED <<vrfVars, vethVars>>

resetMaster(a) ==
  /\ At(a, "resetMaster")
  /\ \/ /\ a \in veth
        /\ master' = [master EXCEPT ![a] = ""] /\ moved' = moved \ {a}
        /\ Succeed(a) /\ UNCHANGED <<vrfs, vethVars>>
     \/ VrfFail(a)

assignedInterfaces(v) == {b \in Att : Container(b) = v.of /\ master[b] = v.name}


LinkDelVRF(a) ==
  /\ At(a, "LinkDelVRF")
  /\ \/ /\ vrfs' = {v \in vrfs : v \in findVRF(a) => assignedInterfaces(v) # {}}
        /\ Succeed(a) /\ UNCHANGED <<master, moved, vethVars>>
     \/ VrfFail(a)

VrfStep(a) ==
  \/ findOrCreate(a) \/ createVRF(a) \/ LinkSetUpVRF(a) \/ saveAddresses(a)
  \/ LinkSetMaster(a) \/ restoreAddresses(a) \/ restoreRoutes(a)
  \/ findVRFToLeave(a) \/ resetMaster(a) \/ LinkDelVRF(a)

(* An interface that is deleted leaves its VRF; a namespace takes its VRFs *)
(* along.                                                                  *)
NoMasters(gone) ==
  /\ master' = [a \in Att |-> IF a \in gone THEN "" ELSE master[a]]
  /\ moved' = moved \ gone

(* cmdCheck.                                                               *)
VrfCheck(a) == findVRF(a) # {} /\ master[a] = conf[a].vrf
=============================================================================
