-------------------------------- MODULE Veth --------------------------------
(***************************************************************************)
(* The interface of an attachment as the chained plugins find it: what the *)
(* main plugin makes in one step here, and in many in Interfaces.          *)
(***************************************************************************)
EXTENDS Commands, FiniteSets

VARIABLES
  veth,     \* the attachments whose interface exists
  v6,       \* those of them that have their global IPv6 address
  main      \* those of them that have their routes in the main table

vethVars == <<veth, v6, main>>

VethInit == veth = {} /\ v6 = {} /\ main = {}
VethTypeOK == veth \subseteq Att /\ v6 \subseteq veth /\ main \subseteq veth

VethAdd == <<Do("SetupVeth", <<>>)>>
VethDel == <<Do("DelLinkByName", <<>>)>>

Container(a) == conf[a].cid

(* The first number that is not taken, from a candidate on.                *)
FirstFree(taken, candidate) ==
  CHOOSE t \in {candidate} \cup {u + 1 : u \in taken} :
    candidate <= t /\ t \notin taken /\ \A u \in candidate..(t - 1) : u \in taken

SetupVeth(a) ==
  /\ At(a, "SetupVeth")
  /\ \/ /\ ns[a] /\ a \notin veth
        /\ veth' = veth \cup {a} /\ v6' = v6 \cup {a} /\ main' = main \cup {a}
        /\ Succeed(a)
     \/ Fail(a) /\ UNCHANGED vethVars

NoVeth(gone) == veth' = veth \ gone /\ v6' = v6 \ gone /\ main' = main \ gone

(* What is left to do for the addresses of an interface is done only when  *)
(* it was found: cmdDel returns at once without the namespace, and knows   *)
(* no addresses without the interface.                                     *)
DelLinkByName(a, after) ==
  /\ At(a, "DelLinkByName")
  /\ \/ NoVeth({a}) /\ Push(a, When(a \in veth, after))
     \/ Fail(a) /\ UNCHANGED vethVars
=============================================================================
