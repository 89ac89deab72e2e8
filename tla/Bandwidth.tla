----------------------------- MODULE Bandwidth ------------------------------
(***************************************************************************)
(* The bandwidth plugin: a token bucket on the host's end of the           *)
(* interface limits what the container receives, one on an ifb device,     *)
(* which a filter redirects to, what it sends.  ADD undoes nothing, and    *)
(* DEL deletes the ifb device only: the rest goes with the interface.      *)
(***************************************************************************)
EXTENDS Veth

VARIABLES
  tbf,      \* the attachments whose host interface has a token bucket
  redirect, \* how far the redirection of each attachment has come
  ifb       \* the ifb device of each attachment: none, added, limited

tcVars == <<tbf, redirect, ifb>>

BandwidthInit ==
  tbf = {} /\ redirect = [a \in Att |-> "none"] /\ ifb = [a \in Att |-> "none"]

BandwidthTypeOK ==
  /\ tbf \subseteq veth
  /\ redirect \in [Att -> {"none", "qdisc", "filter"}]
  /\ ifb \in [Att -> {"none", "added", "limited"}]

(* A rate without a burst, or a burst without a rate, is refused.          *)
BandwidthAdd(c) ==
  When(c.ingress \/ c.egress, <<Do("getHostInterface", <<>>)>>)
    \o When(c.ingress, <<Do("CreateIngressQdisc", <<>>)>>)
    \o When(c.egress, << Do("CreateIfb", <<>>), Do("AddIngressQdisc", <<>>),
                         Do("FilterAdd", <<>>), Do("createTBF", <<>>) >>)

BandwidthDel == <<Do("TeardownIfb", <<>>)>>

-----------------------------------------------------------------------------

TcFail(a) == Fail(a) /\ UNCHANGED tcVars

getHostInterface(a) ==
  /\ At(a, "getHostInterface")
  /\ (a \in veth /\ Succeed(a)) \/ Fail(a)
  /\ UNCHANGED tcVars

(* A second root qdisc is refused.                                         *)
CreateIngressQdisc(a) ==
  /\ At(a, "CreateIngressQdisc")
  /\ \/ /\ a \in veth \ tbf
        /\ tbf' = tbf \cup {a} /\ Succeed(a) /\ UNCHANGED <<redirect, ifb>>
     \/ TcFail(a)

(* The name of the device is made of network and container.                *)
CreateIfb(a) ==
  /\ At(a, "CreateIfb")
  /\ \/ /\ ifb[a] = "none"
        /\ ifb' = [ifb EXCEPT ![a] = "added"]
        /\ Succeed(a) /\ UNCHANGED <<tbf, redirect>>
     \/ TcFail(a)

(* The three calls of CreateEgressQdisc.                                   *)
AddIngressQdisc(a) ==
  /\ At(a, "AddIngressQdisc")
  /\ \/ /\ a \in veth /\ ifb[a] # "none" /\ redirect[a] = "none"
        /\ redirect' = [redirect EXCEPT ![a] = "qdisc"]
        /\ Succeed(a) /\ UNCHANGED <<tbf, ifb>>
     \/ TcFail(a)

FilterAdd(a) ==
  /\ At(a, "FilterAdd")
  /\ \/ /\ a \in veth /\ redirect[a] = "qdisc"
        /\ redirect' = [redirect EXCEPT ![a] = "filter"]
        /\ Succeed(a) /\ UNCHANGED <<tbf, ifb>>
     \/ TcFail(a)

createTBF(a) ==
  /\ At(a, "createTBF")
  /\ \/ /\ ifb[a] = "added"
        /\ ifb' = [ifb EXCEPT ![a] = "limited"]
        /\ Succeed(a) /\ UNCHANGED <<tbf, redirect>>
     \/ TcFail(a)

(* That there is no device is no error.                                    *)
TeardownIfb(a) ==
  /\ At(a, "TeardownIfb")
  /\ \/ /\ ifb' = [ifb EXCEPT ![a] = "none"]
        /\ Succeed(a) /\ UNCHANGED <<tbf, redirect>>
     \/ TcFail(a)

BandwidthStep(a) ==
  \/ getHostInterface(a) \/ CreateIngressQdisc(a) \/ CreateIfb(a)
  \/ AddIngressQdisc(a) \/ FilterAdd(a) \/ createTBF(a) \/ TeardownIfb(a)

(* The qdiscs of an interface go with it.                                  *)
NoQdiscs(gone) ==
  /\ tbf' = tbf \ gone
  /\ redirect' = [a \in Att |-> IF a \in gone THEN "none" ELSE redirect[a]]
  /\ UNCHANGED ifb

(* cmdCheck, which reads the rates of an entry that need not be there.     *)
BandwidthCheck(a) ==
  LET c == conf[a] IN
  /\ a \in veth /\ c.entry
  /\ c.ingress => a \in tbf
  /\ c.egress => ifb[a] = "limited"
=============================================================================
