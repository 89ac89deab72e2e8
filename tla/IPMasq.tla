------------------------------- MODULE IPMasq -------------------------------
(***************************************************************************)
(* The masquerading that bridge, ptp and the other main plugins set up     *)
(* for the address of a container, with iptables or with nftables.         *)
(***************************************************************************)
EXTENDS Iptables

VARIABLE masquerade   \* the attachments that have their rules in nftables

MasqChain(a) == <<"CNI", a>>
MasqRules(a) == << Rule("to subnet", a, Shared("ACCEPT")),
                   Rule("unicast", a, Shared("MASQUERADE")) >>
MasqJump(a) == Rule("from", a, MasqChain(a))

SetupIPMasq(a) ==
  << Step("NewMasqChain", MasqChain(a), <<>>),
     InsertUnique(MasqChain(a), FALSE, MasqRules(a)[1], <<>>),
     InsertUnique(MasqChain(a), FALSE, MasqRules(a)[2], <<>>),
     InsertUnique(Shared("POSTROUTING"), FALSE, MasqJump(a), <<>>) >>

SetupIPMasqForNetworks(a, c) ==
  IF c.masq = "iptables" THEN SetupIPMasq(a) ELSE <<Do("setupIPMasqNft", <<>>)>>

(* The rules of either are removed, whichever is configured: those of      *)
(* nftables too when iptables failed.                                      *)
TeardownIPMasqForNetworks(a) ==
  LET nft == <<Do("teardownIPMasqNft", <<>>)>> IN
  << Step("DeleteRule", [chain |-> Shared("POSTROUTING"), rule |-> MasqJump(a)], nft),
     Step("ClearMasqChain", MasqChain(a), nft),
     Step("DeleteMasqChain", MasqChain(a), nft) >> \o nft

-----------------------------------------------------------------------------

(* The chain is of one attachment, whose commands run one at a time.       *)
NewMasqChain(a) ==
  /\ At(a, "NewMasqChain")
  /\ \/ /\ chains' = [ch \in DOMAIN chains \cup {Arg(a)} |->
                        IF ch \in DOMAIN chains THEN chains[ch] ELSE <<>>]
        /\ Succeed(a)
     \/ Fail(a) /\ UNCHANGED chains
  /\ UNCHANGED <<ignored, masquerade>>

(* ClearChain of go-iptables makes the chain if there is none.             *)
ClearMasqChain(a) ==
  /\ At(a, "ClearMasqChain")
  /\ \/ /\ chains' = [ch \in DOMAIN chains \cup {Arg(a)} |->
                        IF ch = Arg(a) THEN <<>> ELSE chains[ch]]
        /\ Succeed(a)
     \/ Fail(a) /\ UNCHANGED chains
  /\ UNCHANGED <<ignored, masquerade>>

DeleteMasqChain(a) ==
  /\ At(a, "DeleteMasqChain")
  /\ \/ References(Arg(a)) = {} /\ chains' = Deleted(Arg(a)) /\ Succeed(a)
     \/ Fail(a) /\ UNCHANGED chains
  /\ UNCHANGED <<ignored, masquerade>>

(* Stale rules of the attachment are deleted in the same transaction.      *)
setupIPMasqNft(a) ==
  /\ At(a, "setupIPMasqNft")
  /\ \/ masquerade' = masquerade \cup {a} /\ Succeed(a)
     \/ Fail(a) /\ UNCHANGED masquerade
  /\ UNCHANGED iptVars

teardownIPMasqNft(a) ==
  /\ At(a, "teardownIPMasqNft")
  /\ \/ masquerade' = masquerade \ {a} /\ Succeed(a)
     \/ Fail(a) /\ UNCHANGED masquerade
  /\ UNCHANGED iptVars

IPMasqStep(a) ==
  \/ NewMasqChain(a) \/ ClearMasqChain(a) \/ DeleteMasqChain(a)
  \/ setupIPMasqNft(a) \/ teardownIPMasqNft(a)

(* Whether the traffic of the address is masqueraded.                      *)
Masqueraded(a) ==
  IF conf[a].masq = "iptables"
  THEN /\ Has(Shared("POSTROUTING"), MasqJump(a))
       /\ \A i \in 1..2 : Has(MasqChain(a), MasqRules(a)[i])
  ELSE a \in masquerade
=============================================================================
