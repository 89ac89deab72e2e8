-------------------------------- MODULE IPAM --------------------------------
(***************************************************************************)
(* What the interface plugins rely on when they delegate addressing to an  *)
(* IPAM plugin (pkg/ipam: ExecAdd, ExecDel): an ADD reserves addresses one *)
(* by one and then either hands out what it reserved or gives it back, and *)
(* nothing that was handed out is reserved for anybody else before a DEL.  *)
(***************************************************************************)
EXTENDS FiniteSets

CONSTANTS Att, IPs

VARIABLES
  held,   \* the addresses reserved for each attachment
  live    \* the addresses handed out to each attachment

vars == <<held, live>>

Init ==
  /\ held = [a \in Att |-> {}]
  /\ live = [a \in Att |-> {}]

(* During an ADD: reserve an address that nobody holds.                    *)
Reserve(a, x) ==
  /\ live[a] = {}
  /\ \A b \in Att : x \notin held[b]
  /\ held' = [held EXCEPT ![a] = @ \cup {x}]
  /\ live' = live

(* The end of an ADD: the result is made of reserved addresses.            *)
HandOut(a, S) ==
  /\ live[a] = {} /\ S \subseteq held[a]
  /\ live' = [live EXCEPT ![a] = S]
  /\ held' = held

(* The start of a DEL.                                                     *)
GiveUp(a) ==
  /\ live' = [live EXCEPT ![a] = {}]
  /\ held' = held

(* During a DEL, or when an ADD fails: reservations go, handed out ones    *)
(* excepted.                                                               *)
Withdraw(a, S) ==
  /\ live[a] = {}
  /\ held' = [held EXCEPT ![a] = @ \ S]
  /\ live' = live

Next ==
  \E a \in Att :
    \/ \E x \in IPs : Reserve(a, x)
    \/ HandOut(a, live'[a])
    \/ Withdraw(a, held[a] \ held'[a])
    \/ GiveUp(a)

Spec == Init /\ [][Next]_vars
=============================================================================
