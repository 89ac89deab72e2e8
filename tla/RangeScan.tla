----------------------------- MODULE RangeScan -----------------------------
(***************************************************************************)
(* One invocation of host-local up to the end of its search: it loads a    *)
(* configuration, refuses it or keeps the completed range sets, opens the  *)
(* iterator of one of them at some content of last_reserved_ip and visits  *)
(* addresses until the iterator gives up.  No address is ever free here:   *)
(* the search of a nearly empty store is a prefix of this one.             *)
(***************************************************************************)
EXTENDS Ranges, FiniteSets

CONSTANTS
  Confs,       \* the configurations an administrator may write
  LastIPs,     \* what the last_reserved_ip file may hold: addresses or NoIP
  MaxVisits    \* bound on the number of addresses a search is followed for

ASSUME BoundsAssumption == MaxVisits \in Nat /\ LastIPs \subseteq Int \cup {NoIP}

(* A range as it is configured: a network address and its host bits, and   *)
(* what may be left out.                                                   *)
IPRange == [net : Nat, bits : Nat, start : Int \cup {NoIP}, end : Int \cup {NoIP},
            gateway : Int \cup {NoIP}]

RangesOf(c) == UNION {{AllSets(c)[i][k] : k \in DOMAIN AllSets(c)[i]} : i \in DOMAIN AllSets(c)}

(* What parsing the network configuration yields: lists of lists of        *)
(* ranges, and no IPv4 subnet reaches beyond the last IPv4 address.  That  *)
(* two host bits make at least four addresses is arithmetic.               *)
ASSUME ConfsAssumption ==
  \A c \in Confs :
    /\ AllSets(c) \in Seq(Seq(IPRange))
    /\ \A r \in RangesOf(c) :
         /\ Size(r) \in Nat \ {0} /\ (r.bits >= 2 => Size(r) >= 4)
         /\ IsV4(r.net) => NetworkIP(r) + Size(r) <= V4Size

(* A range that starts at the IPv4 broadcast address and leaves its end to *)
(* the default, the address before it.                                     *)
StartsAtBroadcast(r) == IsV4(r.net) /\ r.end = NoIP /\ r.start = r.net + Size(r) - 1

(* NextIP goes through the subnet without leaving its family: it does not  *)
(* only in the IPv6 subnets some of whose addresses fill four bytes.       *)
KeepsFamily(r) == \A x \in r.net .. (r.net + Size(r) - 2) : NextIP(x) = x + 1

VARIABLES
  conf,      \* the configuration on standard input
  phase,     \* "load", "rejected", "loaded", "scan", "done"
  sets,      \* the range sets LoadIPAMConfig returned
  s,         \* the range set being searched
  it,        \* RangeIter
  visited    \* the addresses Next returned, in order

vars == <<conf, phase, sets, s, it, visited>>

Init ==
  /\ conf \in Confs
  /\ phase = "load"
  /\ sets = <<>> /\ s = <<>> /\ visited = <<>>
  /\ it = [idx |-> 1, cur |-> NoIP, start |-> NoIP]

Load ==
  /\ phase = "load"
  /\ IF LoadOK(conf)
     THEN phase' = "loaded" /\ sets' = LoadIPAMConfig(conf)
     ELSE phase' = "rejected" /\ sets' = sets
  /\ UNCHANGED <<conf, s, it, visited>>

Open ==
  /\ phase = "loaded"
  /\ \E i \in DOMAIN sets, last \in LastIPs :
       /\ s' = sets[i]
       /\ it' = GetIter(sets[i], last)
  /\ phase' = "scan"
  /\ UNCHANGED <<conf, sets, visited>>

Visit ==
  /\ phase = "scan" /\ ~BackAtStart(s, it)
  /\ Len(visited) < MaxVisits
  /\ it' = Advance(s, it)
  /\ visited' = IF AtGateway(s, it') THEN visited ELSE Append(visited, it'.cur)
  /\ UNCHANGED <<conf, phase, sets, s>>

GiveUp ==
  /\ phase = "scan" /\ BackAtStart(s, it)
  /\ phase' = "done"
  /\ UNCHANGED <<conf, sets, s, it, visited>>

Next == Load \/ Open \/ Visit \/ GiveUp

Spec == Init /\ [][Next]_vars /\ WF_vars(Next)

-----------------------------------------------------------------------------
Addresses(r) == r.start .. r.end
Allocatable(set) ==
  UNION {Addresses(set[k]) \ {set[k].gateway} : k \in DOMAIN set}
AllRanges == UNION {{<<i, k>> : k \in DOMAIN sets[i]} : i \in DOMAIN sets}
RangeAt(p) == sets[p[1]][p[2]]

(* No address belongs to two ranges of an accepted configuration, neither  *)
(* within a range set nor across them: Overlaps compares end points only   *)
(* (range.go), so this says that the comparison misses no overlap.         *)
AcceptedRangesDisjoint ==
  \A p, q \in AllRanges :
    p # q => Addresses(RangeAt(p)) \cap Addresses(RangeAt(q)) = {}

(* The iterator only proposes addresses of the subnets of its range set.   *)
(* RangeIter.Next compares with RangeEnd for equality, so it relies on     *)
(* Range.Canonicalize leaving no range whose end precedes its start.       *)
ScanStaysInSubnets ==
  \A n \in DOMAIN visited :
    \E k \in DOMAIN s :
      NetworkIP(s[k]) <= visited[n] /\ visited[n] < NetworkIP(s[k]) + Size(s[k])

(* No address is proposed twice by one search.                             *)
ScanVisitsOnce ==
  \A m, n \in DOMAIN visited : m # n => visited[m] # visited[n]

(* When the iterator gives up it has proposed every address of the range   *)
(* set that is not its range's gateway, and nothing else, wherever it was  *)
(* opened: "no IP addresses available" is never reported with an address   *)
(* untried.                                                                *)
ScanExhaustive ==
  phase = "done" => {visited[n] : n \in DOMAIN visited} = Allocatable(s)

(* The search ends: Next is back at its start after at most one round.     *)
ScanTerminates == <>(phase \in {"done", "rejected"})
=============================================================================
