------------------------------- MODULE Ranges -------------------------------
(***************************************************************************)
(* The address ranges of the host-local IPAM plugin: how a configured      *)
(* range is completed and accepted (allocator/range.go, range_set.go,      *)
(* config.go) and the order in which the iterator of an allocator visits   *)
(* the addresses of a range set (allocator/allocator.go).                  *)
(*                                                                         *)
(* An address is an integer: the IPv4 address n is n, the IPv6 address n   *)
(* is V4Size + n.  A configured range gives a network address, its number  *)
(* of host bits and, possibly, a first address, a last address and a       *)
(* gateway; NoIP stands for Go's nil.                                      *)
(***************************************************************************)
EXTENDS Integers, Sequences

CONSTANTS
  V4Size,        \* number of IPv4 addresses (2^32)
  FourByteMin,   \* smallest integer that takes four bytes (2^24)
  NoIP           \* no address

ASSUME SizesAssumption ==
  /\ V4Size \in Nat /\ FourByteMin \in Nat
  /\ 0 < FourByteMin /\ FourByteMin < V4Size
  /\ NoIP \notin Int

IsV4(a) == a < V4Size

(* ip.NextIP: the successor is rebuilt from the bytes of the incremented   *)
(* integer, and four bytes make an IPv4 address whatever the input was.    *)
(* The last address of a family has no successor: the code panics there,   *)
(* and no run reaches it.                                                  *)
NextIP(a) ==
  LET n == a - V4Size + 1 IN
  IF ~IsV4(a) /\ FourByteMin <= n /\ n < V4Size THEN n ELSE a + 1

(* ip.Cmp: -2 for addresses of different families.                         *)
Cmp(a, b) ==
  IF IsV4(a) # IsV4(b) THEN -2
  ELSE IF a < b THEN -1
  ELSE IF a > b THEN 1 ELSE 0

Size(r) == 2 ^ r.bits
NetworkIP(r) == LET base == IF IsV4(r.net) THEN 0 ELSE V4Size
                IN  r.net - ((r.net - base) % Size(r))

(* Range.Contains; start and end may still be nil while the range is being *)
(* completed.                                                              *)
Contains(r, a) ==
  /\ IsV4(a) = IsV4(r.net)
  /\ NetworkIP(r) <= a /\ a < NetworkIP(r) + Size(r)
  /\ r.start # NoIP => ~(Cmp(a, r.start) < 0)
  /\ r.end # NoIP => ~(Cmp(a, r.end) > 0)

LastIP(r) == r.net + Size(r) - (IF IsV4(r.net) THEN 2 ELSE 1)

WithGateway(r) == IF r.gateway = NoIP THEN [r EXCEPT !.gateway = NextIP(r.net)] ELSE r
WithStart(r) == IF r.start = NoIP THEN [r EXCEPT !.start = NextIP(r.net)] ELSE r
WithEnd(r) == IF r.end = NoIP THEN [r EXCEPT !.end = LastIP(r)] ELSE r

(* Range.Canonicalize: the completed range, and whether it is accepted.    *)
Canonical(r) == WithEnd(WithStart(WithGateway(r)))

CanonicalOK(r) ==
  /\ r.bits >= 2
  /\ r.net = NetworkIP(r)
  /\ r.start # NoIP => Contains(r, r.start)
  /\ r.end # NoIP => Contains(WithStart(r), r.end)

(* Mutant: only one of the two ranges is asked.                            *)
OverlapsOneWay(r, q) ==
  IsV4(r.start) = IsV4(q.start) /\ (Contains(r, q.start) \/ Contains(r, q.end))

Overlaps(r, q) ==
  /\ IsV4(r.start) = IsV4(q.start)
  /\ \/ Contains(r, q.start) \/ Contains(r, q.end)
     \/ Contains(q, r.start) \/ Contains(q, r.end)

SetOverlaps(s, t) == \E j \in DOMAIN s, k \in DOMAIN t : Overlaps(s[j], t[k])

(* RangeSet.Canonicalize.                                                  *)
CanonicalSet(s) == [k \in DOMAIN s |-> Canonical(s[k])]

CanonicalSetOK(s) ==
  LET c == CanonicalSet(s) IN
  /\ s # <<>>
  /\ \A k \in DOMAIN s : CanonicalOK(s[k])
  /\ \A k \in DOMAIN s : IsV4(c[k].start) = IsV4(c[1].start)
  /\ \A j, k \in DOMAIN s : j < k => ~Overlaps(c[j], c[k])

(* LoadIPAMConfig: ranges of the runtime configuration come first, then    *)
(* the single old-style range, then the configured range sets.             *)
AllSets(conf) == conf.runtime \o conf.single \o conf.ranges

LoadIPAMConfig(conf) == [i \in DOMAIN AllSets(conf) |-> CanonicalSet(AllSets(conf)[i])]

OfFamily(sets, v4) == {i \in DOMAIN sets : IsV4(sets[i][1].start) = v4}

LoadOK(conf) ==
  LET sets == LoadIPAMConfig(conf) IN
  /\ AllSets(conf) # <<>>
  /\ \A i \in DOMAIN sets : CanonicalSetOK(AllSets(conf)[i])
  /\ ~conf.manyPerFamily =>
        \A v4 \in BOOLEAN : \A i, j \in OfFamily(sets, v4) : i = j
  /\ \A i, j \in DOMAIN sets : i < j => ~SetOverlaps(sets[i], sets[j])

-----------------------------------------------------------------------------
(* RangeSet.RangeFor: the first range that contains the address.           *)
SetContains(s, a) == \E k \in DOMAIN s : Contains(s[k], a)
RangeFor(s, a) ==
  CHOOSE k \in DOMAIN s : Contains(s[k], a) /\ \A j \in DOMAIN s : Contains(s[j], a) => k <= j

(* The order of the addresses of a range set: by range, then by value.     *)
Before(s, x, y) ==
  RangeFor(s, x) < RangeFor(s, y) \/ (RangeFor(s, x) = RangeFor(s, y) /\ x < y)

(* What a search through range set s relies on, U being the addresses      *)
(* there are: every range begins and ends inside itself, NextIP leads from *)
(* one to the other, and no address is in two ranges.                      *)
Searchable(s, U) ==
  /\ U \subseteq Int
  /\ Len(s) \in Nat \ {0} /\ DOMAIN s = 1 .. Len(s)
  /\ \A k \in DOMAIN s :
       /\ s[k].start \in U /\ Contains(s[k], s[k].start)
       /\ s[k].end \in U /\ Contains(s[k], s[k].end)
       /\ \A x \in U : Contains(s[k], x) /\ x # s[k].end =>
                          NextIP(x) \in U /\ Contains(s[k], NextIP(x))
  /\ \A j, k \in DOMAIN s, x \in U : Contains(s[j], x) /\ Contains(s[k], x) => j = k

(* Mutant: the search that resumes takes the last reserved address itself  *)
(* as its starting point.                                                  *)
GetIterFromLast(s, last) ==
  IF last # NoIP /\ SetContains(s, last)
  THEN [idx |-> RangeFor(s, last), cur |-> last, start |-> last]
  ELSE [idx |-> 1, cur |-> NoIP, start |-> s[1].start]

(* Mutant: every search begins at the start of the first range.            *)
GetIterFromStart(s, last) == [idx |-> 1, cur |-> NoIP, start |-> s[1].start]

(* IPAllocator.GetIter, given the content of the last_reserved_ip file.    *)
GetIter(s, last) ==
  IF last # NoIP /\ SetContains(s, last)
  THEN [idx |-> RangeFor(s, last), cur |-> last, start |-> NoIP]
  ELSE [idx |-> 1, cur |-> NoIP, start |-> s[1].start]

(* Mutant: a search that resumes never records where it started.           *)
AdvanceNoStart(s, it) ==
  IF it.cur = NoIP
  THEN [it EXCEPT !.cur = s[it.idx].start, !.start = s[it.idx].start]
  ELSE IF it.cur = s[it.idx].end
  THEN [it EXCEPT !.idx = (it.idx % Len(s)) + 1, !.cur = s[(it.idx % Len(s)) + 1].start]
  ELSE [it EXCEPT !.cur = NextIP(it.cur)]

(* One round of RangeIter.Next.  Next calls itself again when the address  *)
(* it reaches is the gateway, and returns nil when it is back at its start.*)
Advance(s, it) ==
  IF it.cur = NoIP
  THEN [it EXCEPT !.cur = s[it.idx].start, !.start = s[it.idx].start]
  ELSE LET atEnd == it.cur = s[it.idx].end
           idx   == IF atEnd THEN (it.idx % Len(s)) + 1 ELSE it.idx
           cur   == IF atEnd THEN s[idx].start ELSE NextIP(it.cur)
       IN  [idx |-> idx, cur |-> cur, start |-> IF it.start = NoIP THEN cur ELSE it.start]

(* Mutant: Next looks at the gateway before it looks whether it is back.   *)
BackAfterGateway(s, it) ==
  LET n == Advance(s, it) IN
  it.cur # NoIP /\ it.start # NoIP /\ n.cur = it.start /\ n.cur # s[n.idx].gateway

BackAtStart(s, it) == it.cur # NoIP /\ it.start # NoIP /\ Advance(s, it).cur = it.start

AtGateway(s, it) == it.cur = s[it.idx].gateway
=============================================================================
