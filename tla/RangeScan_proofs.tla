-------------------------- MODULE RangeScan_proofs --------------------------
(***************************************************************************)
(* What LoadIPAMConfig accepts, and the search through it: proofs about    *)
(* RangeScan, for any configurations and any content of last_reserved_ip.  *)
(***************************************************************************)
EXTENDS RangeScan, Ranges_proofs, SequenceTheorems

(* A range whose subnet is sound: what ConfsAssumption says of it.         *)
Subnet(r) ==
  /\ r \in IPRange
  /\ Size(r) \in Nat \ {0} /\ (r.bits >= 2 => Size(r) >= 4)
  /\ IsV4(r.net) => NetworkIP(r) + Size(r) <= V4Size

(* Range c lies in one family and contains the addresses from its start to *)
(* its end.                                                                *)
Interval(c) ==
  /\ c.net \in Int /\ c.start \in Int /\ c.end \in Int
  /\ IsV4(c.start) = IsV4(c.net) /\ IsV4(c.end) = IsV4(c.net)
  /\ \A x \in Int : Contains(c, x) <=> x \in Addresses(c)
  /\ c.start <= c.end + 1

-----------------------------------------------------------------------------
(* Canonicalize gives a range it accepts a start and an end in the subnet. *)
LEMMA CompletedEnds ==
  ASSUME NEW r, Subnet(r), KeepsFamily(r), CanonicalOK(r)
  PROVE  LET c == Canonical(r) IN
         /\ c.net = r.net /\ c.net \in Nat /\ Size(c) = Size(r) /\ Size(c) \in Nat
         /\ NetworkIP(c) = r.net
         /\ c.start \in Int /\ c.end \in Int
         /\ r.net <= c.start /\ c.start < r.net + Size(r)
         /\ r.net <= c.end /\ c.end < r.net + Size(r)
         /\ c.start <= c.end + 1
         /\ ~StartsAtBroadcast(r) => c.start <= c.end
<1> DEFINE g == WithGateway(r)
           w == WithStart(g)
           c == Canonical(r)
<1>1. /\ r \in IPRange /\ r.net \in Nat /\ Size(r) \in Nat /\ Size(r) >= 4
      /\ r.net = NetworkIP(r)
  BY Zenon DEF Subnet, CanonicalOK, IPRange
<1>2. NextIP(r.net) = r.net + 1
  BY <1>1 DEF KeepsFamily
<1>3. /\ g \in IPRange /\ g.net = r.net /\ g.bits = r.bits /\ g.start = r.start /\ g.end = r.end
  BY <1>1, <1>2 DEF WithGateway, IPRange
<1>4. /\ w \in IPRange /\ w.net = r.net /\ w.bits = r.bits /\ w.end = r.end
      /\ w.start = IF r.start = NoIP THEN r.net + 1 ELSE r.start
  BY <1>1, <1>2, <1>3 DEF WithStart, IPRange
<1>5. Size(w) = Size(r) /\ LastIP(w) = r.net + Size(r) - (IF IsV4(r.net) THEN 2 ELSE 1)
  BY <1>4, Zenon DEF Size, LastIP
<1>6. LastIP(w) \in Int
  BY <1>1, <1>5
<1>7. /\ c \in IPRange /\ c.net = r.net /\ c.bits = r.bits /\ c.start = w.start
      /\ c.end = IF r.end = NoIP THEN LastIP(w) ELSE r.end
  BY <1>1, <1>4, <1>6, Zenon DEF WithEnd, Canonical, IPRange
<1>8. Size(c) = Size(r) /\ NetworkIP(c) = r.net
  BY <1>1, <1>7, Zenon DEF Size, NetworkIP
<1>9. /\ w.start \in Int /\ r.net <= w.start /\ w.start < r.net + Size(r)
  <2>1. CASE r.start = NoIP
    BY <1>1, <1>4, <2>1
  <2>2. CASE r.start # NoIP
    <3>1. Contains(r, r.start) /\ r.start \in Int
      BY <1>1, <2>2, Zenon DEF CanonicalOK, IPRange
    <3>2. QED
      BY <1>1, <1>4, <2>2, <3>1, Zenon DEF Contains
  <2>3. QED
    BY <2>1, <2>2, Zenon
<1>10. CASE r.end = NoIP
  <2>1. c.end = r.net + Size(r) - (IF IsV4(r.net) THEN 2 ELSE 1)
    BY <1>5, <1>7, <1>10, Zenon
  <2>2. ~StartsAtBroadcast(r) => ~(IsV4(r.net) /\ w.start = r.net + Size(r) - 1)
    BY <1>1, <1>4, <1>10 DEF StartsAtBroadcast
  <2>3. QED
    BY <1>1, <1>7, <1>8, <1>9, <2>1, <2>2
<1>11. CASE r.end # NoIP
  <2> DEFINE v == WithStart(r)
  <2>1. r.end \in Int /\ Contains(v, r.end)
    BY <1>1, <1>11, Zenon DEF CanonicalOK, IPRange
  <2>2. v \in IPRange /\ v.net = r.net /\ v.bits = r.bits /\ v.start = w.start
    BY <1>1, <1>2, <1>4, Zenon DEF WithStart, IPRange
  <2>3. Size(v) = Size(r) /\ NetworkIP(v) = r.net
    BY <1>1, <2>2, Zenon DEF Size, NetworkIP
  <2>4. w.start # NoIP
    BY <1>9, SizesAssumption, Zenon
  <2>5. /\ IsV4(r.end) = IsV4(r.net) /\ r.net <= r.end /\ r.end < r.net + Size(r)
        /\ ~(Cmp(r.end, w.start) < 0)
    BY <2>1, <2>2, <2>3, <2>4, Zenon DEF Contains
  <2>6. IsV4(w.start) = IsV4(r.net)
    BY <1>1, <1>9, SizesAssumption DEF IsV4, Subnet
  <2>7. w.start <= r.end
    BY <1>9, <2>1, <2>5, <2>6 DEF Cmp
  <2>8. QED
    BY <1>1, <1>7, <1>8, <1>9, <1>11, <2>1, <2>5, <2>7
<1>12. QED
  BY <1>10, <1>11, Zenon

(* A completed range contains what lies between its start and its end.     *)
LEMMA CompletedInterval ==
  ASSUME NEW r, Subnet(r), KeepsFamily(r), CanonicalOK(r)
  PROVE  Interval(Canonical(r))
<1> DEFINE c == Canonical(r)
<1>1. /\ c.net = r.net /\ c.net \in Nat /\ Size(c) = Size(r) /\ Size(c) \in Nat
      /\ NetworkIP(c) = r.net
      /\ c.start \in Int /\ c.end \in Int
      /\ r.net <= c.start /\ c.start < r.net + Size(r)
      /\ r.net <= c.end /\ c.end < r.net + Size(r)
      /\ c.start <= c.end + 1
  BY CompletedEnds, Zenon
<1>2. IsV4(c.net) => c.net + Size(c) <= V4Size
  BY <1>1, Zenon DEF Subnet, CanonicalOK
<1> HIDE DEF c
<1>3. \A x \in Int : c.net <= x /\ x < c.net + Size(c) => IsV4(x) = IsV4(c.net)
  BY <1>1, <1>2, SizesAssumption DEF IsV4
<1>4. IsV4(c.start) = IsV4(c.net) /\ IsV4(c.end) = IsV4(c.net)
  BY <1>1, <1>3, Zenon
<1>5. c.start # NoIP /\ c.end # NoIP
  BY <1>1, SizesAssumption, Zenon
<1>6. ASSUME NEW x \in Int
      PROVE  Contains(c, x) <=> x \in Addresses(c)
  <2>1. CASE IsV4(x) = IsV4(c.net)
    <3>1. ~(Cmp(x, c.start) < 0) <=> c.start <= x
      BY <1>1, <1>4, <2>1 DEF Cmp
    <3>2. ~(Cmp(x, c.end) > 0) <=> x <= c.end
      BY <1>1, <1>4, <2>1 DEF Cmp
    <3>3. QED
      BY <1>1, <1>5, <2>1, <3>1, <3>2 DEF Contains, Addresses
  <2>2. CASE ~(IsV4(x) = IsV4(c.net))
    BY <1>1, <1>3, <2>2 DEF Contains, Addresses
  <2>3. QED
    BY <2>1, <2>2, Zenon
<1>7. Interval(c)
  BY <1>1, <1>4, <1>6 DEF Interval
<1>8. QED
  BY <1>7, Zenon DEF c

(* Overlaps, which looks at the ends only, misses no common address.       *)
LEMMA OverlapsIsComplete ==
  ASSUME NEW c, NEW d, Interval(c), Interval(d), ~Overlaps(c, d)
  PROVE  Addresses(c) \cap Addresses(d) = {}
<1>1. SUFFICES ASSUME NEW x \in Addresses(c), x \in Addresses(d)
               PROVE  FALSE
  BY Zenon
<1>2. /\ c.start \in Int /\ c.end \in Int /\ d.start \in Int /\ d.end \in Int /\ x \in Int
      /\ c.start <= x /\ x <= c.end /\ d.start <= x /\ x <= d.end
  BY <1>1 DEF Interval, Addresses
<1>3. IsV4(c.start) = IsV4(d.start)
  BY <1>2, SizesAssumption DEF Interval, IsV4
<1>4. ~(c.start <= d.start /\ d.start <= c.end) /\ ~(d.start <= c.start /\ c.start <= d.end)
  BY <1>2, <1>3 DEF Overlaps, Interval, Addresses
<1>5. QED
  BY <1>2, <1>4

-----------------------------------------------------------------------------
(* NextIP keeps the family in every range of configuration c.              *)
InFamilies(c) == \A r \in RangesOf(c) : KeepsFamily(r)

(* And no range of c starts at the broadcast address.                      *)
Regular(c) == InFamilies(c) /\ \A r \in RangesOf(c) : ~StartsAtBroadcast(r)

(* A function on 1 .. n is a sequence of length n.                         *)
LEMMA FunctionIsSeq ==
  ASSUME NEW f, NEW n \in Nat, f = [k \in 1 .. n |-> f[k]]
  PROVE  Len(f) = n
<1> DEFINE S == {f[k] : k \in 1 .. n}
<1>1. f \in [1 .. n -> S]
  BY Zenon
<1>2. f \in Seq(S)
  BY <1>1, SeqDef, Zenon
<1>3. Len(f) \in Nat /\ DOMAIN f = 1 .. Len(f)
  BY <1>2, LenProperties, Zenon
<1>4. 1 .. n = 1 .. Len(f)
  BY <1>1, <1>3, Zenon
<1>5. QED
  BY <1>3, <1>4

(* The range sets of an accepted configuration are non-empty lists.        *)
LEMMA LoadedShape ==
  ASSUME NEW c \in Confs, LoadOK(c)
  PROVE  LET L == LoadIPAMConfig(c) IN
         /\ Len(L) \in Nat \ {0} /\ DOMAIN L = 1 .. Len(L) /\ DOMAIN L = DOMAIN AllSets(c)
         /\ \A i \in DOMAIN L :
              /\ Len(L[i]) \in Nat \ {0} /\ DOMAIN L[i] = 1 .. Len(L[i])
              /\ DOMAIN L[i] = DOMAIN AllSets(c)[i]
              /\ \A k \in DOMAIN L[i] : L[i][k] = Canonical(AllSets(c)[i][k])
<1> DEFINE A == AllSets(c)
           L == LoadIPAMConfig(c)
<1>1. A \in Seq(Seq(IPRange))
  BY ConfsAssumption, Zenon
<1> HIDE DEF A
<1>2. Len(A) \in Nat /\ DOMAIN A = 1 .. Len(A) /\ A # <<>>
  BY <1>1, LenProperties, Zenon DEF LoadOK, A
<1>3. Len(A) # 0
  BY <1>1, <1>2, EmptySeq, Zenon
<1>4. L = [i \in DOMAIN A |-> CanonicalSet(A[i])]
  BY Zenon DEF LoadIPAMConfig, A
<1> HIDE DEF L
<1>5. DOMAIN L = DOMAIN A /\ Len(L) = Len(A)
  <2>1. L = [i \in 1 .. Len(A) |-> L[i]]
    BY <1>2, <1>4, Zenon
  <2>2. QED
    BY <1>2, <1>4, <2>1, FunctionIsSeq, Zenon
<1>6. ASSUME NEW i \in DOMAIN L
      PROVE  /\ Len(L[i]) \in Nat \ {0} /\ DOMAIN L[i] = 1 .. Len(L[i])
             /\ DOMAIN L[i] = DOMAIN A[i]
             /\ \A k \in DOMAIN L[i] : L[i][k] = Canonical(A[i][k])
  <2>1. A[i] \in Seq(IPRange) /\ A[i] # <<>> /\ L[i] = CanonicalSet(A[i])
    BY <1>1, <1>2, <1>4, <1>5, ElementOfSeq, Zenon DEF LoadOK, CanonicalSetOK, A, LoadIPAMConfig
  <2>2. Len(A[i]) \in Nat /\ DOMAIN A[i] = 1 .. Len(A[i])
    BY <2>1, LenProperties, Zenon
  <2>3. Len(A[i]) # 0
    BY <2>1, <2>2, EmptySeq, Zenon
  <2>4. L[i] = [k \in DOMAIN A[i] |-> Canonical(A[i][k])]
    BY <2>1, Zenon DEF CanonicalSet
  <2>5. L[i] = [k \in 1 .. Len(A[i]) |-> L[i][k]]
    BY <2>2, <2>4, Zenon
  <2>6. Len(L[i]) = Len(A[i])
    BY <2>2, <2>5, FunctionIsSeq, Zenon
  <2>7. QED
    BY <2>2, <2>3, <2>4, <2>6, Zenon
<1>7. QED
  BY <1>2, <1>3, <1>5, <1>6, Zenon DEF A, L

(* A range of an accepted configuration, before and after completion.      *)
LEMMA LoadedRange ==
  ASSUME NEW c \in Confs, LoadOK(c), InFamilies(c),
         NEW i \in DOMAIN LoadIPAMConfig(c), NEW k \in DOMAIN LoadIPAMConfig(c)[i]
  PROVE  LET r == AllSets(c)[i][k] IN
         /\ r \in RangesOf(c) /\ Subnet(r) /\ KeepsFamily(r) /\ CanonicalOK(r)
         /\ LoadIPAMConfig(c)[i][k] = Canonical(r) /\ Interval(LoadIPAMConfig(c)[i][k])
<1> DEFINE A == AllSets(c)
           L == LoadIPAMConfig(c)
           r == A[i][k]
<1>1. i \in DOMAIN A /\ k \in DOMAIN A[i] /\ L[i][k] = Canonical(r)
  BY LoadedShape, Zenon
<1>2. r \in RangesOf(c)
  BY <1>1 DEF RangesOf
<1>3. r \in IPRange
  <2>1. A \in Seq(Seq(IPRange))
    BY ConfsAssumption, Zenon
  <2>2. A[i] \in Seq(IPRange)
    BY <1>1, <2>1
  <2>3. QED
    BY <1>1, <2>2
<1>4. Subnet(r)
  BY <1>2, <1>3, ConfsAssumption, Zenon DEF Subnet
<1>5. CanonicalOK(r)
  BY <1>1, Zenon DEF LoadOK, CanonicalSetOK
<1>6. QED
  BY <1>1, <1>2, <1>4, <1>5, CompletedInterval, Zenon DEF InFamilies

(* No address belongs to two ranges of an accepted configuration.          *)
LEMMA LoadedDisjoint ==
  ASSUME NEW c \in Confs, LoadOK(c), InFamilies(c),
         NEW i \in DOMAIN LoadIPAMConfig(c), NEW j \in DOMAIN LoadIPAMConfig(c),
         NEW k \in DOMAIN LoadIPAMConfig(c)[i], NEW l \in DOMAIN LoadIPAMConfig(c)[j],
         i # j \/ k # l
  PROVE  Addresses(LoadIPAMConfig(c)[i][k]) \cap Addresses(LoadIPAMConfig(c)[j][l]) = {}
<1> DEFINE L == LoadIPAMConfig(c)
<1>1. Interval(L[i][k]) /\ Interval(L[j][l])
  BY LoadedRange, Zenon
<1>2. i \in Int /\ j \in Int /\ k \in Int /\ l \in Int
  BY LoadedShape
<1>3. \A p, q \in DOMAIN L : p < q => ~SetOverlaps(L[p], L[q])
  BY Zenon DEF LoadOK
<1>4. \A p \in DOMAIN L : \A m, n \in DOMAIN L[p] : m < n => ~Overlaps(L[p][m], L[p][n])
  <2>1. SUFFICES ASSUME NEW p \in DOMAIN L, NEW m \in DOMAIN L[p], NEW n \in DOMAIN L[p], m < n
                 PROVE  ~Overlaps(L[p][m], L[p][n])
    BY Zenon
  <2>2. CanonicalSetOK(AllSets(c)[p]) /\ L[p] = CanonicalSet(AllSets(c)[p])
    BY LoadedShape, Zenon DEF LoadOK, LoadIPAMConfig
  <2>3. DOMAIN L[p] = DOMAIN AllSets(c)[p]
    BY LoadedShape, Zenon
  <2>4. QED
    BY <2>1, <2>2, <2>3, Zenon DEF CanonicalSetOK
<1> HIDE DEF L
<1>5. \/ ~Overlaps(L[i][k], L[j][l]) \/ ~Overlaps(L[j][l], L[i][k])
  <2>1. CASE i < j
    BY <1>3, <2>1, Zenon DEF SetOverlaps, L
  <2>2. CASE j < i
    BY <1>3, <2>2, Zenon DEF SetOverlaps, L
  <2>3. CASE i = j
    BY <1>2, <1>4, <2>3 DEF L
  <2>4. QED
    BY <1>2, <2>1, <2>2, <2>3
<1>6. QED
  BY <1>1, <1>5, OverlapsIsComplete, Zenon DEF L

(* What HostLocal assumes of its range sets: LoadIPAMConfig establishes it *)
(* for the configurations it accepts, U being any set of addresses that    *)
(* holds those of the ranges.                                              *)
THEOREM LoadedSearchable ==
  ASSUME NEW c \in Confs, LoadOK(c), Regular(c), NEW U \in SUBSET Int,
         \A i \in DOMAIN LoadIPAMConfig(c) : \A k \in DOMAIN LoadIPAMConfig(c)[i] :
           Addresses(LoadIPAMConfig(c)[i][k]) \subseteq U
  PROVE  LET L == LoadIPAMConfig(c) IN
         /\ Len(L) \in Nat \ {0} /\ DOMAIN L = 1 .. Len(L)
         /\ \A i \in DOMAIN L :
              /\ Searchable(L[i], U)
              /\ \A x \in Int : SetContains(L[i], x) => x \in U
              /\ \A j \in DOMAIN L, x \in U : SetContains(L[i], x) /\ SetContains(L[j], x) => i = j
<1> DEFINE L == LoadIPAMConfig(c)
<1>1. InFamilies(c) /\ \A r \in RangesOf(c) : ~StartsAtBroadcast(r)
  BY Zenon DEF Regular
<1>2. /\ Len(L) \in Nat \ {0} /\ DOMAIN L = 1 .. Len(L)
      /\ \A i \in DOMAIN L : Len(L[i]) \in Nat \ {0} /\ DOMAIN L[i] = 1 .. Len(L[i])
  BY LoadedShape, Zenon
<1>3. ASSUME NEW i \in DOMAIN L, NEW k \in DOMAIN L[i]
      PROVE  /\ L[i][k].start \in U /\ Contains(L[i][k], L[i][k].start)
             /\ L[i][k].end \in U /\ Contains(L[i][k], L[i][k].end)
             /\ \A x \in U : Contains(L[i][k], x) /\ x # L[i][k].end =>
                                NextIP(x) \in U /\ Contains(L[i][k], NextIP(x))
  <2> DEFINE r == AllSets(c)[i][k]
             d == L[i][k]
  <2>1. /\ Subnet(r) /\ KeepsFamily(r) /\ CanonicalOK(r) /\ ~StartsAtBroadcast(r)
        /\ d = Canonical(r) /\ Interval(d)
    BY <1>1, LoadedRange, Zenon
  <2>2. /\ d.start \in Int /\ d.end \in Int /\ d.start <= d.end
        /\ r.net \in Int /\ Size(r) \in Int /\ r.net <= d.start /\ d.end < r.net + Size(r)
    BY <2>1, CompletedEnds
  <2>3. \A x \in Int : Contains(d, x) <=> x \in Addresses(d)
    BY <2>1, Zenon DEF Interval
  <2>4. Addresses(d) \subseteq U /\ Addresses(d) = d.start .. d.end
    BY Zenon DEF Addresses
  <2> HIDE DEF d, r
  <2>5. d.start \in Addresses(d) /\ d.end \in Addresses(d)
    BY <2>2, <2>4
  <2>6. ASSUME NEW x \in U, Contains(d, x), x # d.end
        PROVE  NextIP(x) \in Addresses(d)
    <3>1. x \in Int /\ x \in d.start .. d.end
      BY <2>3, <2>4, <2>6, Zenon
    <3>2. x \in r.net .. (r.net + Size(r) - 2)
      BY <2>2, <2>6, <3>1
    <3>3. NextIP(x) = x + 1
      BY <2>1, <3>2, Zenon DEF KeepsFamily
    <3>4. QED
      BY <2>2, <2>4, <2>6, <3>1, <3>3
  <2>7. d.start \in U /\ Contains(d, d.start) /\ d.end \in U /\ Contains(d, d.end)
    BY <2>3, <2>4, <2>5, Zenon
  <2>8. \A x \in U : Contains(d, x) /\ x # d.end => NextIP(x) \in U /\ Contains(d, NextIP(x))
    BY <2>3, <2>4, <2>6, Zenon
  <2>9. QED
    BY <2>7, <2>8, Zenon DEF d
<1>4. ASSUME NEW i \in DOMAIN L, NEW j \in DOMAIN L, NEW k \in DOMAIN L[i], NEW l \in DOMAIN L[j],
             NEW x \in Int, Contains(L[i][k], x), Contains(L[j][l], x)
      PROVE  i = j /\ k = l /\ x \in U
  <2>1. Interval(L[i][k]) /\ Interval(L[j][l])
    BY <1>1, LoadedRange, Zenon
  <2>2. x \in Addresses(L[i][k]) /\ x \in Addresses(L[j][l])
    BY <1>4, <2>1, Zenon DEF Interval
  <2>3. i = j /\ k = l
    BY <1>1, <2>2, LoadedDisjoint, Zenon
  <2>4. QED
    BY <2>2, <2>3, Zenon
<1> HIDE DEF L
<1>5. \A i \in DOMAIN L : Searchable(L[i], U)
  BY <1>2, <1>3, <1>4, Zenon DEF Searchable
<1>6. \A i, j \in DOMAIN L, x \in Int :
        /\ SetContains(L[i], x) => x \in U
        /\ SetContains(L[i], x) /\ SetContains(L[j], x) => i = j
  BY <1>4, Zenon DEF SetContains
<1>7. QED
  BY <1>2, <1>5, <1>6, Zenon DEF L

-----------------------------------------------------------------------------
(* The configuration stays, and what is kept of it is what LoadIPAMConfig  *)
(* made of it.                                                             *)
LoadInv ==
  /\ conf \in Confs
  /\ phase \in {"load", "rejected", "loaded", "scan", "done"}
  /\ IF phase \in {"load", "rejected"} THEN sets = <<>>
     ELSE LoadOK(conf) /\ sets = LoadIPAMConfig(conf)

(* The iterator stands in a range of the set and started in the set.       *)
IterInv ==
  /\ it \in [idx : Nat, cur : Int \cup {NoIP}, start : Int \cup {NoIP}]
  /\ it.idx \in DOMAIN s
  /\ it.cur # NoIP => Contains(s[it.idx], it.cur)
  /\ it.cur # NoIP /\ it.start # NoIP => it.start \in Members(s, Int)

(* The addresses the iterator has gone through since its start.            *)
Gone ==
  IF it.cur # NoIP /\ it.start # NoIP THEN Seen(s, Int, it.start, it.cur) ELSE {}

(* What has been proposed is what the iterator has gone through, without   *)
(* the gateways, each address once.                                        *)
VisitInv ==
  /\ visited \in Seq(Int)
  /\ {visited[n] : n \in DOMAIN visited} = {x \in Gone : x # s[RangeFor(s, x)].gateway}
  /\ ScanVisitsOnce

ScanInv ==
  IF phase \in {"scan", "done"}
  THEN /\ \E i \in DOMAIN sets : s = sets[i]
       /\ IterInv /\ VisitInv
       /\ phase = "done" => BackAtStart(s, it)
  ELSE visited = <<>>

(* The range set that is searched can be searched.                         *)
LEMMA ScannedSet ==
  ASSUME LoadInv, Regular(conf), phase \in {"loaded", "scan", "done"}
  PROVE  \A i \in DOMAIN sets :
           /\ Searchable(sets[i], Int)
           /\ \A k \in DOMAIN sets[i] : \A x \in Int :
                Contains(sets[i][k], x) <=> x \in Addresses(sets[i][k])
<1>1. conf \in Confs /\ LoadOK(conf) /\ sets = LoadIPAMConfig(conf) /\ InFamilies(conf)
  BY Zenon DEF LoadInv, Regular
<1>2. \A i \in DOMAIN sets : \A k \in DOMAIN sets[i] : Interval(sets[i][k])
  BY <1>1, LoadedRange, Zenon
<1>3. \A i \in DOMAIN sets : \A k \in DOMAIN sets[i] : Addresses(sets[i][k]) \subseteq Int
  BY <1>2 DEF Interval, Addresses
<1>4. \A i \in DOMAIN sets : Searchable(sets[i], Int)
  <2>1. Int \in SUBSET Int
    BY Zenon
  <2>2. QED
    BY <1>1, <1>3, <2>1, LoadedSearchable, Zenon
<1>5. QED
  BY <1>2, <1>4, Zenon DEF Interval

(* One round of RangeIter.Next: the address it reaches is one it has not   *)
(* gone through, and its range is the one the iterator stands in.          *)
LEMMA NextRound ==
  ASSUME Searchable(s, Int), IterInv, ~BackAtStart(s, it), it' = Advance(s, it), s' = s
  PROVE  /\ IterInv' /\ it'.cur \in Int /\ it'.idx = RangeFor(s, it'.cur)
         /\ Gone' = Gone \cup {it'.cur} /\ it'.cur \notin Gone
<1> DEFINE n == Advance(s, it)
<1>1. /\ it \in [idx : Nat, cur : Int \cup {NoIP}, start : Int \cup {NoIP}]
      /\ it.idx \in DOMAIN s
      /\ it.cur # NoIP => Contains(s[it.idx], it.cur)
  BY Zenon DEF IterInv
<1>2. /\ n \in [idx : Nat, cur : Int \cup {NoIP}, start : Int \cup {NoIP}]
      /\ n.idx \in DOMAIN s /\ n.cur \in Int /\ Contains(s[n.idx], n.cur)
  BY <1>1, AdvanceOK, Zenon
<1>3. n.cur \in Members(s, Int) /\ n.cur # NoIP
  BY <1>2, SizesAssumption, Zenon DEF Members, SetContains
<1>4. n.idx = RangeFor(s, n.cur)
  BY <1>2, <1>3, AddressRange, Zenon
<1>5. IF it.cur # NoIP /\ it.start # NoIP THEN n.start = it.start ELSE n.start = n.cur
  BY <1>1, Zenon DEF Advance
<1>6. n.start \in Members(s, Int) /\ n.start # NoIP
  <2>1. n.start \in Members(s, Int)
    BY <1>3, <1>5, Zenon DEF IterInv
  <2>2. QED
    BY <2>1, SizesAssumption, Zenon DEF Members
<1>7. Gone' = Seen(s, Int, n.start, n.cur)
  BY <1>3, <1>6, Zenon DEF Gone
<1>8. Gone' = Gone \cup {n.cur} /\ n.cur \notin Gone
  <2>1. CASE it.cur # NoIP /\ it.start # NoIP
    <3>1. it.cur \in Members(s, Int) /\ Follows(s, Int, it.cur, n.cur)
      BY <1>1, <2>1, AdvanceFollows, Zenon
    <3>2. n.cur # it.start
      BY <2>1, Zenon DEF BackAtStart
    <3>3. /\ Seen(s, Int, n.start, n.cur) = Seen(s, Int, n.start, it.cur) \cup {n.cur}
          /\ n.cur \notin Seen(s, Int, n.start, it.cur)
      BY <1>3, <1>5, <1>6, <2>1, <3>1, <3>2, SeenOneMore, Zenon
    <3>4. QED
      BY <1>5, <1>7, <2>1, <3>3, Zenon DEF Gone
  <2>2. CASE ~(it.cur # NoIP /\ it.start # NoIP)
    <3>1. Seen(s, Int, n.cur, n.cur) = {n.cur}
      BY <1>3, SeenFirst, Zenon
    <3>2. QED
      BY <1>5, <1>7, <2>2, <3>1, Zenon DEF Gone
  <2>3. QED
    BY <2>1, <2>2, Zenon
<1>9. IterInv'
  BY <1>2, <1>6, Zenon DEF IterInv
<1>10. QED
  BY <1>2, <1>4, <1>8, <1>9, Zenon

(* A step of the search keeps the record of what has been proposed.        *)
LEMMA VisitKeeps ==
  ASSUME Searchable(s, Int), IterInv, VisitInv, Visit
  PROVE  IterInv' /\ VisitInv'
<1>1. /\ ~BackAtStart(s, it) /\ it' = Advance(s, it) /\ s' = s
      /\ visited' = IF AtGateway(s, it') THEN visited ELSE Append(visited, it'.cur)
  BY Zenon DEF Visit
<1>2. /\ IterInv' /\ it'.cur \in Int /\ it'.idx = RangeFor(s, it'.cur)
      /\ Gone' = Gone \cup {it'.cur} /\ it'.cur \notin Gone
  BY <1>1, NextRound, Zenon
<1> DEFINE V == {visited[n] : n \in DOMAIN visited}
           Kept(x) == x # s[RangeFor(s, x)].gateway
<1>3. visited \in Seq(Int) /\ V = {x \in Gone : Kept(x)} /\ ScanVisitsOnce
  BY Zenon DEF VisitInv
<1>4. CASE AtGateway(s, it')
  <2>1. visited' = visited /\ ~Kept(it'.cur)
    BY <1>1, <1>2, <1>4, Zenon DEF AtGateway
  <2>2. {visited[n] : n \in DOMAIN visited} = {x \in Gone' : x # s[RangeFor(s, x)].gateway}
    BY <1>2, <1>3, <2>1, Zenon
  <2>3. QED
    BY <1>1, <1>2, <1>3, <2>1, <2>2, SMTT(30) DEF VisitInv, ScanVisitsOnce
<1>5. CASE ~AtGateway(s, it')
  <2> DEFINE y == it'.cur
  <2>1. visited' = Append(visited, y) /\ Kept(y)
    BY <1>1, <1>2, <1>5, Zenon DEF AtGateway
  <2>2. Len(visited) \in Nat /\ DOMAIN visited = 1 .. Len(visited)
    BY <1>3, LenProperties, Zenon
  <2>3. /\ visited' \in Seq(Int) /\ DOMAIN visited' = 1 .. (Len(visited) + 1)
        /\ visited'[Len(visited) + 1] = y
        /\ \A n \in DOMAIN visited : visited'[n] = visited[n]
    <3> HIDE DEF y
    <3>1. y \in Int
      BY <1>2, Zenon DEF y
    <3>2. /\ visited' \in Seq(Int) /\ Len(visited') = Len(visited) + 1
          /\ \A n \in 1 .. Len(visited) : visited'[n] = visited[n]
          /\ visited'[Len(visited) + 1] = y
      BY <1>3, <2>1, <3>1, AppendProperties
    <3>3. DOMAIN visited' = 1 .. Len(visited')
      BY <3>2, LenProperties, Zenon
    <3>4. QED
      BY <2>2, <3>2, <3>3, Zenon
  <2>4. y \notin V
    BY <1>2, <1>3, Zenon
  <2>5. {visited'[n] : n \in DOMAIN visited'} = V \cup {y}
    <3>1. DOMAIN visited' = DOMAIN visited \cup {Len(visited) + 1}
      BY <2>2, <2>3
    <3>2. QED
      BY <2>3, <3>1, Zenon
  <2>6. {visited'[n] : n \in DOMAIN visited'} = {x \in Gone' : x # s[RangeFor(s, x)].gateway}
    BY <1>2, <1>3, <2>1, <2>5, Zenon
  <2>7. \A m, n \in DOMAIN visited' : m # n => visited'[m] # visited'[n]
    <3>1. \A n \in DOMAIN visited : visited[n] # y
      BY <2>4, Zenon
    <3>2. \A m, n \in DOMAIN visited : m # n => visited[m] # visited[n]
      BY <1>3, Zenon DEF ScanVisitsOnce
    <3>3. \A n \in DOMAIN visited' : n \in DOMAIN visited \/ n = Len(visited) + 1
      BY <2>2, <2>3
    <3>4. QED
      <4> HIDE DEF y
      <4>1. QED
        BY <2>3, <3>1, <3>2, <3>3, Zenon
  <2>8. QED
    BY <1>1, <1>2, <2>3, <2>6, <2>7, Zenon DEF VisitInv, ScanVisitsOnce
<1>6. QED
  BY <1>4, <1>5, Zenon

-----------------------------------------------------------------------------
(* Every step keeps the configuration and what was made of it.             *)
LEMMA NextLoadInv ==
  ASSUME LoadInv, [Next]_vars
  PROVE  LoadInv' /\ conf' = conf
<1>1. CASE Load
  BY <1>1, Zenon DEF LoadInv, Load
<1>2. CASE Open
  BY <1>2, Zenon DEF LoadInv, Open
<1>3. CASE Visit
  BY <1>3, Zenon DEF LoadInv, Visit
<1>4. CASE GiveUp
  BY <1>4, Zenon DEF LoadInv, GiveUp
<1>5. CASE UNCHANGED vars
  BY <1>5, Zenon DEF LoadInv, vars
<1>6. QED
  BY <1>1, <1>2, <1>3, <1>4, <1>5, Zenon DEF Next

(* Every step keeps the search in order.                                   *)
LEMMA NextScanInv ==
  ASSUME LoadInv, Regular(conf), ScanInv, [Next]_vars
  PROVE  ScanInv'
<1>1. CASE Load
  BY <1>1, Zenon DEF ScanInv, Load
<1>2. CASE Open
  <2>1. PICK i \in DOMAIN sets, last \in LastIPs : s' = sets[i] /\ it' = GetIter(sets[i], last)
    BY <1>2, Zenon DEF Open
  <2>2. phase = "loaded" /\ phase' = "scan" /\ sets' = sets /\ visited' = visited
    BY <1>2, Zenon DEF Open
  <2>3. Searchable(sets[i], Int)
    BY <2>2, ScannedSet, Zenon
  <2>4. last \in Int \cup {NoIP}
    BY BoundsAssumption, Zenon
  <2>5. /\ it' \in [idx : Nat, cur : Int \cup {NoIP}, start : Int \cup {NoIP}]
        /\ it'.idx \in DOMAIN s' /\ (it'.cur # NoIP => Contains(s'[it'.idx], it'.cur))
    BY <2>1, <2>3, <2>4, GetIterOK, Zenon
  <2>6. it'.cur = NoIP \/ it'.start = NoIP
    BY <2>1, Zenon DEF GetIter
  <2>7. IterInv' /\ Gone' = {}
    BY <2>5, <2>6, Zenon DEF IterInv, Gone
  <2>8. VisitInv'
    <3>1. visited' = <<>>
      BY <2>2, Zenon DEF ScanInv
    <3>2. QED
      BY <2>7, <3>1 DEF VisitInv, ScanVisitsOnce
  <2>9. QED
    BY <2>1, <2>2, <2>7, <2>8, Zenon DEF ScanInv
<1>3. CASE Visit
  <2>1. phase = "scan" /\ phase' = phase /\ sets' = sets /\ s' = s
    BY <1>3, Zenon DEF Visit
  <2>2. PICK i \in DOMAIN sets : s = sets[i]
    BY <2>1, Zenon DEF ScanInv
  <2>3. Searchable(s, Int)
    BY <2>1, <2>2, ScannedSet, Zenon
  <2>4. IterInv /\ VisitInv
    BY <2>1, Zenon DEF ScanInv
  <2>5. IterInv' /\ VisitInv'
    BY <1>3, <2>3, <2>4, VisitKeeps, Zenon
  <2>6. QED
    BY <2>1, <2>2, <2>5, Zenon DEF ScanInv
<1>4. CASE GiveUp \/ UNCHANGED vars
  <2>1. sets' = sets /\ s' = s /\ it' = it /\ visited' = visited
    BY <1>4, Zenon DEF GiveUp, vars
  <2>2. phase' = phase \/ (phase = "scan" /\ phase' = "done" /\ BackAtStart(s, it))
    BY <1>4, Zenon DEF GiveUp, vars
  <2>3. IterInv => IterInv'
    BY <2>1, Zenon DEF IterInv
  <2>4. Gone' = Gone
    BY <2>1, Zenon DEF Gone
  <2>5. VisitInv => VisitInv'
    BY <2>1, <2>4 DEF VisitInv, ScanVisitsOnce
  <2>6. BackAtStart(s, it)' = BackAtStart(s, it)
    BY <2>1, Zenon DEF BackAtStart
  <2>7. QED
    BY <2>1, <2>2, <2>3, <2>5, <2>6, Zenon DEF ScanInv
<1>5. QED
  BY <1>1, <1>2, <1>3, <1>4, Zenon DEF Next

-----------------------------------------------------------------------------
(* The configuration is one of those that may be written, and the range    *)
(* sets are what LoadIPAMConfig made of it, in every reachable state.      *)
LEMMA Loading == Spec => []LoadInv
<1>1. Init => LoadInv
  BY Zenon DEF Init, LoadInv
<1>2. LoadInv /\ [Next]_vars => LoadInv'
  BY NextLoadInv, Zenon
<1>3. QED
  BY <1>1, <1>2, PTL DEF Spec

(* What is kept of a configuration whose subnets NextIP does not leave.    *)
LEMMA KeptInFamilies == Spec /\ InFamilies(conf) => []InFamilies(conf)
<1>1. InFamilies(conf) /\ LoadInv /\ [Next]_vars => InFamilies(conf)'
  BY NextLoadInv, Zenon DEF InFamilies
<1>2. QED
  BY <1>1, Loading, PTL DEF Spec

(* AcceptedRangesDisjoint, for every configuration with subnets NextIP     *)
(* does not leave, those with a range at the broadcast address included.   *)
THEOREM RangesDisjoint == Spec /\ InFamilies(conf) => []AcceptedRangesDisjoint
<1>1. LoadInv /\ InFamilies(conf) => AcceptedRangesDisjoint
  <2>1. SUFFICES ASSUME LoadInv, InFamilies(conf), NEW p \in AllRanges, NEW q \in AllRanges,
                        p # q
                 PROVE  Addresses(RangeAt(p)) \cap Addresses(RangeAt(q)) = {}
    BY Zenon DEF AcceptedRangesDisjoint
  <2>2. PICK i \in DOMAIN sets : \E k \in DOMAIN sets[i] : p = <<i, k>>
    BY Zenon DEF AllRanges
  <2>3. PICK k \in DOMAIN sets[i] : p = <<i, k>>
    BY <2>2, Zenon
  <2>4. PICK j \in DOMAIN sets : \E l \in DOMAIN sets[j] : q = <<j, l>>
    BY Zenon DEF AllRanges
  <2>5. PICK l \in DOMAIN sets[j] : q = <<j, l>>
    BY <2>4, Zenon
  <2>6. conf \in Confs /\ LoadOK(conf) /\ sets = LoadIPAMConfig(conf)
    <3>1. sets # <<>>
      BY <2>2
    <3>2. QED
      BY <2>1, <3>1, Zenon DEF LoadInv
  <2>7. i # j \/ k # l
    BY <2>1, <2>3, <2>5, Zenon
  <2>8. QED
    BY <2>1, <2>3, <2>5, <2>6, <2>7, LoadedDisjoint, Zenon DEF RangeAt
<1>2. QED
  BY <1>1, Loading, KeptInFamilies, PTL

(* The inductive invariant of a search, for every configuration whose      *)
(* subnets NextIP does not leave and whose ranges do not start at the      *)
(* broadcast address.                                                      *)
THEOREM Searching == Spec /\ Regular(conf) => [](LoadInv /\ Regular(conf) /\ ScanInv)
<1>1. Init => LoadInv /\ ScanInv
  BY Zenon DEF Init, LoadInv, ScanInv
<1>2. LoadInv /\ Regular(conf) /\ ScanInv /\ [Next]_vars
        => LoadInv' /\ Regular(conf)' /\ ScanInv'
  <2>1. SUFFICES ASSUME LoadInv, Regular(conf), ScanInv, [Next]_vars
                 PROVE  LoadInv' /\ Regular(conf)' /\ ScanInv'
    BY Zenon
  <2>2. LoadInv' /\ conf' = conf
    BY <2>1, NextLoadInv, Zenon
  <2>3. Regular(conf)'
    BY <2>1, <2>2, Zenon DEF Regular, InFamilies
  <2>4. QED
    BY <2>1, <2>2, <2>3, NextScanInv, Zenon
<1>3. QED
  BY <1>1, <1>2, PTL DEF Spec

(* ScanVisitsOnce: RangeIter.Next proposes no address twice.               *)
THEOREM ProposesOnce == Spec /\ Regular(conf) => []ScanVisitsOnce
<1>1. ScanInv => ScanVisitsOnce
  BY DEF ScanInv, VisitInv, ScanVisitsOnce
<1>2. QED
  BY <1>1, Searching, PTL

(* ScanExhaustive: an iterator that gives up has proposed every address    *)
(* that may be handed out, wherever last_reserved_ip made it start.        *)
THEOREM GivesUpExhausted == Spec /\ Regular(conf) => []ScanExhaustive
<1>1. LoadInv /\ Regular(conf) /\ ScanInv => ScanExhaustive
  <2>1. SUFFICES ASSUME LoadInv, Regular(conf), ScanInv, phase = "done"
                 PROVE  {visited[n] : n \in DOMAIN visited} = Allocatable(s)
    BY Zenon DEF ScanExhaustive
  <2>2. PICK i \in DOMAIN sets : s = sets[i]
    BY <2>1, Zenon DEF ScanInv
  <2>3. /\ Searchable(s, Int)
        /\ \A k \in DOMAIN s : \A x \in Int : Contains(s[k], x) <=> x \in Addresses(s[k])
    BY <2>1, <2>2, ScannedSet, Zenon
  <2>4. IterInv /\ VisitInv /\ BackAtStart(s, it)
    BY <2>1, Zenon DEF ScanInv
  <2>5. it.cur # NoIP /\ it.start # NoIP /\ Advance(s, it).cur = it.start
    BY <2>4, Zenon DEF BackAtStart
  <2>6. it.start \in Members(s, Int)
    BY <2>4, <2>5, Zenon DEF IterInv
  <2>7. it.cur \in Members(s, Int) /\ Follows(s, Int, it.cur, it.start)
    <3>1. /\ it \in [idx : Nat, cur : Int \cup {NoIP}, start : Int \cup {NoIP}]
          /\ it.idx \in DOMAIN s /\ Contains(s[it.idx], it.cur)
      BY <2>4, <2>5, Zenon DEF IterInv
    <3>2. QED
      BY <2>3, <2>5, <3>1, AdvanceFollows, Zenon
  <2>8. Gone = Members(s, Int)
    BY <2>3, <2>5, <2>6, <2>7, SeenAll, Zenon DEF Gone
  <2>9. {visited[n] : n \in DOMAIN visited}
          = {x \in Members(s, Int) : x # s[RangeFor(s, x)].gateway}
    BY <2>4, <2>8, Zenon DEF VisitInv
  <2>10. ASSUME NEW x
         PROVE  x \in Members(s, Int) /\ x # s[RangeFor(s, x)].gateway <=> x \in Allocatable(s)
    <3>1. ASSUME x \in Members(s, Int), x # s[RangeFor(s, x)].gateway
          PROVE  x \in Allocatable(s)
      <4>1. x \in Int /\ RangeFor(s, x) \in DOMAIN s /\ Contains(s[RangeFor(s, x)], x)
        BY <2>3, <3>1, AddressRange, Zenon
      <4>2. QED
        BY <2>3, <3>1, <4>1 DEF Allocatable
    <3>2. ASSUME x \in Allocatable(s)
          PROVE  x \in Members(s, Int) /\ x # s[RangeFor(s, x)].gateway
      <4>1. PICK k \in DOMAIN s : x \in Addresses(s[k]) /\ x # s[k].gateway
        BY <3>2, Zenon DEF Allocatable
      <4>2. x \in Int
        <5>1. s[k].start \in Int /\ s[k].end \in Int
          BY <2>3, Zenon DEF Searchable
        <5>2. QED
          BY <4>1, <5>1 DEF Addresses
      <4>3. x \in Members(s, Int) /\ Contains(s[k], x)
        BY <2>3, <4>1, <4>2, Zenon DEF Members, SetContains
      <4>4. k = RangeFor(s, x)
        BY <2>3, <4>3, AddressRange, Zenon
      <4>5. QED
        BY <4>1, <4>3, <4>4, Zenon
    <3>3. QED
      BY <3>1, <3>2, Zenon
  <2>11. QED
    BY <2>9, <2>10, Zenon
<1>2. QED
  BY <1>1, Searching, PTL

(* ScanStaysInSubnets: but for ranges that start at the broadcast address, *)
(* the iterator proposes addresses of its subnets only.                    *)
THEOREM StaysInSubnets == Spec /\ Regular(conf) => []ScanStaysInSubnets
<1>1. LoadInv /\ Regular(conf) /\ ScanInv => ScanStaysInSubnets
  <2>1. SUFFICES ASSUME LoadInv, Regular(conf), ScanInv, NEW n \in DOMAIN visited
                 PROVE  \E k \in DOMAIN s : NetworkIP(s[k]) <= visited[n]
                                            /\ visited[n] < NetworkIP(s[k]) + Size(s[k])
    BY Zenon DEF ScanStaysInSubnets
  <2>2. phase \in {"scan", "done"}
    <3>1. visited # <<>>
      BY <2>1
    <3>2. QED
      BY <2>1, <3>1, Zenon DEF ScanInv
  <2>3. VisitInv
    BY <2>1, <2>2, Zenon DEF ScanInv
  <2>4. visited[n] \in Members(s, Int)
    BY <2>3 DEF VisitInv, Gone, Seen
  <2>5. PICK k \in DOMAIN s : Contains(s[k], visited[n])
    BY <2>4, Zenon DEF Members, SetContains
  <2>6. QED
    BY <2>5, Zenon DEF Contains
<1>2. QED
  BY <1>1, Searching, PTL
=============================================================================
