--------------------------- MODULE Ranges_proofs ---------------------------
(***************************************************************************)
(* Searches through a range set: what the proofs about HostLocal and those *)
(* about RangeScan use of the range operators.  Before orders the          *)
(* addresses of a range set by range and then by value; RangeIter.Next     *)
(* follows that order and goes on from the last address to the first.      *)
(***************************************************************************)
EXTENDS Ranges, WellFoundedInduction, TLAPS

(* A set of naturals that is not empty has a least element: RangeFor's     *)
(* first matching range exists.                                            *)
LEMMA SmallestNat ==
  ASSUME NEW T \in SUBSET Nat, T # {}
  PROVE  \E x \in T : \A y \in T : x <= y
<1> DEFINE Less == {p \in Nat \X Nat : p[1] < p[2]}
<1>1. IsWellFoundedOn(Less, Nat)
  BY NatLessThanWellFounded, Zenon DEF OpToRel
<1> HIDE DEF Less
<1>2. PICK x \in T : \A y \in T : ~(<<y, x>> \in Less)
  BY <1>1, WFMin, Zenon
<1>3. \A y \in T : x <= y
  <2>1. SUFFICES ASSUME NEW y \in T, ~(x <= y)
                 PROVE  <<y, x>> \in Less
    BY <1>2, Zenon
  <2>2. y \in Nat /\ x \in Nat /\ y < x
    BY <2>1
  <2>3. QED
    BY <2>2, Zenon DEF Less
<1>4. QED
  BY <1>3, Zenon

(* RangeFor returns a range of the set that contains the address.          *)
LEMMA RangeForContains ==
  ASSUME NEW s, NEW x, NEW n \in Nat, DOMAIN s = 1 .. n, SetContains(s, x)
  PROVE  RangeFor(s, x) \in DOMAIN s /\ Contains(s[RangeFor(s, x)], x)
<1> DEFINE T == {k \in DOMAIN s : Contains(s[k], x)}
<1>1. T \in SUBSET Nat /\ T # {}
  BY DEF SetContains
<1>2. PICK k \in T : \A j \in T : k <= j
  BY <1>1, SmallestNat, Zenon
<1>3. \E m \in DOMAIN s : Contains(s[m], x) /\ \A j \in DOMAIN s : Contains(s[j], x) => m <= j
  BY <1>2, Zenon
<1>4. QED
  BY <1>3, Zenon DEF RangeFor

(* Going on to the next range of a set, and from its last to its first,    *)
(* stays in the set.                                                       *)
LEMMA WrapInRange ==
  ASSUME NEW n \in Nat \ {0}, NEW k \in 1 .. n
  PROVE  (k % n) + 1 \in 1 .. n
  OBVIOUS

(* GetIter opens the iterator in the range set.                            *)
LEMMA GetIterOK ==
  ASSUME NEW s, NEW U, Searchable(s, U),
         NEW l \in U \cup {NoIP}
  PROVE  LET t == GetIter(s, l) IN
         /\ t \in [idx : Nat, cur : U \cup {NoIP}, start : U \cup {NoIP}]
         /\ t.idx \in DOMAIN s
         /\ t.cur # NoIP => Contains(s[t.idx], t.cur)
<1>1. /\ Len(s) \in Nat \ {0} /\ DOMAIN s = 1 .. Len(s)
      /\ \A k \in DOMAIN s : s[k].start \in U
  BY Zenon DEF Searchable
<1>2. 1 \in DOMAIN s
  BY <1>1
<1>3. SetContains(s, l) =>
        RangeFor(s, l) \in DOMAIN s /\ Contains(s[RangeFor(s, l)], l)
  BY <1>1, RangeForContains, Zenon
<1>4. QED
  BY <1>1, <1>2, <1>3 DEF GetIter

(* Advance moves the iterator to an address of the range set.              *)
LEMMA AdvanceOK ==
  ASSUME NEW s, NEW U, Searchable(s, U),
         NEW t \in [idx : Nat, cur : U \cup {NoIP}, start : U \cup {NoIP}],
         t.idx \in DOMAIN s,
         t.cur # NoIP => Contains(s[t.idx], t.cur)
  PROVE  LET n == Advance(s, t) IN
         /\ n \in [idx : Nat, cur : U \cup {NoIP}, start : U \cup {NoIP}]
         /\ n.idx \in DOMAIN s
         /\ n.cur \in U /\ Contains(s[n.idx], n.cur)
<1>1. /\ Len(s) \in Nat \ {0} /\ DOMAIN s = 1 .. Len(s)
      /\ \A k \in DOMAIN s :
           /\ s[k].start \in U /\ Contains(s[k], s[k].start)
           /\ \A x \in U : Contains(s[k], x) /\ x # s[k].end =>
                               NextIP(x) \in U /\ Contains(s[k], NextIP(x))
  BY Zenon DEF Searchable
<1>2. (t.idx % Len(s)) + 1 \in DOMAIN s
  BY <1>1, WrapInRange, Zenon
<1>3. CASE t.cur = NoIP
  BY <1>1, <1>3, Zenon DEF Advance
<1>4. CASE t.cur # NoIP /\ t.cur = s[t.idx].end
  BY <1>1, <1>2, <1>4 DEF Advance
<1>5. CASE t.cur # NoIP /\ t.cur # s[t.idx].end
  BY <1>1, <1>5, Zenon DEF Advance
<1>6. QED
  BY <1>3, <1>4, <1>5, Zenon

-----------------------------------------------------------------------------
(* The addresses of range set s among those of U.                          *)
Members(s, U) == {x \in U : SetContains(s, x)}

(* n comes right after x: nothing lies between them or, when the order     *)
(* ends at x, it begins at n.                                              *)
Follows(s, U, x, n) ==
  \/ /\ Before(s, x, n)
     /\ \A z \in Members(s, U) : ~(Before(s, x, z) /\ Before(s, z, n))
  \/ \A z \in Members(s, U) : ~Before(s, x, z) /\ ~Before(s, z, n)

(* The addresses from x to y, both included, going round.                  *)
Seen(s, U, x, y) ==
  {z \in Members(s, U) :
     IF Before(s, y, x)
     THEN ~Before(s, z, x) \/ ~Before(s, y, z)
     ELSE ~Before(s, z, x) /\ ~Before(s, y, z)}

(* The range of an address, and its place in it.                           *)
LEMMA AddressRange ==
  ASSUME NEW s, NEW U, Searchable(s, U),
         NEW x \in Members(s, U)
  PROVE  /\ x \in Int /\ RangeFor(s, x) \in DOMAIN s
         /\ Contains(s[RangeFor(s, x)], x)
         /\ \A k \in DOMAIN s : Contains(s[k], x) => k = RangeFor(s, x)
<1>1. x \in U /\ x \in Int /\ SetContains(s, x)
  BY Zenon DEF Members, Searchable
<1>2. /\ Len(s) \in Nat \ {0} /\ DOMAIN s = 1 .. Len(s)
      /\ \A j, k \in DOMAIN s :
           Contains(s[j], x) /\ Contains(s[k], x) => j = k
  BY <1>1, Zenon DEF Searchable
<1>3. RangeFor(s, x) \in DOMAIN s /\ Contains(s[RangeFor(s, x)], x)
  BY <1>1, <1>2, RangeForContains, Zenon
<1>4. QED
  BY <1>1, <1>2, <1>3, Zenon DEF Searchable

(* Before is a strict total order on the addresses of a range set.         *)
LEMMA BeforeOrder ==
  ASSUME NEW s, NEW U, Searchable(s, U)
  PROVE  /\ \A x \in Members(s, U) : ~Before(s, x, x)
         /\ \A x, y \in Members(s, U) :
              x = y \/ Before(s, x, y) \/ Before(s, y, x)
         /\ \A x, y, z \in Members(s, U) :
              Before(s, x, y) /\ Before(s, y, z) => Before(s, x, z)
<1>1. \A x \in Members(s, U) : x \in Int /\ RangeFor(s, x) \in Int
  <2>1. DOMAIN s \subseteq Int
    BY DEF Searchable
  <2>2. QED
    BY <2>1, AddressRange, Zenon
<1>2. QED
  BY <1>1 DEF Before

(* A range holds the addresses of its family from its start to its end.    *)
LEMMA InsideRange ==
  ASSUME NEW s, NEW U, Searchable(s, U),
         NEW k \in DOMAIN s, NEW x \in U, Contains(s[k], x)
  PROVE  /\ s[k].start \in Int /\ s[k].end \in Int
         /\ s[k].start <= x /\ x <= s[k].end
<1>1. /\ s[k].start \in U /\ Contains(s[k], s[k].start)
      /\ s[k].end \in U /\ Contains(s[k], s[k].end)
      /\ U \subseteq Int
  BY Zenon DEF Searchable
<1>2. s[k].start # NoIP /\ s[k].end # NoIP
  BY <1>1, SizesAssumption, Zenon
<1>3. /\ IsV4(x) = IsV4(s[k].start) /\ IsV4(x) = IsV4(s[k].end)
      /\ ~(Cmp(x, s[k].start) < 0) /\ ~(Cmp(x, s[k].end) > 0)
  BY <1>1, <1>2, Zenon DEF Contains
<1>4. x \in Int /\ s[k].start \in Int /\ s[k].end \in Int
  BY <1>1, Zenon
<1>5. QED
  BY <1>3, <1>4 DEF Cmp

(* Inside a range NextIP adds one.                                         *)
LEMMA NextIPInside ==
  ASSUME NEW s, NEW U, Searchable(s, U),
         NEW k \in DOMAIN s, NEW x \in U,
         Contains(s[k], x), x # s[k].end
  PROVE  NextIP(x) = x + 1 /\ NextIP(x) \in U /\ Contains(s[k], NextIP(x))
<1>1. NextIP(x) \in U /\ Contains(s[k], NextIP(x)) /\ x \in Int
  BY Zenon DEF Searchable
<1>2. IsV4(NextIP(x)) = IsV4(x)
  BY <1>1, Zenon DEF Contains
<1>3. QED
  BY <1>1, <1>2, SizesAssumption, Zenon DEF NextIP, IsV4

(* RangeIter.Next goes from an address to the one that follows it.         *)
LEMMA AdvanceFollows ==
  ASSUME NEW s, NEW U, Searchable(s, U),
         NEW t \in [idx : Nat, cur : U \cup {NoIP}, start : U \cup {NoIP}],
         t.idx \in DOMAIN s, t.cur # NoIP, Contains(s[t.idx], t.cur)
  PROVE  /\ t.cur \in Members(s, U) /\ Advance(s, t).cur \in Members(s, U)
         /\ Follows(s, U, t.cur, Advance(s, t).cur)
<1> DEFINE x == t.cur
           k == t.idx
           n == Advance(s, t)
<1>1. /\ Len(s) \in Nat \ {0} /\ DOMAIN s = 1 .. Len(s)
      /\ \A j \in DOMAIN s : s[j].start \in U /\ Contains(s[j], s[j].start)
  BY Zenon DEF Searchable
<1>2. n.idx \in DOMAIN s /\ n.cur \in U /\ Contains(s[n.idx], n.cur)
  BY AdvanceOK, Zenon
<1>3. x \in Members(s, U) /\ n.cur \in Members(s, U)
  BY <1>2, Zenon DEF Members, SetContains
<1>4. RangeFor(s, x) = k /\ RangeFor(s, n.cur) = n.idx /\ x \in Int /\ n.cur \in Int
  BY <1>2, <1>3, AddressRange
<1>5. ASSUME NEW z \in Members(s, U)
      PROVE  /\ RangeFor(s, z) \in 1 .. Len(s) /\ z \in Int
             /\ s[RangeFor(s, z)].start <= z /\ z <= s[RangeFor(s, z)].end
  <2>1. z \in U /\ RangeFor(s, z) \in DOMAIN s /\ Contains(s[RangeFor(s, z)], z) /\ z \in Int
    BY AddressRange, Zenon DEF Members
  <2>2. QED
    BY <1>1, <2>1, InsideRange, Zenon
<1>6. CASE x # s[k].end
  <2>1. n.idx = k /\ n.cur = x + 1
    BY <1>6, NextIPInside, Zenon DEF Advance
  <2>2. k \in Int
    BY <1>1
  <2>3. QED
    BY <1>3, <1>4, <1>5, <2>1, <2>2 DEF Follows, Before
<1>7. CASE x = s[k].end
  <2>1. n.idx = (k % Len(s)) + 1 /\ n.cur = s[n.idx].start
    BY <1>7, Zenon DEF Advance
  <2>2. k \in 1 .. Len(s)
    BY <1>1, Zenon
  <2>3. CASE k < Len(s)
    <3>1. n.idx = k + 1
      BY <1>1, <2>1, <2>2, <2>3, SMTT(30)
    <3>2. Before(s, x, n.cur)
      BY <1>4, <2>2, <3>1 DEF Before
    <3>3. ASSUME NEW z \in Members(s, U), Before(s, x, z), Before(s, z, n.cur)
          PROVE  FALSE
      <4>1. RangeFor(s, z) = k \/ RangeFor(s, z) = k + 1
        BY <1>4, <1>5, <2>2, <3>1, <3>3 DEF Before
      <4>2. RangeFor(s, z) = k => z <= x
        BY <1>5, <1>7, Zenon
      <4>3. RangeFor(s, z) = k + 1 => n.cur <= z
        BY <1>5, <2>1, <3>1, Zenon
      <4>4. QED
        BY <1>4, <1>5, <2>2, <3>1, <3>3, <4>1, <4>2, <4>3 DEF Before
    <3>4. QED
      BY <1>3, <3>2, <3>3, Zenon DEF Follows
  <2>4. CASE k = Len(s)
    <3>1. n.idx = 1
      BY <1>1, <2>1, <2>2, <2>4
    <3>2. ASSUME NEW z \in Members(s, U)
          PROVE  ~Before(s, x, z) /\ ~Before(s, z, n.cur)
      <4>1. RangeFor(s, z) = k => z <= x
        BY <1>5, <1>7, Zenon
      <4>2. RangeFor(s, z) = 1 => n.cur <= z
        BY <1>5, <2>1, <3>1, Zenon
      <4>3. QED
        BY <1>1, <1>4, <1>5, <2>4, <3>1, <4>1, <4>2 DEF Before
    <3>3. QED
      BY <1>3, <3>2, Zenon DEF Follows
  <2>5. QED
    BY <1>1, <2>2, <2>3, <2>4
<1>8. QED
  BY <1>6, <1>7, Zenon

-----------------------------------------------------------------------------
(* A search that goes on from c to n, not back at x where it started, sees *)
(* n for the first time, and nothing else.                                 *)
LEMMA SeenOneMore ==
  ASSUME NEW s, NEW U, Searchable(s, U),
         NEW x \in Members(s, U), NEW c \in Members(s, U), NEW n \in Members(s, U),
         Follows(s, U, c, n), n # x
  PROVE  Seen(s, U, x, n) = Seen(s, U, x, c) \cup {n} /\ n \notin Seen(s, U, x, c)
<1>1. \A z \in Members(s, U) : z \in Seen(s, U, x, n) => z \in Seen(s, U, x, c) \/ z = n
  BY BeforeOrder, Zenon DEF Seen, Follows
<1>2. \A z \in Members(s, U) : z \in Seen(s, U, x, c) => z \in Seen(s, U, x, n)
  BY BeforeOrder, Zenon DEF Seen, Follows
<1>3. n \in Seen(s, U, x, n) /\ n \notin Seen(s, U, x, c)
  BY BeforeOrder, Zenon DEF Seen, Follows
<1>4. Seen(s, U, x, n) \subseteq Members(s, U) /\ Seen(s, U, x, c) \subseteq Members(s, U)
  BY Zenon DEF Seen
<1>5. QED
  BY <1>1, <1>2, <1>3, <1>4, Zenon

(* A search that is back where it started has seen every address.          *)
LEMMA SeenAll ==
  ASSUME NEW s, NEW U, Searchable(s, U),
         NEW x \in Members(s, U), NEW c \in Members(s, U), Follows(s, U, c, x)
  PROVE  Seen(s, U, x, c) = Members(s, U)
  BY BeforeOrder, Zenon DEF Seen, Follows

(* A search begins by seeing the address it begins at.                     *)
LEMMA SeenFirst ==
  ASSUME NEW s, NEW U, Searchable(s, U), NEW x \in Members(s, U)
  PROVE  Seen(s, U, x, x) = {x}
  BY BeforeOrder, Zenon DEF Seen
=============================================================================
