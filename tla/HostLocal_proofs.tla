-------------------------- MODULE HostLocal_proofs --------------------------
(***************************************************************************)
(* Proofs about HostLocal, for any number of attachments, range sets,      *)
(* addresses and requests, with crashes and with disk faults.              *)
(***************************************************************************)
EXTENDS HostLocal, Ranges_proofs

(* The iterator of a stands in a range of the range set it searches.       *)
IterOK(a) ==
  /\ it[a].idx \in DOMAIN Sets[idx[a]]
  /\ it[a].cur # NoIP => Contains(Sets[idx[a]][it[a].idx], it[a].cur)

(* What the memory of a process holds where the code uses it.              *)
ProcInv ==
  \A a \in Att :
    /\ pc[a] = "pick" /\ req[a] # NoIP => InSet(idx[a], req[a])
    /\ pc[a] = "scan" => IterOK(a)
    /\ pc[a] \in {"write", "last"} => ip[a] \in IPs

TypeInv == TypeOK /\ ProcInv

(* What RangeSetsAssumption says of the range sets, spelled out.           *)
LEMMA RangeSets ==
  /\ Len(Sets) \in Nat \ {0} /\ DOMAIN Sets = 1 .. Len(Sets)
  /\ IPs \subseteq Int
  /\ \A i \in DOMAIN Sets :
       /\ Searchable(Sets[i], IPs)
       /\ Len(Sets[i]) \in Nat \ {0} /\ DOMAIN Sets[i] = 1 .. Len(Sets[i])
       /\ \A x \in Requestable : InSet(i, x) => x \in IPs
       /\ \A j \in DOMAIN Sets, x \in IPs : InSet(i, x) /\ InSet(j, x) => i = j
  BY RangeSetsAssumption DEF Searchable

(* Go's nil is not an address.                                             *)
LEMMA NoIPNotInIPs == NoIP \notin IPs
  BY SizesAssumption, RangeSets, Zenon

(* A requested address of a range set is one of the addresses.             *)
LEMMA RequestInIPs ==
  ASSUME NEW i \in DOMAIN Sets, NEW x \in Requestable, InSet(i, x)
  PROVE  x \in IPs
  BY RangeSets, Zenon

-----------------------------------------------------------------------------
(* An empty or inherited store, with no process running, is well typed.    *)
LEMMA InitTypeInv == Init => TypeInv
<1> SUFFICES ASSUME Init PROVE TypeInv
  BY Zenon
<1>1. TypeOK
  <2>1. /\ files \in [IPs -> {Free, Blank} \cup Att \cup Containers]
        /\ last \in [DOMAIN Sets -> IPs \cup {NoIP}]
    BY OldStoreAssumption, Zenon DEF Init
  <2>2. 1 \in DOMAIN Sets /\ 0 \in 0 .. Len(Sets)
    BY RangeSets
  <2>3. /\ idx \in [Att -> DOMAIN Sets] /\ todo \in [Att -> 0 .. Len(Sets)]
        /\ pc \in [Att -> Labels] /\ state \in [Att -> States]
        /\ lock \in Att \cup {Nobody}
        /\ prev \in [DOMAIN Sets -> IPs \cup {NoIP}]
    BY <2>2, Zenon DEF Init, Labels, States
  <2>4. /\ want \in [Att -> SUBSET Requestable] /\ got \in [Att -> SUBSET IPs]
        /\ live \in [Att -> SUBSET IPs] /\ ip \in [Att -> IPs \cup {NoIP}]
        /\ req \in [Att -> Requestable \cup {NoIP}]
    BY Zenon DEF Init
  <2>5. it \in [Att -> [idx : Nat, cur : IPs \cup {NoIP}, start : IPs \cup {NoIP}]]
    BY Zenon DEF Init, NoIter
  <2>6. QED
    BY <2>1, <2>3, <2>4, <2>5, Zenon DEF TypeOK
<1>2. ProcInv
  BY Zenon DEF Init, ProcInv
<1>3. QED
  BY <1>1, <1>2, Zenon DEF TypeInv

(* Leaving, or moving to a place where the memory is not used, keeps the   *)
(* invariant.                                                              *)
LEMMA ExitTypes ==
  ASSUME TypeInv, NEW a \in Att, Exit(a)
  PROVE  /\ lock' \in Att \cup {Nobody} /\ pc' \in [Att -> Labels]
         /\ idx' \in [Att -> DOMAIN Sets]
         /\ want' \in [Att -> SUBSET Requestable]
         /\ req' \in [Att -> Requestable \cup {NoIP}]
         /\ it' \in [Att -> [idx : Nat, cur : IPs \cup {NoIP}, start : IPs \cup {NoIP}]]
         /\ ip' \in [Att -> IPs \cup {NoIP}]
         /\ got' \in [Att -> SUBSET IPs]
         /\ todo' \in [Att -> 0 .. Len(Sets)]
         /\ ProcInv'
<1> USE DEF TypeInv, TypeOK
<1>1. /\ lock' \in Att \cup {Nobody} /\ pc' \in [Att -> Labels]
      /\ idx' \in [Att -> DOMAIN Sets]
      /\ todo' \in [Att -> 0 .. Len(Sets)]
  <2>1. 1 \in DOMAIN Sets /\ 0 \in 0 .. Len(Sets)
    BY RangeSets
  <2>2. QED
    BY <2>1, Zenon DEF Exit, Goto, Labels
<1>2. /\ want' \in [Att -> SUBSET Requestable]
      /\ req' \in [Att -> Requestable \cup {NoIP}]
      /\ ip' \in [Att -> IPs \cup {NoIP}]
      /\ got' \in [Att -> SUBSET IPs]
  BY Zenon DEF Exit
<1>3. it' \in [Att -> [idx : Nat, cur : IPs \cup {NoIP}, start : IPs \cup {NoIP}]]
  BY Zenon DEF Exit, NoIter
<1>4. ProcInv'
  BY Zenon DEF Exit, Goto, ProcInv, IterOK
<1>5. QED
  BY <1>1, <1>2, <1>3, <1>4, Zenon

(* Creating, writing or removing files leaves a well-typed store.          *)
LEMMA FileSetType ==
  ASSUME TypeOK, NEW S, NEW v \in {Free, Blank} \cup Att \cup Containers, FileSet(S, v)
  PROVE  files' \in [IPs -> {Free, Blank} \cup Att \cup Containers]
  BY Zenon DEF FileSet, TypeOK

(* Reserve, whichever way it ends, keeps the types.                        *)
LEMMA CreateTypes ==
  ASSUME TypeOK, NEW a \in Att, NEW x \in IPs, NEW taken \in Labels, Create(a, x, taken)
  PROVE  /\ files' \in [IPs -> {Free, Blank} \cup Att \cup Containers]
         /\ ip' \in [Att -> IPs \cup {NoIP}] /\ ip'[a] = x
         /\ pc' \in [Att -> Labels] /\ pc'[a] \in {"write", taken, "fail"}
         /\ \A b \in Att \ {a} : pc'[b] = pc[b] /\ ip'[b] = ip[b]
<1>1. files' \in [IPs -> {Free, Blank} \cup Att \cup Containers]
  BY FileSetType, Zenon DEF Create, TypeOK
<1>2. QED
  BY <1>1, Zenon DEF Create, TypeOK, Goto, Labels

(* Every step of every plugin process keeps the types.                     *)
LEMMA NextTypeInv == TypeInv /\ [Next]_vars => TypeInv'
<1> SUFFICES ASSUME TypeInv, [Next]_vars PROVE TypeInv'
  BY Zenon
<1> USE DEF TypeInv
<1>u. CASE UNCHANGED vars
  BY <1>u, Zenon DEF TypeOK, ProcInv, IterOK, vars, store, proc
<1>n. CASE Next
  <2>0. PICK a \in Att : StartAdd(a) \/ StartDel(a) \/ Refuse(a) \/ LockFind(a) \/ Step(a) \/ Crash(a)
    BY <1>n, Zenon DEF Next
  <2>l. 0 \in 0 .. Len(Sets) /\ Len(Sets) \in 0 .. Len(Sets)
    BY RangeSets
  <2>1. CASE StartAdd(a)
    <3>1. TypeOK'
      BY <2>1, Zenon DEF StartAdd, TypeOK, Goto, Become, Labels, States, store, proc, Requestable
    <3>2. ProcInv'
      BY <2>1, Zenon DEF StartAdd, TypeOK, ProcInv, IterOK, Goto, Become, store, proc
    <3>3. QED
      BY <3>1, <3>2, Zenon
  <2>2. CASE StartDel(a)
    <3>1. TypeOK'
      BY <2>2, <2>l, Zenon DEF StartDel, TypeOK, Goto, Become, Labels, States, store, proc
    <3>2. ProcInv'
      BY <2>2, Zenon DEF StartDel, TypeOK, ProcInv, IterOK, Goto, Become, store, proc
    <3>3. QED
      BY <3>1, <3>2, Zenon
  <2>3. CASE Refuse(a)
    <3>1. TypeOK'
      BY <2>3, Zenon DEF Refuse, TypeOK, Goto, Become, Labels, States, store, proc
    <3>2. ProcInv'
      BY <2>3, Zenon DEF Refuse, TypeOK, ProcInv, IterOK, Goto, Become, store, proc
    <3>3. QED
      BY <3>1, <3>2, Zenon
  <2>4. CASE LockFind(a)
    <3>1. TypeOK'
      BY <2>4, Zenon DEF LockFind, TypeOK, Goto, Become, Labels, States, store, proc
    <3>2. ProcInv'
      BY <2>4, Zenon DEF LockFind, TypeOK, ProcInv, IterOK, Goto, Become, store, proc
    <3>3. QED
      BY <3>1, <3>2, Zenon
  <2>5. CASE LockGet(a)
    <3>1. /\ want' \in [Att -> SUBSET Requestable]
          /\ req' \in [Att -> Requestable \cup {NoIP}]
      <4>1. want[a] \subseteq Requestable
        BY Zenon DEF TypeOK
      <4>2. CASE want' = want /\ req' = [req EXCEPT ![a] = NoIP]
        BY <4>2, Zenon DEF TypeOK
      <4>3. CASE \E x \in want[a] : /\ req' = [req EXCEPT ![a] = x]
                                   /\ want' = [want EXCEPT ![a] = @ \ {x}]
        BY <4>1, <4>3 DEF TypeOK
      <4>4. QED
        BY <2>5, <4>2, <4>3, Zenon DEF LockGet
    <3>2. TypeOK'
      BY <2>5, <3>1, Zenon DEF LockGet, TypeOK, Goto, Labels, store
    <3>3. ProcInv'
      BY <2>5 DEF LockGet, TypeOK, ProcInv, IterOK, Goto
    <3>4. QED
      BY <3>2, <3>3, Zenon
  <2>6. CASE LockRelease(a)
    <3>1. TypeOK'
      BY <2>6, Zenon DEF LockRelease, TypeOK, Goto, Become, Labels, States, store, proc
    <3>2. ProcInv'
      BY <2>6, Zenon DEF LockRelease, TypeOK, ProcInv, IterOK, Goto, Become, store, proc
    <3>3. QED
      BY <3>1, <3>2, Zenon
  <2>7. CASE FindByID(a)
    <3>1. TypeOK'
      BY <2>7, Zenon DEF FindByID, TypeOK, Goto, Become, Labels, States, store, proc
    <3>2. ProcInv'
      BY <2>7, Zenon DEF FindByID, TypeOK, ProcInv, IterOK, Goto, Become, store, proc
    <3>3. QED
      BY <3>1, <3>2, Zenon
  <2>8. CASE CheckFails(a)
    <3>1. TypeOK'
      BY <2>8, Zenon DEF CheckFails, TypeOK, Goto, Become, Labels, States, store, proc
    <3>2. ProcInv'
      BY <2>8, Zenon DEF CheckFails, TypeOK, ProcInv, IterOK, Goto, Become, store, proc
    <3>3. QED
      BY <3>1, <3>2, Zenon
  <2>9. CASE WriteOwner(a)
    <3>1. files' \in [IPs -> {Free, Blank} \cup Att \cup Containers]
      BY <2>9, FileSetType, Zenon DEF WriteOwner
    <3>2. TypeOK'
      BY <2>9, <3>1, Zenon DEF WriteOwner, TypeOK, Goto, Labels, proc
    <3>3. ProcInv'
      BY <2>9, Zenon DEF WriteOwner, TypeOK, ProcInv, IterOK, Goto, proc
    <3>4. QED
      BY <3>2, <3>3, Zenon
  <2>10. CASE SaveLastFails(a)
    <3>1. TypeOK'
      BY <2>10, Zenon
         DEF SaveLastFails, TypeOK, Goto, Become, Labels, States, store, proc, TearLast
    <3>2. ProcInv'
      BY <2>10, Zenon DEF SaveLastFails, TypeOK, ProcInv, IterOK, Goto, Become, store, proc
    <3>3. QED
      BY <3>1, <3>2, Zenon
  <2>11. CASE GetRequested(a)
    <3>1. req[a] \in IPs
      BY <2>11, RequestInIPs, Zenon DEF GetRequested, ProcInv, TypeOK
    <3>2. \/ Create(a, req[a], "fail")
          \/ Goto(a, "fail") /\ UNCHANGED <<files, ip>>
      BY <2>11, Zenon DEF GetRequested
    <3>3. /\ files' \in [IPs -> {Free, Blank} \cup Att \cup Containers]
          /\ ip' \in [Att -> IPs \cup {NoIP}]
          /\ pc' \in [Att -> Labels] /\ pc'[a] \in {"write", "fail"}
          /\ pc'[a] = "write" => ip'[a] \in IPs
          /\ \A b \in Att \ {a} : pc'[b] = pc[b] /\ ip'[b] = ip[b]
      <4>1. CASE Create(a, req[a], "fail")
        BY <3>1, <4>1, CreateTypes, Zenon DEF Labels
      <4>2. CASE Goto(a, "fail") /\ UNCHANGED <<files, ip>>
        BY <4>2, Zenon DEF Goto, Labels, TypeOK
      <4>3. QED
        BY <3>2, <4>1, <4>2, Zenon
    <3>4. TypeOK'
      BY <2>11, <3>3, Zenon DEF GetRequested, TypeOK
    <3>5. ProcInv'
      BY <2>11, <3>3, Zenon DEF GetRequested, ProcInv, IterOK
    <3>6. QED
      BY <3>4, <3>5, Zenon
  <2>12. CASE GetIterator(a)
    <3>f. PICK from \in {last[idx[a]], NoIP} :
            \/ Goto(a, "fail") /\ it' = it
            \/ /\ Goto(a, "scan")
               /\ it' = [it EXCEPT ![a] = GetIter(Sets[idx[a]], from)]
      BY <2>12, Zenon DEF GetIterator
    <3>p. prev' \in [DOMAIN Sets -> IPs \cup {NoIP}]
      BY <2>12, Zenon DEF GetIterator, TypeOK
    <3> DEFINE t == GetIter(Sets[idx[a]], from)
    <3>1. idx[a] \in DOMAIN Sets /\ from \in IPs \cup {NoIP}
      BY Zenon DEF TypeOK
    <3>2. /\ t \in [idx : Nat, cur : IPs \cup {NoIP}, start : IPs \cup {NoIP}]
          /\ t.idx \in DOMAIN Sets[idx[a]]
          /\ t.cur # NoIP => Contains(Sets[idx[a]][t.idx], t.cur)
      BY <3>1, GetIterOK, RangeSets, Zenon
    <3> HIDE DEF t
    <3>3. \/ Goto(a, "fail") /\ it' = it
          \/ Goto(a, "scan") /\ it' = [it EXCEPT ![a] = t]
      BY <3>f, Zenon DEF t
    <3>4. TypeOK'
      <4>1. it' \in [Att -> [idx : Nat, cur : IPs \cup {NoIP}, start : IPs \cup {NoIP}]]
        BY <3>2, <3>3, Zenon DEF TypeOK
      <4>2. pc' \in [Att -> Labels]
        BY <3>3, Zenon DEF TypeOK, Goto, Labels
      <4>3. QED
        BY <2>12, <3>p, <4>1, <4>2, Zenon DEF GetIterator, TypeOK, store
    <3>5. ProcInv'
      BY <2>12, <3>2, <3>3 DEF GetIterator, TypeOK, ProcInv, IterOK, Goto
    <3>6. QED
      BY <3>4, <3>5, Zenon
  <2>13. CASE Scan(a)
    <3> DEFINE s == Sets[idx[a]]
               n == Advance(s, it[a])
    <3>1. /\ n \in [idx : Nat, cur : IPs \cup {NoIP}, start : IPs \cup {NoIP}]
          /\ n.idx \in DOMAIN s
          /\ n.cur \in IPs /\ Contains(s[n.idx], n.cur)
      BY <2>13, AdvanceOK, RangeSets, ZenonT(60) DEF Scan, TypeOK, ProcInv, IterOK
    <3> HIDE DEF n
    <3>2. \/ Create(a, n.cur, "scan")
          \/ Goto(a, "full") /\ UNCHANGED <<files, ip>>
          \/ UNCHANGED <<files, ip, pc>>
      BY <2>13, Zenon DEF Scan, n
    <3>3. /\ files' \in [IPs -> {Free, Blank} \cup Att \cup Containers]
          /\ ip' \in [Att -> IPs \cup {NoIP}]
          /\ pc' \in [Att -> Labels] /\ pc'[a] \in {"write", "fail", "full", "scan"}
          /\ pc'[a] = "write" => ip'[a] \in IPs
          /\ \A b \in Att \ {a} : pc'[b] = pc[b] /\ ip'[b] = ip[b]
      <4>1. CASE Create(a, n.cur, "scan")
        BY <3>1, <4>1, CreateTypes, Zenon DEF Labels
      <4>2. CASE Goto(a, "full") /\ UNCHANGED <<files, ip>>
        BY <4>2, Zenon DEF Goto, Labels, TypeOK
      <4>3. CASE UNCHANGED <<files, ip, pc>>
        BY <2>13, <4>3, Zenon DEF Scan, TypeOK
      <4>4. QED
        BY <3>2, <4>1, <4>2, <4>3, Zenon
    <3>4. /\ it' \in [Att -> [idx : Nat, cur : IPs \cup {NoIP}, start : IPs \cup {NoIP}]]
          /\ it'[a] = n /\ \A b \in Att \ {a} : it'[b] = it[b]
      BY <2>13, <3>1, Zenon DEF Scan, TypeOK, n
    <3>5. TypeOK'
      BY <2>13, <3>3, <3>4, Zenon DEF Scan, TypeOK
    <3>6. ProcInv'
      BY <2>13, <3>1, <3>3, <3>4, SMTT(30) DEF Scan, ProcInv, IterOK
    <3>7. QED
      BY <3>5, <3>6, Zenon
  <2>14. CASE SaveLast(a)
    <3>1. ip[a] \in IPs /\ idx[a] \in DOMAIN Sets
      BY <2>14, Zenon DEF SaveLast, ProcInv, TypeOK
    <3>2. /\ last' \in [DOMAIN Sets -> IPs \cup {NoIP}]
          /\ prev' \in [DOMAIN Sets -> IPs \cup {NoIP}]
          /\ files' = files
      BY <2>14, <3>1, Zenon DEF SaveLast, TypeOK
    <3>3. CASE /\ idx[a] < Len(Sets)
               /\ lock' = Nobody /\ Goto(a, "get")
               /\ idx' = [idx EXCEPT ![a] = @ + 1]
               /\ got' = [got EXCEPT ![a] = @ \cup {ip[a]}]
               /\ UNCHANGED <<want, req, it, ip, todo, state, live>>
      <4>1. idx[a] + 1 \in DOMAIN Sets
        BY <3>1, <3>3, RangeSets
      <4>2. idx' \in [Att -> DOMAIN Sets] /\ got' \in [Att -> SUBSET IPs]
        BY <3>1, <3>3, <4>1, Zenon DEF TypeOK
      <4>3. TypeOK'
        BY <3>2, <3>3, <4>2, Zenon DEF TypeOK, Goto, Labels
      <4>4. ProcInv'
        BY <3>3, Zenon DEF TypeOK, ProcInv, IterOK, Goto
      <4>5. QED
        BY <4>3, <4>4, Zenon
    <3>4. CASE /\ lock' = Nobody /\ Goto(a, "release")
               /\ todo' = [todo EXCEPT ![a] = Len(Sets)]
               /\ UNCHANGED <<proc, state, live>>
      <4>1. TypeOK'
        BY <2>l, <3>2, <3>4, Zenon DEF TypeOK, Goto, Labels, proc
      <4>2. ProcInv'
        BY <3>4, Zenon DEF TypeOK, ProcInv, IterOK, Goto, proc
      <4>3. QED
        BY <4>1, <4>2, Zenon
    <3>5. CASE /\ live' = [live EXCEPT ![a] = @ \cup got[a] \cup {ip[a]}]
               /\ Become(a, "attached") /\ Exit(a)
      <4>1. live' \in [Att -> SUBSET IPs] /\ state' \in [Att -> States]
        BY <3>1, <3>5, Zenon DEF TypeOK, Become, States
      <4>2. QED
        BY <3>2, <3>5, <4>1, ExitTypes, Zenon DEF TypeOK
    <3>6. QED
      BY <2>14, <3>3, <3>4, <3>5, Zenon DEF SaveLast
  <2>15. CASE FailGet(a)
    <3>1. UNCHANGED <<files, last, live, prev>>
      BY <2>15, Zenon DEF FailGet, store
    <3>2. CASE Exit(a) /\ Become(a, "failed")
      <4>1. state' \in [Att -> States]
        BY <3>2, Zenon DEF TypeOK, Become, States
      <4>2. QED
        BY <3>1, <3>2, <4>1, ExitTypes, Zenon DEF TypeOK
    <3>3. CASE /\ idx[a] # 1 /\ lock' = Nobody /\ Goto(a, "release")
               /\ todo' = [todo EXCEPT ![a] = idx[a] - 1]
               /\ UNCHANGED <<proc, state>>
      <4>1. idx[a] - 1 \in 0 .. Len(Sets)
        BY RangeSets DEF TypeOK
      <4>2. TypeOK'
        BY <3>1, <3>3, <4>1, Zenon DEF TypeOK, Goto, Labels, proc
      <4>3. ProcInv'
        BY <3>3, Zenon DEF TypeOK, ProcInv, IterOK, Goto, proc
      <4>4. QED
        BY <4>2, <4>3, Zenon
    <3>4. QED
      BY <2>15, <3>2, <3>3, Zenon DEF FailGet
  <2>16. CASE Release(a)
    <3>1. /\ files' \in [IPs -> {Free, Blank} \cup Att \cup Containers]
          /\ UNCHANGED <<last, live, prev>>
      BY <2>16, FileSetType, Zenon DEF Release
    <3>2. CASE /\ todo[a] > 1 /\ todo' = [todo EXCEPT ![a] = @ - 1]
               /\ lock' = Nobody /\ Goto(a, "release")
               /\ UNCHANGED <<proc, state>>
      <4>1. todo[a] - 1 \in 0 .. Len(Sets)
        BY <3>2, RangeSets DEF TypeOK
      <4>2. TypeOK'
        BY <3>1, <3>2, <4>1, Zenon DEF TypeOK, Goto, Labels, proc
      <4>3. ProcInv'
        BY <3>2, Zenon DEF TypeOK, ProcInv, IterOK, Goto, proc
      <4>4. QED
        BY <4>2, <4>3, Zenon
    <3>3. CASE /\ Exit(a)
               /\ Become(a, IF state[a] = "adding" THEN "failed" ELSE "detached")
      <4>1. state' \in [Att -> States]
        BY <3>3, Zenon DEF TypeOK, Become, States
      <4>2. QED
        BY <3>1, <3>3, <4>1, ExitTypes, Zenon DEF TypeOK
    <3>4. QED
      BY <2>16, <3>2, <3>3, Zenon DEF Release
  <2>17. CASE Crash(a)
    <3>1. files' \in [IPs -> {Free, Blank} \cup Att \cup Containers]
      BY <2>17, FileSetType, Zenon DEF Crash, TypeOK
    <3>2. /\ last' \in [DOMAIN Sets -> IPs \cup {NoIP}]
          /\ prev' \in [DOMAIN Sets -> IPs \cup {NoIP}]
      BY <2>17, Zenon DEF Crash, TearLast, TypeOK
    <3>3. state' \in [Att -> States] /\ live' = live
      BY <2>17, Zenon DEF Crash, TypeOK, States
    <3>4. Exit(a)
      BY <2>17, Zenon DEF Crash
    <3>5. QED
      BY <3>1, <3>2, <3>3, <3>4, ExitTypes, Zenon DEF TypeOK
  <2>q. QED
    BY <2>0, <2>1, <2>2, <2>3, <2>4, <2>5, <2>6, <2>7, <2>8, <2>9, <2>10, <2>11, <2>12,
       <2>13, <2>14, <2>15, <2>16, <2>17, Zenon DEF Step
<1>q. QED
  BY <1>u, <1>n, Zenon

(* The variables keep their types, in particular every address that is     *)
(* reserved, searched or handed out is one of the configured range sets.   *)
THEOREM TypeCorrect == Spec => []TypeOK
<1>1. Spec => []TypeInv
  BY InitTypeInv, NextTypeInv, PTL DEF Spec
<1>2. TypeInv => TypeOK
  BY Zenon DEF TypeInv
<1>3. QED
  BY <1>1, <1>2, PTL

-----------------------------------------------------------------------------
(* The places where a process holds the lock.                              *)
Inside == {"pick", "scan", "write", "last", "fail", "full", "walk", "look"}

(* Mutual exclusion: exactly the holder of the lock is at such a place.    *)
LockInv == \A a \in Att : pc[a] \in Inside <=> lock = a

(* The file lock keeps two processes out of the store at once.             *)
LEMMA NextLockInv == TypeOK /\ LockInv /\ [Next]_vars => LockInv'
<1> SUFFICES ASSUME TypeOK, LockInv, [Next]_vars PROVE LockInv'
  BY Zenon
<1> USE AttachmentsAssumption DEF LockInv, Inside
<1>t. pc \in [Att -> Labels] /\ lock \in Att \cup {Nobody}
  BY Zenon DEF TypeOK
<1>u. CASE UNCHANGED vars
  BY <1>u, Zenon DEF vars
<1>n. CASE Next
  <2>0. PICK a \in Att : StartAdd(a) \/ StartDel(a) \/ Refuse(a) \/ LockFind(a) \/ Step(a) \/ Crash(a)
    BY <1>n, Zenon DEF Next
  <2>1. CASE StartAdd(a)
    BY <2>1, <1>t, Zenon DEF StartAdd, Goto
  <2>2. CASE StartDel(a)
    BY <2>2, <1>t, Zenon DEF StartDel, Goto
  <2>3. CASE Refuse(a)
    BY <2>3, <1>t, Zenon DEF Refuse, Goto
  <2>4. CASE LockFind(a)
    BY <2>4, <1>t, Zenon DEF LockFind, Goto
  <2>5. CASE LockGet(a)
    BY <2>5, <1>t, Zenon DEF LockGet, Goto
  <2>6. CASE GetRequested(a)
    BY <2>6, <1>t, Zenon DEF GetRequested, Goto, Create
  <2>7. CASE GetIterator(a)
    BY <2>7, <1>t, Zenon DEF GetIterator, Goto
  <2>8. CASE Scan(a)
    BY <2>8, <1>t, Zenon DEF Scan, Goto, Create
  <2>9. CASE WriteOwner(a)
    BY <2>9, <1>t, Zenon DEF WriteOwner, Goto
  <2>10. CASE SaveLast(a)
    BY <2>10, <1>t, SMTT(30) DEF SaveLast, Goto, Exit
  <2>11. CASE SaveLastFails(a)
    BY <2>11, <1>t, Zenon DEF SaveLastFails, Goto
  <2>12. CASE FailGet(a)
    BY <2>12, <1>t DEF FailGet, Goto, Exit
  <2>13. CASE LockRelease(a)
    BY <2>13, <1>t, Zenon DEF LockRelease, Goto
  <2>14. CASE Release(a)
    BY <2>14, <1>t DEF Release, Goto, Exit
  <2>15. CASE FindByID(a)
    BY <2>15, <1>t, Zenon DEF FindByID, Goto
  <2>16. CASE CheckFails(a)
    BY <2>16, <1>t, Zenon DEF CheckFails, Goto
  <2>17. CASE Crash(a)
    BY <2>17, <1>t, Zenon DEF Crash, Goto, Exit
  <2>q. QED
    BY <2>0, <2>1, <2>2, <2>3, <2>4, <2>5, <2>6, <2>7, <2>8, <2>9, <2>10,
       <2>11, <2>12, <2>13, <2>14, <2>15, <2>16, <2>17, Zenon DEF Step
<1>q. QED
  BY <1>u, <1>n, Zenon

-----------------------------------------------------------------------------
(* The places of cmdAdd before it returns or rolls back.                   *)
Adding == {"get", "pick", "scan", "write", "last", "fail", "full"}

(* The file a process is writing is the one it created, and the addresses  *)
(* an ADD has obtained so far are reserved for it.                         *)
StoreInv ==
  \A a \in Att :
    /\ pc[a] = "write" => files[ip[a]] = Blank
    /\ pc[a] = "last" => files[ip[a]] = a
    /\ pc[a] \in Adding => got[a] \subseteq Own(a)
    /\ pc[a] \in {"idle", "look", "lost"} => got[a] = {}

(* One step of the process of a, whichever it is.                          *)
Acts(a) ==
  StartAdd(a) \/ StartDel(a) \/ Refuse(a) \/ LockFind(a) \/ Step(a) \/ Crash(a)

(* ReleaseByID never picks a file that names another attachment.           *)
LEMMA RemovedOwn ==
  ASSUME NEW a \in Att, NEW S \in Removed(a)
  PROVE  S \subseteq Own(a) \cup Legacy(a)
  BY Zenon DEF Removed

(* What a step of a does to the files: it touches them only while it holds *)
(* the lock, and the file of an attachment goes only in a's own walk.      *)
LEMMA FileChange ==
  ASSUME TypeInv, LockInv, StoreInv, NEW a \in Att, Acts(a), NEW x \in IPs
  PROVE  /\ files'[x] # files[x] => pc[a] \in Inside
         /\ files[x] \in Att /\ files'[x] # files[x] =>
              files[x] = a /\ pc[a] = "walk" /\ files'[x] = Free
<1> USE AttachmentsAssumption
<1>1. CASE files' = files
  BY <1>1, Zenon
<1>2. CASE GetRequested(a) \/ Scan(a)
  <2>1. pc[a] \in Inside
    BY <1>2, Zenon DEF GetRequested, Scan, Inside
  <2>2. files' = files \/ \E y : files[y] = Free /\ FileSet({y}, Blank)
    BY <1>2, Zenon DEF GetRequested, Scan, Create
  <2>3. QED
    BY <2>1, <2>2, Zenon DEF FileSet
<1>3. CASE WriteOwner(a)
  <2>1. pc[a] = "write" /\ files[ip[a]] = Blank
    BY <1>3, Zenon DEF WriteOwner, StoreInv
  <2>2. \E v : FileSet({ip[a]}, v)
    BY <1>3, Zenon DEF WriteOwner
  <2>3. QED
    BY <2>1, <2>2, Zenon DEF FileSet, Inside
<1>4. CASE Release(a) \/ (Crash(a) /\ pc[a] = "walk")
  <2>1. PICK S \in SUBSET (Own(a) \cup Legacy(a)) : FileSet(S, Free)
    BY <1>4, RemovedOwn, Zenon DEF Release, Crash
  <2>2. pc[a] = "walk"
    BY <1>4, Zenon DEF Release
  <2>3. x \in Own(a) => files[x] = a
    BY Zenon DEF Own
  <2>4. x \in Legacy(a) => files[x] \in Containers
    BY Zenon DEF Legacy
  <2>5. QED
    BY <2>1, <2>2, <2>3, <2>4, Zenon DEF FileSet, Inside
<1>5. QED
  BY <1>1, <1>2, <1>3, <1>4, Zenon
  DEF Acts, Step, StartAdd, StartDel, Refuse, LockFind, LockGet, GetIterator, SaveLast,
      SaveLastFails, FailGet, LockRelease, FindByID, CheckFails, Crash, store

(* A step of a leaves the memory of the other processes, and what the      *)
(* runtime knows of their attachments, alone.                              *)
LEMMA OthersUnchanged ==
  ASSUME TypeOK, NEW a \in Att, Acts(a), NEW b \in Att, b # a
  PROVE  /\ pc'[b] = pc[b] /\ ip'[b] = ip[b] /\ got'[b] = got[b]
         /\ state'[b] = state[b] /\ live'[b] = live[b]
<1> USE DEF TypeOK, Goto, Become
<1>1. CASE StartAdd(a) \/ StartDel(a) \/ Refuse(a) \/ LockFind(a)
  BY <1>1, Zenon DEF StartAdd, StartDel, Refuse, LockFind, proc
<1>2. CASE LockGet(a) \/ GetIterator(a) \/ WriteOwner(a) \/ SaveLastFails(a)
  BY <1>2, Zenon DEF LockGet, GetIterator, WriteOwner, SaveLastFails, proc
<1>3. CASE GetRequested(a) \/ Scan(a)
  BY <1>3, SMTT(30) DEF GetRequested, Scan, Create
<1>4. CASE SaveLast(a)
  BY <1>4, SMTT(30) DEF SaveLast, Exit, proc
<1>5. CASE FailGet(a) \/ Release(a)
  BY <1>5, SMTT(30) DEF FailGet, Release, Exit, proc
<1>6. CASE LockRelease(a) \/ FindByID(a) \/ CheckFails(a)
  BY <1>6, Zenon DEF LockRelease, FindByID, CheckFails, proc
<1>7. CASE Crash(a)
  BY <1>7, Zenon DEF Crash, Exit
<1>8. QED
  BY <1>1, <1>2, <1>3, <1>4, <1>5, <1>6, <1>7, Zenon DEF Acts, Step

(* Every step keeps what the store and the processes know of each other.   *)
LEMMA NextStoreInv ==
  ASSUME TypeInv, LockInv, StoreInv, NEW a \in Att, Acts(a)
  PROVE  StoreInv'
<1> DEFINE Good(b) ==
      /\ pc[b] = "write" => files[ip[b]] = Blank
      /\ pc[b] = "last" => files[ip[b]] = b
      /\ pc[b] \in Adding => got[b] \subseteq Own(b)
      /\ pc[b] \in {"idle", "look", "lost"} => got[b] = {}
<1>0. SUFFICES ASSUME NEW b \in Att PROVE Good(b)'
  BY Zenon DEF StoreInv
<1>1. CASE b # a
  <2>1. /\ pc'[b] = pc[b] /\ ip'[b] = ip[b] /\ got'[b] = got[b]
    BY <1>1, OthersUnchanged, Zenon DEF TypeInv
  <2>2. pc[b] \in {"write", "last"} => pc[a] \notin Inside /\ ip[b] \in IPs
    BY <1>1, Zenon DEF LockInv, Inside, TypeInv, ProcInv
  <2>3. pc[b] \in {"write", "last"} => files'[ip[b]] = files[ip[b]]
    BY <2>2, FileChange, Zenon
  <2>4. Own(b) \subseteq Own(b)'
    BY <1>1, FileChange, AttachmentsAssumption, Zenon DEF Own
  <2>5. QED
    BY <2>1, <2>3, <2>4, Zenon DEF StoreInv
<1>2. CASE b = a
  <2> USE DEF Goto
  <2>t. pc \in [Att -> Labels] /\ got \in [Att -> SUBSET IPs]
    BY Zenon DEF TypeInv, TypeOK
  <2>o. pc[a] # "walk" => Own(a) \subseteq Own(a)'
    BY FileChange, AttachmentsAssumption, Zenon DEF Own
  <2>x. CASE Exit(a)
    BY <2>x, <1>2, <2>t, Zenon DEF Exit, Adding
  <2>1. CASE StartAdd(a) \/ StartDel(a) \/ Refuse(a) \/ LockFind(a)
    BY <2>1, <1>2, <2>t, <2>o, Zenon
       DEF StartAdd, StartDel, Refuse, LockFind, proc, StoreInv, Adding
  <2>2. CASE LockGet(a) \/ GetIterator(a) \/ SaveLastFails(a)
    BY <2>2, <1>2, <2>t, <2>o, Zenon
       DEF LockGet, GetIterator, SaveLastFails, proc, StoreInv, Adding
  <2>3. CASE GetRequested(a) \/ Scan(a)
    <3>1. pc'[a] = "write" => ip'[a] \in IPs
      <4>1. TypeInv'
        BY NextTypeInv, Zenon DEF Next, Acts
      <4>2. QED
        BY <4>1, Zenon DEF TypeInv, ProcInv
    <3>2. /\ got' = got /\ pc[a] \in {"pick", "scan"}
          /\ pc'[a] \in {"fail", "full", "scan", "write"}
          /\ pc'[a] = "write" => FileSet({ip'[a]}, Blank)
      BY <2>3, <2>t, Zenon DEF GetRequested, Scan, Create, TypeInv, TypeOK
    <3>3. QED
      BY <1>2, <2>o, <3>1, <3>2, Zenon DEF StoreInv, Adding, FileSet
  <2>4. CASE WriteOwner(a)
    <3>1. ip[a] \in IPs /\ ip' = ip /\ got' = got /\ pc[a] = "write"
      BY <2>4, Zenon DEF WriteOwner, TypeInv, ProcInv, proc
    <3>2. pc'[a] = "fail" \/ (pc'[a] = "last" /\ FileSet({ip[a]}, a))
      BY <2>4, <2>t, Zenon DEF WriteOwner
    <3>3. QED
      BY <1>2, <2>o, <3>1, <3>2, Zenon DEF StoreInv, Adding, FileSet
  <2>5. CASE SaveLast(a)
    <3>1. pc[a] = "last" /\ files[ip[a]] = a /\ ip[a] \in IPs /\ files' = files
      BY <2>5, Zenon DEF SaveLast, StoreInv, TypeInv, ProcInv
    <3>2. CASE pc'[a] = "get" /\ got' = [got EXCEPT ![a] = @ \cup {ip[a]}]
      <4>1. got'[a] \subseteq Own(a)
        BY <2>t, <3>1, <3>2, Zenon DEF StoreInv, Adding, Own
      <4>2. Own(a)' = Own(a)
        BY <3>1, Zenon DEF Own
      <4>3. QED
        BY <1>2, <3>2, <4>1, <4>2, Zenon
    <3>3. CASE pc'[a] = "release"
      BY <1>2, <3>3, Zenon DEF Adding
    <3>4. QED
      BY <2>5, <2>t, <2>x, <3>2, <3>3, Zenon DEF SaveLast
  <2>6. CASE FailGet(a) \/ Release(a)
    <3>1. CASE pc'[a] = "release"
      BY <1>2, <3>1, Zenon DEF Adding
    <3>2. QED
      BY <2>6, <2>t, <2>x, <3>1, Zenon DEF FailGet, Release
  <2>7. CASE LockRelease(a)
    BY <2>7, <1>2, <2>t, Zenon DEF LockRelease, Adding
  <2>8. CASE FindByID(a) \/ CheckFails(a)
    BY <2>8, <1>2, <2>t, Zenon DEF FindByID, CheckFails, proc, StoreInv, Adding
  <2>9. CASE Crash(a)
    BY <2>9, <2>x, Zenon DEF Crash
  <2>q. QED
    BY <2>1, <2>2, <2>3, <2>4, <2>5, <2>6, <2>7, <2>8, <2>9, Zenon DEF Acts, Step
<1>3. QED
  BY <1>1, <1>2, Zenon

Inv == TypeInv /\ LockInv /\ StoreInv

(* The inductive invariant holds before any plugin has run.                *)
LEMMA InitInv == Init => Inv
<1> SUFFICES ASSUME Init PROVE Inv
  BY Zenon
<1>1. TypeInv
  BY InitTypeInv, Zenon
<1>2. LockInv
  BY AttachmentsAssumption, Zenon DEF Init, LockInv, Inside
<1>3. StoreInv
  BY Zenon DEF Init, StoreInv, Adding
<1>4. QED
  BY <1>1, <1>2, <1>3, Zenon DEF Inv

(* Every step of every plugin process keeps the inductive invariant.       *)
LEMMA NextInv == Inv /\ [Next]_vars => Inv'
<1> SUFFICES ASSUME Inv, [Next]_vars PROVE Inv'
  BY Zenon
<1>1. TypeInv' /\ LockInv'
  BY NextTypeInv, NextLockInv, Zenon DEF Inv, TypeInv
<1>2. StoreInv'
  <2>1. CASE UNCHANGED vars
    BY <2>1, Zenon DEF Inv, StoreInv, Own, vars, store, proc
  <2>2. CASE Next
    BY <2>2, NextStoreInv, Zenon DEF Inv, Next, Acts
  <2>3. QED
    BY <2>1, <2>2, Zenon
<1>3. QED
  BY <1>1, <1>2, Zenon DEF Inv

(* The inductive invariant: types, mutual exclusion by the file lock, and  *)
(* the files a process in the middle of Get or Release relies on.          *)
THEOREM Invariance == Spec => []Inv
  BY InitInv, NextInv, PTL DEF Spec

(* OnlyOwnerReleases: whatever crashes, fails or is repeated, the file of  *)
(* an attachment goes only in a walk of its own process under the lock.    *)
THEOREM ReservationsAreOwned == Spec => OnlyOwnerReleases
<1>1. ASSUME Inv, [Next]_vars
      PROVE  [\A x \in IPs, a \in Att :
                files[x] = a /\ files'[x] # a => pc[a] = "walk" /\ files'[x] = Free]_vars
  <2>1. CASE UNCHANGED vars
    BY <2>1, Zenon
  <2>2. CASE Next
    BY <1>1, <2>2, FileChange, Zenon DEF Inv, Next, Acts
  <2>3. QED
    BY <1>1, <2>1, <2>2, Zenon
<1>2. QED
  BY <1>1, Invariance, PTL DEF Spec, OnlyOwnerReleases

-----------------------------------------------------------------------------
(* The addresses in use are reserved, and an attachment has some only      *)
(* between a successful ADD and the next DEL.                              *)
LiveInv ==
  \A a \in Att :
    /\ live[a] \subseteq Own(a)
    /\ live[a] # {} => state[a] = "attached" /\ pc[a] \in {"idle", "look", "lost"}

(* Every step keeps the files of the addresses in use, when the runtime    *)
(* does not repeat ADD.                                                    *)
LEMMA NextLiveInv ==
  ASSUME ~RepeatAdd, Inv, LiveInv, NEW a \in Att, Acts(a)
  PROVE  LiveInv'
<1> DEFINE Good(b) ==
      /\ live[b] \subseteq Own(b)
      /\ live[b] # {} => state[b] = "attached" /\ pc[b] \in {"idle", "look", "lost"}
<1>0. SUFFICES ASSUME NEW b \in Att PROVE Good(b)'
  BY Zenon DEF LiveInv
<1>o. b # a \/ pc[a] # "walk" => Own(b) \subseteq Own(b)'
  BY FileChange, AttachmentsAssumption, Zenon DEF Own, Inv
<1>1. CASE b # a
  BY <1>1, <1>o, OthersUnchanged, Zenon DEF Inv, TypeInv, LiveInv
<1>2. CASE b = a
  <2> USE DEF Goto, Become
  <2>t. /\ pc \in [Att -> Labels] /\ live \in [Att -> SUBSET IPs]
        /\ state \in [Att -> States]
    BY Zenon DEF Inv, TypeInv, TypeOK
  <2>e. CASE live'[a] = {}
    BY <1>2, <2>e, Zenon
  <2>1. CASE StartDel(a) \/ Refuse(a)
    BY <2>1, <2>t, <2>e, Zenon DEF StartDel, Refuse
  <2>2. CASE StartAdd(a)
    BY <2>2, <2>t, <2>e, Zenon DEF StartAdd, LiveInv
  <2>3. CASE LockFind(a) \/ FindByID(a) \/ CheckFails(a)
    BY <2>3, <1>2, <1>o, <2>t, Zenon DEF LockFind, FindByID, CheckFails, LiveInv
  <2>4. CASE Crash(a)
    BY <2>4, <1>2, <1>o, <2>t, Zenon DEF Crash, Exit, LiveInv
  <2>5. CASE SaveLast(a) /\ live'[a] # {}
    <3>1. pc[a] = "last" /\ files[ip[a]] = a /\ ip[a] \in IPs /\ files' = files
      BY <2>5, Zenon DEF SaveLast, Inv, StoreInv, TypeInv, ProcInv
    <3>2. live[a] = {} /\ got[a] \subseteq Own(a) /\ Own(a)' = Own(a)
      BY <3>1, Zenon DEF LiveInv, Inv, StoreInv, Adding, Own
    <3>3. /\ live' = [live EXCEPT ![a] = @ \cup got[a] \cup {ip[a]}]
          /\ Become(a, "attached") /\ Exit(a)
      BY <2>5, <3>2, Zenon DEF SaveLast
    <3>4. live'[a] \subseteq Own(a)'
      BY <2>t, <3>1, <3>2, <3>3, Zenon DEF Own
    <3>5. QED
      BY <1>2, <2>t, <3>3, <3>4, Zenon DEF Exit
  <2>6. CASE /\ ~SaveLast(a) /\ pc[a] \notin {"idle", "look", "lost"} /\ Step(a)
    BY <2>6, <2>e, Zenon
    DEF LiveInv, Step, LockGet, GetRequested, GetIterator, Scan, WriteOwner,
        SaveLastFails, FailGet, LockRelease, Release, FindByID, CheckFails
  <2>q. QED
    BY <2>e, <2>1, <2>2, <2>3, <2>4, <2>5, <2>6, Zenon
    DEF Acts, Step, LockGet, GetRequested, GetIterator, Scan, WriteOwner,
        SaveLastFails, FailGet, LockRelease, Release
<1>3. QED
  BY <1>1, <1>2, Zenon

(* The two invariants together hold of every behaviour of the store.       *)
LEMMA LiveInvariance == ~RepeatAdd /\ Spec => [](Inv /\ LiveInv)
<1> SUFFICES ASSUME ~RepeatAdd PROVE Spec => [](Inv /\ LiveInv)
  BY Zenon
<1>1. Init => LiveInv
  BY Zenon DEF Init, LiveInv
<1>2. Inv /\ LiveInv /\ [Next]_vars => LiveInv'
  <2> SUFFICES ASSUME Inv, LiveInv, [Next]_vars PROVE LiveInv'
    BY Zenon
  <2>1. CASE UNCHANGED vars
    BY <2>1, Zenon DEF LiveInv, Own, vars, store
  <2>2. CASE Next
    BY <2>2, NextLiveInv, Zenon DEF Next, Acts
  <2>3. QED
    BY <2>1, <2>2, Zenon
<1>3. QED
  BY <1>1, <1>2, Invariance, PTL DEF Spec

(* LiveReserved: an address handed out by cmdAdd stays reserved for its    *)
(* attachment until the runtime sends DEL, for a runtime that sends no     *)
(* second ADD before.                                                      *)
THEOREM LiveAddressesAreReserved == ~RepeatAdd /\ Spec => []LiveReserved
<1>1. LiveInv => LiveReserved
  BY Zenon DEF LiveInv, LiveReserved
<1>2. QED
  BY <1>1, LiveInvariance, PTL

(* AddressesDisjoint: no two attachments ever have one address in use.     *)
THEOREM NoSharedAddress == ~RepeatAdd /\ Spec => []AddressesDisjoint
<1>1. LiveInv => AddressesDisjoint
  BY DEF LiveInv, AddressesDisjoint, Own
<1>2. QED
  BY <1>1, LiveInvariance, PTL

(* When files can be read, every step keeps CHECK from missing an address  *)
(* in use.                                                                 *)
LEMMA NextCheck ==
  ASSUME ~DiskFaults, Inv, LiveInv, CheckFindsLive, NEW a \in Att, Acts(a)
  PROVE  CheckFindsLive'
<1>0. SUFFICES ASSUME NEW b \in Att, pc'[b] = "lost" PROVE live'[b] = {}
  BY Zenon DEF CheckFindsLive
<1>t. pc \in [Att -> Labels] /\ live \in [Att -> SUBSET IPs]
  BY Zenon DEF Inv, TypeInv, TypeOK
<1>1. CASE b # a
  BY <1>0, <1>1, OthersUnchanged, Zenon DEF Inv, TypeInv, CheckFindsLive
<1>2. CASE b = a /\ FindByID(a)
  <2>1. Own(a) = {} /\ live' = live
    BY <1>0, <1>2, <1>t, Zenon DEF FindByID, Goto, Found
  <2>2. QED
    BY <1>2, <2>1, Zenon DEF LiveInv
<1>3. CASE b = a /\ Refuse(a)
  BY <1>3, <1>t, Zenon DEF Refuse
<1>4. CASE b = a /\ ~FindByID(a) /\ ~Refuse(a)
  <2> USE <1>0, <1>4, <1>t DEF Goto
  <2>1. ~StartAdd(a) /\ ~StartDel(a) /\ ~LockFind(a) /\ ~LockGet(a) /\ ~GetIterator(a)
    BY Zenon DEF StartAdd, StartDel, LockFind, LockGet, GetIterator
  <2>2. ~GetRequested(a) /\ ~Scan(a)
    BY Zenon DEF GetRequested, Scan, Create
  <2>3. ~WriteOwner(a) /\ ~SaveLastFails(a) /\ ~LockRelease(a) /\ ~CheckFails(a)
    BY Zenon DEF WriteOwner, SaveLastFails, LockRelease, CheckFails
  <2>4. ~SaveLast(a) /\ ~FailGet(a) /\ ~Release(a) /\ ~Crash(a)
    BY Zenon DEF SaveLast, FailGet, Release, Crash, Exit
  <2>5. QED
    BY <2>1, <2>2, <2>3, <2>4, Zenon DEF Acts, Step
<1>5. QED
  BY <1>1, <1>2, <1>3, <1>4, Zenon

(* CheckFindsLive: without disk faults FindByID reads every file, and      *)
(* cmdCheck fails only for an attachment without addresses in use.         *)
THEOREM CheckIsTruthful == ~DiskFaults /\ ~RepeatAdd /\ Spec => []CheckFindsLive
<1> SUFFICES ASSUME ~DiskFaults PROVE ~RepeatAdd /\ Spec => []CheckFindsLive
  OBVIOUS
<1>1. Init => CheckFindsLive
  BY Zenon DEF Init, CheckFindsLive
<1>2. Inv /\ LiveInv /\ CheckFindsLive /\ [Next]_vars => CheckFindsLive'
  <2> SUFFICES ASSUME Inv, LiveInv, CheckFindsLive, [Next]_vars PROVE CheckFindsLive'
    BY Zenon
  <2>1. CASE UNCHANGED vars
    BY <2>1, Zenon DEF CheckFindsLive, vars
  <2>2. CASE Next
    BY <2>2, NextCheck, Zenon DEF Next, Acts
  <2>3. QED
    BY <2>1, <2>2, Zenon
<1>3. QED
  BY <1>1, <1>2, LiveInvariance, PTL DEF Spec

-----------------------------------------------------------------------------
(* Every step of host-local is a step of the contract, or none.  The       *)
(* contract sees Own(b) and live[b] for every attachment b.                *)
LEMMA StepKeepsContract ==
  ASSUME ~RepeatAdd, Inv, LiveInv, NEW a \in Att, Acts(a)
  PROVE  [Contract!Next]_(Contract!vars)
<1> DEFINE held == [b \in Att |-> Own(b)]
<1> USE AttachmentsAssumption
<1>t. /\ pc \in [Att -> Labels] /\ live \in [Att -> SUBSET IPs]
      /\ files \in [IPs -> {Free, Blank} \cup Att \cup Containers]
  BY Zenon DEF Inv, TypeInv, TypeOK
<1>s. ASSUME \A b \in Att : Own(b)' = Own(b), live' = live
      PROVE  [Contract!Next]_(Contract!vars)
  <2>1. held' = held
    BY <1>s, Zenon
  <2>2. QED
    BY <1>s, <2>1, Zenon DEF Contract!vars
<1>f. files' = files => \A b \in Att : Own(b)' = Own(b)
  BY Zenon DEF Own
<1>1. CASE StartDel(a) \/ Refuse(a)
  <2>1. files' = files /\ live' = [live EXCEPT ![a] = {}]
    BY <1>1, Zenon DEF StartDel, Refuse, store
  <2>2. held' = held
    BY <2>1, <1>f, Zenon
  <2>3. Contract!GiveUp(a)
    BY <2>1, <2>2, Zenon DEF Contract!GiveUp
  <2>4. QED
    BY <2>3, Zenon DEF Contract!Next
<1>2. CASE GetRequested(a) \/ Scan(a)
  <2>1. live' = live
    BY <1>2, Zenon DEF GetRequested, Scan
  <2>2. files' = files \/ \E y : files[y] = Free /\ FileSet({y}, Blank)
    BY <1>2, Zenon DEF GetRequested, Scan, Create
  <2>3. \A b \in Att : Own(b)' = Own(b)
    BY <2>2, Zenon DEF FileSet, Own
  <2>4. QED
    BY <1>s, <2>1, <2>3, Zenon
<1>3. CASE WriteOwner(a)
  <2>1. /\ pc[a] = "write" /\ ip[a] \in IPs /\ files[ip[a]] = Blank
        /\ live[a] = {} /\ live' = live
    BY <1>3, Zenon DEF WriteOwner, Inv, StoreInv, TypeInv, ProcInv, LiveInv
  <2>2. CASE FileSet({ip[a]}, a)
    <3>1. \A b \in Att : ip[a] \notin Own(b)
      BY <2>1, Zenon DEF Own
    <3>2. Own(a)' = Own(a) \cup {ip[a]} /\ \A b \in Att \ {a} : Own(b)' = Own(b)
      BY <2>1, <2>2, Zenon DEF FileSet, Own
    <3>3. held' = [held EXCEPT ![a] = @ \cup {ip[a]}]
      BY <3>2, Zenon
    <3>4. Contract!Reserve(a, ip[a])
      BY <2>1, <3>1, <3>3, Zenon DEF Contract!Reserve
    <3>5. QED
      BY <2>1, <3>4, Zenon DEF Contract!Next
  <2>3. CASE \E v \in {Free, Blank} : FileSet({ip[a]}, v)
    <3>1. \A b \in Att : Own(b)' = Own(b)
      BY <2>1, <2>3 DEF FileSet, Own
    <3>2. QED
      BY <1>s, <2>1, <3>1, Zenon
  <2>4. QED
    BY <1>3, <2>2, <2>3, Zenon DEF WriteOwner
<1>4. CASE SaveLast(a)
  <2>1. /\ pc[a] = "last" /\ ip[a] \in IPs /\ files[ip[a]] = a /\ files' = files
        /\ live[a] = {} /\ got[a] \subseteq Own(a)
    BY <1>4, Zenon DEF SaveLast, Inv, StoreInv, TypeInv, ProcInv, LiveInv, Adding
  <2>2. CASE live' = live
    BY <1>s, <1>f, <2>1, <2>2, Zenon
  <2>3. CASE live' = [live EXCEPT ![a] = @ \cup got[a] \cup {ip[a]}]
    <3>1. /\ live' = [live EXCEPT ![a] = live'[a]]
          /\ live'[a] \subseteq Own(a)
      BY <1>t, <2>1, <2>3, Zenon DEF Own
    <3>2. held' = held
      BY <1>f, <2>1, Zenon
    <3>3. Contract!HandOut(a, live'[a])
      BY <2>1, <3>1, <3>2, Zenon DEF Contract!HandOut
    <3>4. QED
      BY <3>3, Zenon DEF Contract!Next
  <2>4. QED
    BY <1>4, <2>2, <2>3, Zenon DEF SaveLast
<1>5. CASE Release(a) \/ (Crash(a) /\ pc[a] = "walk")
  <2>1. pc[a] = "walk" /\ live' = live /\ live[a] = {}
    BY <1>5, Zenon DEF Release, Crash, LiveInv
  <2>2. PICK S \in SUBSET (Own(a) \cup Legacy(a)) : FileSet(S, Free)
    BY <1>5, RemovedOwn, Zenon DEF Release, Crash
  <2>3. Own(a)' \subseteq Own(a) /\ \A b \in Att \ {a} : Own(b)' = Own(b)
    BY <2>2, Zenon DEF FileSet, Own, Legacy
  <2>4. held' = [held EXCEPT ![a] = @ \ (held[a] \ held'[a])]
    BY <2>3, Zenon
  <2>5. Contract!Withdraw(a, held[a] \ held'[a])
    BY <2>1, <2>4, Zenon DEF Contract!Withdraw
  <2>6. QED
    BY <2>5, Zenon DEF Contract!Next
<1>6. CASE files' = files /\ live' = live
  BY <1>6, <1>s, <1>f, Zenon
<1>7. QED
  BY <1>1, <1>2, <1>3, <1>4, <1>5, <1>6, Zenon
  DEF Acts, Step, StartAdd, LockFind, LockGet, GetIterator, SaveLastFails, FailGet,
      LockRelease, FindByID, CheckFails, Crash, store

(* KeepsContract: host-local implements the contract of an IPAM plugin.    *)
THEOREM Implements == ~RepeatAdd /\ Spec => KeepsContract
<1> SUFFICES ASSUME ~RepeatAdd PROVE Spec => KeepsContract
  BY Zenon
<1>1. Init => Contract!Init
  <2> SUFFICES ASSUME Init PROVE Contract!Init
    BY Zenon
  <2>1. \A b \in Att : Own(b) = {}
    BY OldStoreAssumption, AttachmentsAssumption, Zenon DEF Init, Own
  <2>2. live = [b \in Att |-> {}]
    BY Zenon DEF Init
  <2>3. QED
    BY <2>1, <2>2, Zenon DEF Contract!Init
<1>2. Inv /\ LiveInv /\ [Next]_vars => [Contract!Next]_(Contract!vars)
  <2> SUFFICES ASSUME Inv, LiveInv, [Next]_vars PROVE [Contract!Next]_(Contract!vars)
    BY Zenon
  <2>1. CASE UNCHANGED vars
    BY <2>1, Zenon DEF vars, store, Own, Contract!vars
  <2>2. CASE Next
    BY <2>2, StepKeepsContract, Zenon DEF Next, Acts
  <2>3. QED
    BY <2>1, <2>2, Zenon
<1>3. QED
  BY <1>1, <1>2, LiveInvariance, PTL DEF Spec, KeepsContract, Contract!Spec

-----------------------------------------------------------------------------
(* What the calls of host-local leave in the store and return.             *)

(* The places of a process that is not working on the store's files.       *)
Resting == {"idle", "look", "lost"}

(* The files that name b are b's own affair: a step of another process     *)
(* neither adds one (WriteOwner writes its own key into the file it has    *)
(* created) nor removes one.                                               *)
LEMMA OthersKeepOwn ==
  ASSUME Inv, NEW a \in Att, Acts(a), NEW b \in Att, b # a
  PROVE  Own(b)' = Own(b)
<1> USE AttachmentsAssumption
<1>1. Own(b) \subseteq Own(b)'
  BY FileChange, Zenon DEF Own, Inv
<1>2. CASE files' = files
  BY <1>2, Zenon DEF Own
<1>3. CASE GetRequested(a) \/ Scan(a)
  <2>1. files' = files \/ \E y : files[y] = Free /\ FileSet({y}, Blank)
    BY <1>3, Zenon DEF GetRequested, Scan, Create
  <2>2. QED
    BY <1>1, <2>1, Zenon DEF FileSet, Own
<1>4. CASE WriteOwner(a)
  <2>1. \E v \in {a, Free, Blank} : FileSet({ip[a]}, v)
    BY <1>4, Zenon DEF WriteOwner
  <2>2. QED
    BY <1>1, <2>1, Zenon DEF FileSet, Own
<1>5. CASE Release(a) \/ (Crash(a) /\ pc[a] = "walk")
  <2>1. \E S : FileSet(S, Free)
    BY <1>5, Zenon DEF Release, Crash
  <2>2. QED
    BY <1>1, <2>1, Zenon DEF FileSet, Own
<1>6. QED
  BY <1>2, <1>3, <1>4, <1>5, Zenon
  DEF Acts, Step, StartAdd, StartDel, Refuse, LockFind, LockGet, GetIterator, SaveLast,
      SaveLastFails, FailGet, LockRelease, FindByID, CheckFails, Crash, store

(* A step of a leaves the other processes at the range set they were at.   *)
LEMMA OthersKeepIdx ==
  ASSUME idx \in [Att -> DOMAIN Sets], NEW a \in Att, Acts(a), NEW b \in Att, b # a
  PROVE  idx'[b] = idx[b]
<1>1. CASE idx' = idx
  BY <1>1, Zenon
<1>2. CASE SaveLast(a)
  BY <1>2, Zenon DEF SaveLast, Exit, proc
<1>3. CASE Exit(a)
  BY <1>3, Zenon DEF Exit
<1>4. QED
  BY <1>1, <1>2, <1>3, Zenon
  DEF Acts, Step, StartAdd, StartDel, Refuse, LockFind, LockGet, GetRequested, GetIterator,
      Scan, WriteOwner, SaveLastFails, FailGet, LockRelease, Release, FindByID, CheckFails,
      Crash, proc

(* Only WriteOwner reserves an address: any other step of a process leaves *)
(* it with the addresses it had, or fewer.                                 *)
LEMMA OnlyWriteReserves ==
  ASSUME Inv, NEW a \in Att, Acts(a), pc[a] # "write"
  PROVE  Own(a)' \subseteq Own(a)
<1> USE AttachmentsAssumption
<1>1. CASE files' = files
  BY <1>1, Zenon DEF Own
<1>2. CASE GetRequested(a) \/ Scan(a)
  <2>1. files' = files \/ \E y : FileSet({y}, Blank)
    BY <1>2, Zenon DEF GetRequested, Scan, Create
  <2>2. QED
    BY <2>1, Zenon DEF FileSet, Own
<1>3. CASE Release(a) \/ (Crash(a) /\ pc[a] = "walk")
  <2>1. \E S : FileSet(S, Free)
    BY <1>3, Zenon DEF Release, Crash
  <2>2. QED
    BY <2>1, Zenon DEF FileSet, Own
<1>4. QED
  BY <1>1, <1>2, <1>3, Zenon
  DEF Acts, Step, StartAdd, StartDel, Refuse, LockFind, LockGet, GetIterator, SaveLast,
      WriteOwner, SaveLastFails, FailGet, LockRelease, FindByID, CheckFails, Crash, store

(* On a disk without faults one ReleaseByID leaves no file that names the  *)
(* attachment: the first walk removes them all, the second runs only when  *)
(* there were none.                                                        *)
LEMMA ReleaseEmpties ==
  ASSUME ~DiskFaults, NEW a \in Att, Release(a)
  PROVE  Own(a)' = {}
<1> USE AttachmentsAssumption
<1>1. FileSet(IF Own(a) # {} THEN Own(a) ELSE Legacy(a), Free)
  BY Zenon DEF Release, Removed
<1>2. QED
  BY <1>1, Zenon DEF FileSet, Own

-----------------------------------------------------------------------------
(* Nothing is reserved for what DEL has detached, nor, unless ADD is       *)
(* repeated, by an ADD before its first Reserve or after its failure; a    *)
(* process at rest would begin with the first range set.                   *)
ReleaseInv ==
  \A a \in Att :
    /\ pc[a] \in Resting => idx[a] = 1
    /\ state[a] = "detached" => Own(a) = {} /\ pc[a] \in Resting
    /\ ~RepeatAdd =>
         /\ pc[a] \in Adding \ {"last"} /\ idx[a] = 1 => Own(a) = {}
         /\ state[a] = "failed" => Own(a) = {} /\ pc[a] \in Resting

(* Every step keeps it, on a disk without faults.                          *)
LEMMA NextReleaseInv ==
  ASSUME ~DiskFaults, Inv, ReleaseInv, NEW a \in Att, Acts(a)
  PROVE  ReleaseInv'
<1> DEFINE Good(b) ==
      /\ pc[b] \in Resting => idx[b] = 1
      /\ state[b] = "detached" => Own(b) = {} /\ pc[b] \in Resting
      /\ ~RepeatAdd =>
           /\ pc[b] \in Adding \ {"last"} /\ idx[b] = 1 => Own(b) = {}
           /\ state[b] = "failed" => Own(b) = {} /\ pc[b] \in Resting
<1>0. SUFFICES ASSUME NEW b \in Att PROVE Good(b)'
  BY Zenon DEF ReleaseInv
<1>g. Good(b)
  BY Zenon DEF ReleaseInv
<1>t. /\ pc \in [Att -> Labels] /\ state \in [Att -> States]
      /\ idx \in [Att -> DOMAIN Sets]
  BY Zenon DEF Inv, TypeInv, TypeOK
<1>1. CASE b # a
  <2>1. Own(b)' = Own(b) /\ pc'[b] = pc[b] /\ state'[b] = state[b]
    BY <1>1, OthersKeepOwn, OthersUnchanged, Zenon DEF Inv, TypeInv
  <2>2. idx'[b] = idx[b]
    BY <1>1, <1>t, OthersKeepIdx, Zenon
  <2>3. QED
    BY <1>g, <2>1, <2>2, Zenon
<1>2. CASE b = a
  <2> USE DEF Goto, Become, Resting, Adding
  <2>o. pc[a] # "write" => Own(a)' \subseteq Own(a)
    BY OnlyWriteReserves, Zenon
  <2>1. CASE StartAdd(a)
    BY <2>1, <1>2, <1>g, <1>t, <2>o, Zenon DEF StartAdd
  <2>2. CASE StartDel(a) \/ Refuse(a) \/ LockFind(a)
    BY <2>2, <1>2, <1>g, <1>t, <2>o, Zenon DEF StartDel, Refuse, LockFind, proc
  <2>3. CASE LockGet(a) \/ GetIterator(a)
    BY <2>3, <1>2, <1>g, <1>t, <2>o, Zenon DEF LockGet, GetIterator
  <2>4. CASE GetRequested(a) \/ Scan(a)
    BY <2>4, <1>2, <1>g, <1>t, <2>o, Zenon DEF GetRequested, Scan, Create
  <2>5. CASE WriteOwner(a) \/ SaveLastFails(a)
    BY <2>5, <1>2, <1>g, <1>t, Zenon DEF WriteOwner, SaveLastFails, proc
  <2>6. CASE SaveLast(a)
    <3>1. idx[a] + 1 # 1
      BY <1>t, RangeSets
    <3>2. QED
      BY <2>6, <1>2, <1>g, <1>t, <3>1, Zenon DEF SaveLast, Exit, proc
  <2>7. CASE FailGet(a)
    BY <2>7, <1>2, <1>g, <1>t, <2>o, Zenon DEF FailGet, Exit, proc
  <2>8. CASE LockRelease(a)
    BY <2>8, <1>2, <1>g, <1>t, Zenon DEF LockRelease, proc
  <2>9. CASE Release(a)
    <3>1. Own(a)' = {}
      BY <2>9, ReleaseEmpties, Zenon
    <3>2. QED
      BY <2>9, <1>2, <1>g, <1>t, <3>1, Zenon DEF Release, Exit, proc
  <2>10. CASE FindByID(a) \/ CheckFails(a)
    BY <2>10, <1>2, <1>g, <1>t, <2>o, Zenon DEF FindByID, CheckFails, proc
  <2>11. CASE Crash(a)
    BY <2>11, <1>2, <1>g, <1>t, <2>o, Zenon DEF Crash, Exit
  <2>q. QED
    BY <2>1, <2>2, <2>3, <2>4, <2>5, <2>6, <2>7, <2>8, <2>9, <2>10, <2>11, Zenon DEF Acts, Step
<1>3. QED
  BY <1>1, <1>2, Zenon

(* It holds of every behaviour on a disk without faults.                   *)
LEMMA ReleaseInvariance == ~DiskFaults /\ Spec => []ReleaseInv
<1> SUFFICES ASSUME ~DiskFaults PROVE Spec => []ReleaseInv
  BY Zenon
<1>1. Init => ReleaseInv
  <2> SUFFICES ASSUME Init PROVE ReleaseInv
    BY Zenon
  <2>1. \A a \in Att : Own(a) = {}
    BY OldStoreAssumption, AttachmentsAssumption, Zenon DEF Init, Own
  <2>2. QED
    BY <2>1, Zenon DEF Init, ReleaseInv, Resting
<1>2. Inv /\ ReleaseInv /\ [Next]_vars => ReleaseInv'
  <2> SUFFICES ASSUME Inv, ReleaseInv, [Next]_vars PROVE ReleaseInv'
    BY Zenon
  <2>1. CASE UNCHANGED vars
    BY <2>1, Zenon DEF ReleaseInv, Own, vars, store, proc
  <2>2. CASE Next
    BY <2>2, NextReleaseInv, Zenon DEF Next, Acts
  <2>3. QED
    BY <2>1, <2>2, Zenon
<1>3. QED
  BY <1>1, <1>2, Invariance, PTL DEF Spec

(* DelReleasesAll: when cmdDel has returned nothing is reserved for the    *)
(* attachment, whatever call of it crashed or was repeated before, on a    *)
(* disk without faults.                                                    *)
THEOREM DelLeavesNoReservation == ~DiskFaults /\ Spec => []DelReleasesAll
<1>1. ReleaseInv => DelReleasesAll
  BY Zenon DEF ReleaseInv, DelReleasesAll
<1>2. QED
  BY <1>1, ReleaseInvariance, PTL

(* FailedAddLeavesNothing: the rollback of cmdAdd releases all that the    *)
(* failed call had reserved, on a disk without faults and for a runtime    *)
(* that does not repeat ADD.                                               *)
THEOREM FailedAddRollsBack == ~DiskFaults /\ ~RepeatAdd /\ Spec => []FailedAddLeavesNothing
<1> SUFFICES ASSUME ~RepeatAdd PROVE ~DiskFaults /\ Spec => []FailedAddLeavesNothing
  BY Zenon
<1>1. ReleaseInv => FailedAddLeavesNothing
  BY Zenon DEF ReleaseInv, FailedAddLeavesNothing
<1>2. QED
  BY <1>1, ReleaseInvariance, PTL

-----------------------------------------------------------------------------
(* A set of addresses has exactly one of range set i, and may have it.     *)
Covers(S, i) == \E x \in Allocatable(i) : S \cap {y \in IPs : InSet(i, y)} = {x}

(* The loop of cmdAdd: one address of every range set before idx, none of  *)
(* the others; the address Reserve is at may be handed out; and a result   *)
(* covers every range set.                                                 *)
CoverInv ==
  \A a \in Att :
    /\ pc[a] \in Resting => idx[a] = 1
    /\ pc[a] \in Adding =>
         \A i \in DOMAIN Sets :
           /\ i < idx[a] => Covers(got[a], i)
           /\ idx[a] <= i => got[a] \cap {y \in IPs : InSet(i, y)} = {}
    /\ pc[a] \in {"write", "last"} => ip[a] \in Allocatable(idx[a])
    /\ live[a] # {} => \A i \in DOMAIN Sets : Covers(live[a], i)

(* The gateway Next compares with is the gateway of the range the address  *)
(* belongs to, since the ranges of a set do not overlap.                   *)
LEMMA FoundIsAllocatable ==
  ASSUME NEW i \in DOMAIN Sets, NEW k \in DOMAIN Sets[i], NEW x \in IPs,
         Contains(Sets[i][k], x), x # Sets[i][k].gateway
  PROVE  x \in Allocatable(i)
<1>1. SetContains(Sets[i], x)
  BY Zenon DEF SetContains
<1>2. /\ Len(Sets[i]) \in Nat \ {0} /\ DOMAIN Sets[i] = 1 .. Len(Sets[i])
      /\ \A j \in DOMAIN Sets[i] : Contains(Sets[i][j], x) => j = k
  BY RangeSetsAssumption, Zenon DEF Searchable
<1>3. RangeFor(Sets[i], x) \in DOMAIN Sets[i] /\ Contains(Sets[i][RangeFor(Sets[i], x)], x)
  BY <1>1, <1>2, RangeForContains, Zenon
<1>4. RangeFor(Sets[i], x) = k
  BY <1>2, <1>3, Zenon
<1>5. QED
  BY <1>1, <1>4, Zenon DEF Allocatable, InSet

(* Adding the address of range set n to what the loop had collected.       *)
LEMMA OneMoreSet ==
  ASSUME NEW n \in DOMAIN Sets, NEW S \in SUBSET IPs, NEW x \in Allocatable(n),
         \A i \in DOMAIN Sets : /\ i < n => Covers(S, i)
                                /\ n <= i => S \cap {y \in IPs : InSet(i, y)} = {}
  PROVE  \A i \in DOMAIN Sets :
           /\ i < n + 1 => Covers(S \cup {x}, i)
           /\ n + 1 <= i => (S \cup {x}) \cap {y \in IPs : InSet(i, y)} = {}
<1> DEFINE In(i) == {y \in IPs : InSet(i, y)}
<1>x. x \in IPs /\ InSet(n, x)
  BY Zenon DEF Allocatable
<1>0. TAKE i \in DOMAIN Sets
<1>n. n \in Int /\ i \in Int
  BY RangeSets
<1>1. i # n => x \notin In(i)
  BY <1>x, RangeSets, Zenon
<1>2. CASE i < n
  <2>1. (S \cup {x}) \cap In(i) = S \cap In(i)
    BY <1>1, <1>2, <1>n
  <2>2. Covers(S \cup {x}, i)
    BY <1>2, <2>1, Zenon DEF Covers
  <2>3. QED
    BY <1>2, <1>n, <2>2
<1>3. CASE i = n
  <2>1. (S \cup {x}) \cap In(i) = {x}
    BY <1>3, <1>x, <1>n
  <2>2. Covers(S \cup {x}, i)
    BY <1>3, <2>1, Zenon DEF Covers
  <2>3. QED
    BY <1>3, <1>n, <2>2
<1>4. CASE n < i
  <2>1. (S \cup {x}) \cap In(i) = {}
    BY <1>1, <1>4, <1>n
  <2>2. QED
    BY <1>4, <1>n, <2>1
<1>5. QED
  BY <1>n, <1>2, <1>3, <1>4

(* Reserve is called with an address that may be handed out, requested or  *)
(* found.                                                                  *)
LEMMA ReservedIsAllocatable ==
  ASSUME Inv, NEW a \in Att, GetRequested(a) \/ Scan(a), pc'[a] = "write"
  PROVE  ip'[a] \in Allocatable(idx[a])
<1>t. /\ pc \in [Att -> Labels] /\ idx[a] \in DOMAIN Sets /\ DOMAIN ip = Att
      /\ req[a] \in Requestable \cup {NoIP}
      /\ it[a] \in [idx : Nat, cur : IPs \cup {NoIP}, start : IPs \cup {NoIP}]
  BY Zenon DEF Inv, TypeInv, TypeOK
<1>1. CASE GetRequested(a)
  <2>1. /\ req[a] # Sets[idx[a]][RangeFor(Sets[idx[a]], req[a])].gateway
        /\ ip'[a] = req[a] /\ pc[a] = "pick" /\ req[a] # NoIP
    BY <1>1, <1>t, Zenon DEF GetRequested, Create, Goto
  <2>2. InSet(idx[a], req[a])
    BY <2>1, Zenon DEF Inv, TypeInv, ProcInv
  <2>3. req[a] \in IPs
    BY <1>t, <2>1, <2>2, RequestInIPs, Zenon
  <2>4. QED
    BY <2>1, <2>2, <2>3, Zenon DEF Allocatable
<1>2. CASE Scan(a)
  <2> DEFINE n == Advance(Sets[idx[a]], it[a])
  <2>1. n.cur # Sets[idx[a]][n.idx].gateway /\ ip'[a] = n.cur /\ pc[a] = "scan"
    BY <1>2, <1>t, Zenon DEF Scan, Create, Goto, AtGateway
  <2>2. IterOK(a)
    BY <2>1, Zenon DEF Inv, TypeInv, ProcInv
  <2>3. /\ n.idx \in DOMAIN Sets[idx[a]] /\ n.cur \in IPs
        /\ Contains(Sets[idx[a]][n.idx], n.cur)
    BY <1>t, <2>2, AdvanceOK, RangeSets, Zenon DEF IterOK
  <2>4. QED
    BY <1>t, <2>1, <2>3, FoundIsAllocatable, Zenon
<1>3. QED
  BY <1>1, <1>2, Zenon

(* Every step keeps CoverInv, when the runtime does not repeat ADD.        *)
LEMMA NextCoverInv ==
  ASSUME Inv, LiveInv, CoverInv, ~RepeatAdd, NEW a \in Att, Acts(a)
  PROVE  CoverInv'
<1> DEFINE Loop(b) == pc[b] \in Adding =>
                        \A i \in DOMAIN Sets :
                          /\ i < idx[b] => Covers(got[b], i)
                          /\ idx[b] <= i => got[b] \cap {y \in IPs : InSet(i, y)} = {}
           Result(b) == live[b] # {} => \A i \in DOMAIN Sets : Covers(live[b], i)
           Good(b) == /\ pc[b] \in Resting => idx[b] = 1
                      /\ Loop(b)
                      /\ pc[b] \in {"write", "last"} => ip[b] \in Allocatable(idx[b])
                      /\ Result(b)
<1>0. SUFFICES ASSUME NEW b \in Att PROVE Good(b)'
  BY Zenon DEF CoverInv
<1>g. Good(b)
  BY Zenon DEF CoverInv
<1>t. /\ pc \in [Att -> Labels] /\ idx \in [Att -> DOMAIN Sets] /\ got \in [Att -> SUBSET IPs]
      /\ live \in [Att -> SUBSET IPs]
  BY Zenon DEF Inv, TypeInv, TypeOK
<1>1. CASE b # a
  <2>1. /\ pc'[b] = pc[b] /\ ip'[b] = ip[b] /\ got'[b] = got[b] /\ live'[b] = live[b]
    BY <1>1, OthersUnchanged, Zenon DEF Inv, TypeInv
  <2>2. idx'[b] = idx[b]
    BY <1>1, <1>t, OthersKeepIdx, Zenon
  <2>3. QED
    BY <1>g, <2>1, <2>2, Zenon
<1>2. CASE b = a
  <2> USE DEF Goto, Become, Resting, Adding
  <2>l. pc[a] \notin Resting => live[a] = {}
    BY Zenon DEF LiveInv
  <2>z. 1 \in DOMAIN Sets /\ \A i \in DOMAIN Sets : ~(i < 1)
    BY RangeSets
  <2>1. CASE StartAdd(a)
    <3>1. pc'[a] = "get" /\ idx'[a] = 1 /\ got'[a] = {} /\ live' = live
      BY <2>1, <1>2, <1>g, <1>t, Zenon DEF StartAdd, Inv, StoreInv
    <3>2. QED
      BY <1>2, <1>g, <2>z, <3>1, Zenon
  <2>2. CASE StartDel(a) \/ Refuse(a) \/ LockFind(a)
    BY <2>2, <1>2, <1>g, <1>t, Zenon DEF StartDel, Refuse, LockFind, proc
  <2>3. CASE LockGet(a) \/ GetIterator(a)
    BY <2>3, <1>2, <1>g, <1>t, Zenon DEF LockGet, GetIterator
  <2>4. CASE GetRequested(a) \/ Scan(a)
    <3>1. /\ pc[a] \in Adding /\ pc'[a] \in {"write", "fail", "scan", "full"}
          /\ UNCHANGED <<idx, got, live>>
      BY <2>4, <1>t, Zenon DEF GetRequested, Scan, Create
    <3>2. pc'[a] = "write" => ip'[a] \in Allocatable(idx[a])
      BY <2>4, ReservedIsAllocatable, Zenon
    <3>3. QED
      BY <1>2, <1>g, <3>1, <3>2, Zenon
  <2>5. CASE WriteOwner(a) \/ SaveLastFails(a)
    BY <2>5, <1>2, <1>g, <1>t, Zenon DEF WriteOwner, SaveLastFails, proc
  <2>6. CASE SaveLast(a)
    <3>1. /\ pc[a] = "last" /\ ip[a] \in Allocatable(idx[a]) /\ live[a] = {}
          /\ idx[a] \in DOMAIN Sets /\ got[a] \in SUBSET IPs
      BY <2>6, <1>2, <1>g, <1>t, <2>l, Zenon DEF SaveLast
    <3>2. \A i \in DOMAIN Sets :
            /\ i < idx[a] + 1 => Covers(got[a] \cup {ip[a]}, i)
            /\ idx[a] + 1 <= i => (got[a] \cup {ip[a]}) \cap {y \in IPs : InSet(i, y)} = {}
      <4>1. \A i \in DOMAIN Sets :
              /\ i < idx[a] => Covers(got[a], i)
              /\ idx[a] <= i => got[a] \cap {y \in IPs : InSet(i, y)} = {}
        BY <3>1, <1>2, <1>g, Zenon
      <4>2. QED
        BY <3>1, <4>1, OneMoreSet, Zenon
    <3>3. CASE /\ pc'[a] = "get" /\ live' = live
               /\ idx' = [idx EXCEPT ![a] = @ + 1]
               /\ got' = [got EXCEPT ![a] = @ \cup {ip[a]}]
      <4>1. idx'[a] = idx[a] + 1 /\ got'[a] = got[a] \cup {ip[a]} /\ live'[a] = {}
        BY <3>1, <3>3, <1>t, Zenon
      <4>2. QED
        BY <1>2, <3>2, <3>3, <4>1, Zenon
    <3>4. CASE pc'[a] = "release" /\ live' = live
      BY <1>2, <1>g, <3>4, Zenon
    <3>5. CASE /\ idx[a] = Len(Sets) /\ Exit(a)
               /\ live' = [live EXCEPT ![a] = @ \cup got[a] \cup {ip[a]}]
      <4>1. live'[a] = got[a] \cup {ip[a]} /\ pc'[a] = "idle" /\ idx'[a] = 1
        BY <3>1, <3>5, <1>t, Zenon DEF Exit
      <4>2. \A i \in DOMAIN Sets : i < idx[a] + 1
        BY <3>5, RangeSets
      <4>3. QED
        BY <1>2, <3>2, <4>1, <4>2, Zenon
    <3>6. QED
      BY <2>6, <1>t, <3>3, <3>4, <3>5, Zenon DEF SaveLast
  <2>7. CASE FailGet(a)
    BY <2>7, <1>2, <1>g, <1>t, SMTT(30) DEF FailGet, Exit, proc
  <2>8. CASE LockRelease(a) \/ Release(a)
    BY <2>8, <1>2, <1>g, <1>t, SMTT(30) DEF LockRelease, Release, Exit, proc
  <2>9. CASE FindByID(a) \/ CheckFails(a)
    BY <2>9, <1>2, <1>g, <1>t, Zenon DEF FindByID, CheckFails, proc
  <2>10. CASE Crash(a)
    BY <2>10, <1>2, <1>g, <1>t, Zenon DEF Crash, Exit
  <2>q. QED
    BY <2>1, <2>2, <2>3, <2>4, <2>5, <2>6, <2>7, <2>8, <2>9, <2>10, Zenon DEF Acts, Step
<1>3. QED
  BY <1>1, <1>2, Zenon

(* AddCoversEverySet: a result of cmdAdd has exactly one address of every  *)
(* range set and no gateway, with crashes, disk faults and requests for    *)
(* addresses, for a runtime that does not repeat ADD.                      *)
THEOREM ResultsCoverEverySet == ~RepeatAdd /\ Spec => []AddCoversEverySet
<1> SUFFICES ASSUME ~RepeatAdd PROVE Spec => []AddCoversEverySet
  BY Zenon
<1>1. Init => CoverInv
  BY DEF Init, CoverInv, Adding
<1>2. Inv /\ LiveInv /\ CoverInv /\ [Next]_vars => CoverInv'
  <2> SUFFICES ASSUME Inv, LiveInv, CoverInv, [Next]_vars PROVE CoverInv'
    BY Zenon
  <2>1. CASE UNCHANGED vars
    BY <2>1, Zenon DEF CoverInv, vars, proc
  <2>2. CASE Next
    BY <2>2, NextCoverInv, Zenon DEF Next, Acts
  <2>3. QED
    BY <2>1, <2>2, Zenon
<1>3. CoverInv => AddCoversEverySet
  BY Zenon DEF CoverInv, AddCoversEverySet, Covers
<1>4. QED
  BY <1>1, <1>2, <1>3, LiveInvariance, PTL DEF Spec

-----------------------------------------------------------------------------
(* The search of Get through a range set.                                  *)

(* The addresses Get may hand out are addresses of the range set, which a  *)
(* search can follow.                                                      *)
LEMMA SetSearchable ==
  ASSUME NEW i \in DOMAIN Sets
  PROVE  /\ Searchable(Sets[i], IPs)
         /\ Allocatable(i) \subseteq Members(Sets[i], IPs)
<1>1. Searchable(Sets[i], IPs)
  BY RangeSetsAssumption, Zenon
<1>2. QED
  BY <1>1, Zenon DEF Allocatable, Members, InSet

(* When a search resumes after p and starts at x, the addresses between p  *)
(* and n are those it has seen when it reaches n.                          *)
LEMMA PassedSeen ==
  ASSUME NEW i \in DOMAIN Sets,
         NEW p \in Members(Sets[i], IPs), NEW x \in Members(Sets[i], IPs),
         NEW c \in Members(Sets[i], IPs), NEW n \in Members(Sets[i], IPs),
         Follows(Sets[i], IPs, p, x), Follows(Sets[i], IPs, c, n), n # x
  PROVE  Passed(i, p, n) \subseteq Seen(Sets[i], IPs, x, c)
<1> DEFINE s == Sets[i]
           M == Members(s, IPs)
<1>1. Searchable(s, IPs) /\ Allocatable(i) \subseteq M
  BY SetSearchable, Zenon
<1>2. /\ \A y \in M : ~Before(s, y, y)
      /\ \A y, z \in M : y = z \/ Before(s, y, z) \/ Before(s, z, y)
      /\ \A y, z, u \in M : Before(s, y, z) /\ Before(s, z, u) => Before(s, y, u)
  BY <1>1, BeforeOrder, Zenon
<1>3. Passed(i, p, n) \subseteq Seen(s, IPs, x, n) \ {n}
  <2>1. SUFFICES ASSUME NEW z \in Passed(i, p, n)
                 PROVE  z \in Seen(s, IPs, x, n) /\ z # n
    BY Zenon
  <2>2. z \in M /\ IF Before(s, p, n) THEN Before(s, p, z) /\ Before(s, z, n)
                    ELSE Before(s, p, z) \/ Before(s, z, n)
    BY <1>1, Zenon DEF Passed
  <2>3. z # n
    BY <1>2, <2>2, Zenon
  <2>4. z \in Seen(s, IPs, x, n)
    BY <1>2, <2>2, Zenon DEF Seen, Follows
  <2>5. QED
    BY <2>3, <2>4, Zenon
<1>4. Seen(s, IPs, x, n) = Seen(s, IPs, x, c) \cup {n}
  BY <1>1, SeenOneMore
<1>5. QED
  BY <1>3, <1>4, Zenon

(* Nothing is passed over by a search that takes the first address it      *)
(* tries.                                                                  *)
LEMMA PassedFirst ==
  ASSUME NEW i \in DOMAIN Sets,
         NEW p \in Members(Sets[i], IPs), NEW n \in Members(Sets[i], IPs),
         Follows(Sets[i], IPs, p, n)
  PROVE  Passed(i, p, n) = {}
<1> DEFINE s == Sets[i]
           M == Members(s, IPs)
<1>1. Searchable(s, IPs) /\ Allocatable(i) \subseteq M
  BY SetSearchable, Zenon
<1>2. /\ \A y \in M : ~Before(s, y, y)
      /\ \A y, z \in M : y = z \/ Before(s, y, z) \/ Before(s, z, y)
      /\ \A y, z, u \in M : Before(s, y, z) /\ Before(s, z, u) => Before(s, y, u)
  BY <1>1, BeforeOrder, Zenon
<1>3. QED
  BY <1>1, <1>2, Zenon DEF Follows, Passed

-----------------------------------------------------------------------------
(* Nothing that range set i may hand out is free from x to y.              *)
Taken(i, x, y) == \A z \in Seen(Sets[i], IPs, x, y) \cap Allocatable(i) : files[z] # Free

(* The record of what range set i handed out last, when it is known.       *)
RecordInv ==
  /\ \A i \in DOMAIN Sets : prev[i] # NoIP => last[i] = prev[i] /\ prev[i] \in Members(Sets[i], IPs)
  /\ \A a \in Att : pc[a] \in {"write", "last"} => ip[a] \in Allocatable(idx[a])

(* A search has found taken all it has seen since its start, its start     *)
(* follows the address handed out last, and its outcome is the one the     *)
(* properties state.                                                       *)
SearchInv ==
  \A a \in Att :
    /\ pc[a] = "scan" /\ it[a].cur # NoIP /\ it[a].start # NoIP =>
         it[a].start \in Members(Sets[idx[a]], IPs) /\ Taken(idx[a], it[a].start, it[a].cur)
    /\ pc[a] = "scan" /\ prev[idx[a]] # NoIP =>
         /\ it[a].cur # NoIP
         /\ IF it[a].start = NoIP THEN it[a].cur = prev[idx[a]]
            ELSE Follows(Sets[idx[a]], IPs, prev[idx[a]], it[a].start)
    /\ pc[a] = "full" => \A x \in Allocatable(idx[a]) : files[x] # Free
    /\ pc[a] = "write" /\ req[a] = NoIP /\ prev[idx[a]] # NoIP =>
         \A z \in Passed(idx[a], prev[idx[a]], ip[a]) : files[z] # Free

(* Every step keeps the record.                                            *)
LEMMA NextRecordInv ==
  ASSUME Inv, RecordInv, NEW a \in Att, Acts(a)
  PROVE  RecordInv'
<1>t. /\ pc \in [Att -> Labels] /\ idx \in [Att -> DOMAIN Sets]
      /\ last \in [DOMAIN Sets -> IPs \cup {NoIP}] /\ prev \in [DOMAIN Sets -> IPs \cup {NoIP}]
  BY Zenon DEF Inv, TypeInv, TypeOK
<1>1. ASSUME NEW b \in Att, pc'[b] \in {"write", "last"}
      PROVE  ip'[b] \in Allocatable(idx'[b])
  <2>1. CASE b # a
    <3>1. pc'[b] = pc[b] /\ ip'[b] = ip[b] /\ idx'[b] = idx[b]
      BY <2>1, <1>t, OthersUnchanged, OthersKeepIdx, Zenon DEF Inv, TypeInv
    <3>2. QED
      BY <1>1, <3>1, Zenon DEF RecordInv
  <2>2. CASE b = a /\ (GetRequested(a) \/ Scan(a))
    <3>1. pc'[a] = "write" /\ idx' = idx
      BY <1>1, <1>t, <2>2, Zenon DEF GetRequested, Scan, Create, Goto
    <3>2. QED
      BY <2>2, <3>1, ReservedIsAllocatable, Zenon
  <2>3. CASE b = a /\ WriteOwner(a)
    BY <2>3, <1>t, Zenon DEF WriteOwner, proc, RecordInv
  <2>4. CASE b = a /\ ~(GetRequested(a) \/ Scan(a)) /\ ~WriteOwner(a)
    <3> USE <1>1, <1>t, <2>4 DEF Goto
    <3>1. ~StartAdd(a) /\ ~StartDel(a) /\ ~LockFind(a) /\ ~LockGet(a) /\ ~GetIterator(a)
      BY Zenon DEF StartAdd, StartDel, LockFind, LockGet, GetIterator
    <3>2. ~SaveLastFails(a) /\ ~LockRelease(a) /\ ~CheckFails(a) /\ ~FindByID(a)
      BY Zenon DEF SaveLastFails, LockRelease, CheckFails, FindByID
    <3>3. ~SaveLast(a) /\ ~FailGet(a) /\ ~Release(a) /\ ~Crash(a)
      BY Zenon DEF SaveLast, FailGet, Release, Crash, Exit
    <3>4. ~Refuse(a)
      BY Zenon DEF Refuse
    <3>5. QED
      BY <3>1, <3>2, <3>3, <3>4, Zenon DEF Acts, Step
  <2>5. QED
    BY <2>1, <2>2, <2>3, <2>4, Zenon
<1>2. ASSUME NEW i \in DOMAIN Sets, prev'[i] # NoIP
      PROVE  last'[i] = prev'[i] /\ prev'[i] \in Members(Sets[i], IPs)
  <2>1. CASE UNCHANGED <<last, prev>>
    BY <1>2, <2>1, Zenon DEF RecordInv
  <2>2. CASE SaveLast(a)
    <3>1. ip[a] \in Members(Sets[idx[a]], IPs)
      BY <1>t, <2>2, SetSearchable, Zenon DEF SaveLast, RecordInv
    <3>2. QED
      BY <1>2, <1>t, <2>2, <3>1, Zenon DEF SaveLast, RecordInv
  <2>3. CASE TearLast(idx[a])
    BY <1>2, <1>t, <2>3, Zenon DEF TearLast, RecordInv
  <2>4. CASE GetIterator(a)
    <3>1. last' = last /\ (prev' = prev \/ prev' = [prev EXCEPT ![idx[a]] = NoIP])
      BY <2>4, Zenon DEF GetIterator, store
    <3>2. prev'[i] = prev[i]
      BY <1>2, <1>t, <3>1, Zenon
    <3>3. QED
      BY <1>2, <3>1, <3>2, Zenon DEF RecordInv
  <2>5. QED
    BY <2>1, <2>2, <2>3, <2>4, Zenon
    DEF Acts, Step, StartAdd, StartDel, Refuse, LockFind, LockGet, GetRequested,
        Scan, WriteOwner, SaveLastFails, FailGet, LockRelease, Release, FindByID, CheckFails,
        Crash, store
<1>3. QED
  BY <1>1, <1>2, Zenon DEF RecordInv, Members, Allocatable

(* While b searches under the lock no other process touches the store, the *)
(* record or the memory of b.                                              *)
LEMMA SearchAlone ==
  ASSUME Inv, NEW a \in Att, Acts(a), NEW b \in Att, b # a, pc[b] \in Inside
  PROVE  /\ \A x \in IPs : files'[x] = files[x]
         /\ prev' = prev /\ it'[b] = it[b] /\ req'[b] = req[b] /\ idx'[b] = idx[b]
<1>1. pc[a] \notin Inside
  BY Zenon DEF Inv, LockInv
<1>2. \A x \in IPs : files'[x] = files[x]
  BY <1>1, FileChange, Zenon DEF Inv
<1>t. /\ pc \in [Att -> Labels] /\ idx \in [Att -> DOMAIN Sets] /\ DOMAIN it = Att
      /\ DOMAIN req = Att
  BY Zenon DEF Inv, TypeInv, TypeOK
<1>3. prev' = prev
  BY <1>1, Zenon
  DEF Acts, Step, StartAdd, StartDel, Refuse, LockFind, LockGet, GetRequested, GetIterator,
      Scan, WriteOwner, SaveLast, SaveLastFails, FailGet, LockRelease, Release, FindByID,
      CheckFails, Crash, Inside
<1>4. it'[b] = it[b] /\ req'[b] = req[b]
  <2>1. CASE Exit(a)
    BY <1>t, <2>1, Zenon DEF Exit
  <2>2. QED
    BY <1>1, <1>t, <2>1, Zenon
    DEF Acts, Step, StartAdd, StartDel, Refuse, LockFind, LockGet, GetRequested, GetIterator,
        Scan, WriteOwner, SaveLast, SaveLastFails, FailGet, LockRelease, Release, FindByID,
        CheckFails, Crash, Inside, proc
<1>5. QED
  BY <1>2, <1>3, <1>4, <1>t, OthersKeepIdx, Zenon

(* One round of the search, seen from the range set i it goes through.     *)
LEMMA ScanRound ==
  ASSUME Inv, RecordInv, SearchInv, NEW a \in Att, Scan(a)
  PROVE  LET i == idx[a]
             n == Advance(Sets[i], it[a]) IN
         /\ n.cur \in Members(Sets[i], IPs) /\ n.cur # NoIP
         /\ n.start \in Members(Sets[i], IPs) /\ n.start # NoIP
         /\ it[a].cur # NoIP =>
              it[a].cur \in Members(Sets[i], IPs) /\ Follows(Sets[i], IPs, it[a].cur, n.cur)
         /\ IF it[a].cur # NoIP /\ it[a].start # NoIP
            THEN n.start = it[a].start ELSE n.start = n.cur
<1> DEFINE i == idx[a]
           n == Advance(Sets[i], it[a])
<1>t. /\ i \in DOMAIN Sets /\ Searchable(Sets[i], IPs)
      /\ it[a] \in [idx : Nat, cur : IPs \cup {NoIP}, start : IPs \cup {NoIP}]
  BY SetSearchable, Zenon DEF Inv, TypeInv, TypeOK
<1>1. pc[a] = "scan" /\ IterOK(a)
  BY Zenon DEF Scan, Inv, TypeInv, ProcInv
<1>2. n.idx \in DOMAIN Sets[i] /\ n.cur \in IPs /\ Contains(Sets[i][n.idx], n.cur)
  BY <1>t, <1>1, AdvanceOK, SetSearchable, Zenon DEF IterOK
<1>3. n.cur \in Members(Sets[i], IPs)
  BY <1>2, Zenon DEF Members, InSet, SetContains
<1>4. it[a].cur # NoIP =>
        it[a].cur \in Members(Sets[i], IPs) /\ Follows(Sets[i], IPs, it[a].cur, n.cur)
  BY <1>t, <1>1, AdvanceFollows, SetSearchable, Zenon DEF IterOK
<1>5. IF it[a].cur # NoIP /\ it[a].start # NoIP
      THEN n.start = it[a].start ELSE n.start = n.cur
  BY <1>t, Zenon DEF Advance
<1>6. n.start \in Members(Sets[i], IPs)
  BY <1>1, <1>3, <1>5, Zenon DEF SearchInv
<1>7. QED
  BY <1>3, <1>4, <1>5, <1>6, NoIPNotInIPs, Zenon DEF Members

(* The gateway Next skips is not an address to hand out.                   *)
LEMMA SkipsGatewayOnly ==
  ASSUME Inv, NEW a \in Att, Scan(a), AtGateway(Sets[idx[a]], Advance(Sets[idx[a]], it[a]))
  PROVE  Advance(Sets[idx[a]], it[a]).cur \notin Allocatable(idx[a])
<1> DEFINE i == idx[a]
           n == Advance(Sets[i], it[a])
<1>t. /\ i \in DOMAIN Sets /\ Searchable(Sets[i], IPs)
      /\ it[a] \in [idx : Nat, cur : IPs \cup {NoIP}, start : IPs \cup {NoIP}]
  BY SetSearchable, Zenon DEF Inv, TypeInv, TypeOK
<1>1. IterOK(a)
  BY Zenon DEF Scan, Inv, TypeInv, ProcInv
<1>2. n.idx \in DOMAIN Sets[i] /\ n.cur \in IPs /\ Contains(Sets[i][n.idx], n.cur)
  BY <1>t, <1>1, AdvanceOK, SetSearchable, Zenon DEF IterOK
<1>3. n.cur \in Members(Sets[i], IPs)
  BY <1>2, Zenon DEF Members, InSet, SetContains
<1>4. RangeFor(Sets[i], n.cur) = n.idx
  <2>1. \A k \in DOMAIN Sets[i] : Contains(Sets[i][k], n.cur) => k = RangeFor(Sets[i], n.cur)
    BY <1>t, <1>3, AddressRange, SMTT(30)
  <2>2. QED
    BY <1>2, <2>1, Zenon
<1>5. QED
  BY <1>4, Zenon DEF Allocatable, AtGateway

(* A round of the search keeps what the process knows of it.               *)
LEMMA ScanKeeps ==
  ASSUME Inv, RecordInv, SearchInv, NEW a \in Att, Scan(a)
  PROVE  /\ pc'[a] = "scan" =>
              /\ it'[a].start \in Members(Sets[idx[a]], IPs)
              /\ \A z \in Seen(Sets[idx[a]], IPs, it'[a].start, it'[a].cur)
                       \cap Allocatable(idx[a]) : files'[z] # Free
         /\ pc'[a] = "scan" /\ prev[idx[a]] # NoIP =>
              /\ it'[a].cur # NoIP /\ it'[a].start # NoIP
              /\ Follows(Sets[idx[a]], IPs, prev[idx[a]], it'[a].start)
         /\ pc'[a] = "full" => \A x \in Allocatable(idx[a]) : files'[x] # Free
         /\ pc'[a] = "write" /\ prev[idx[a]] # NoIP =>
              \A z \in Passed(idx[a], prev[idx[a]], ip'[a]) : files'[z] # Free
<1> DEFINE i == idx[a]
           old == it[a]
           n == Advance(Sets[i], it[a])
<1>t. /\ pc \in [Att -> Labels] /\ i \in DOMAIN Sets /\ DOMAIN it = Att /\ DOMAIN ip = Att
      /\ Searchable(Sets[i], IPs)
  BY SetSearchable, Zenon DEF Inv, TypeInv, TypeOK
<1>0. pc[a] = "scan" /\ it'[a] = n
  BY <1>t, Zenon DEF Scan
<1>r. /\ n.cur \in Members(Sets[i], IPs) /\ n.cur # NoIP
      /\ n.start \in Members(Sets[i], IPs) /\ n.start # NoIP
      /\ old.cur # NoIP =>
           old.cur \in Members(Sets[i], IPs) /\ Follows(Sets[i], IPs, old.cur, n.cur)
      /\ IF old.cur # NoIP /\ old.start # NoIP THEN n.start = old.start ELSE n.start = n.cur
  BY ScanRound, Zenon
<1>i. old.cur # NoIP /\ old.start # NoIP =>
        old.start \in Members(Sets[i], IPs)
        /\ \A z \in Seen(Sets[i], IPs, old.start, old.cur) \cap Allocatable(i) : files[z] # Free
  BY <1>0, Zenon DEF SearchInv, Taken
<1>p. prev[i] # NoIP =>
        /\ prev[i] \in Members(Sets[i], IPs) /\ old.cur # NoIP
        /\ IF old.start = NoIP THEN old.cur = prev[i]
           ELSE Follows(Sets[i], IPs, prev[i], old.start)
  BY <1>0, <1>t, Zenon DEF SearchInv, RecordInv
<1>f. prev[i] # NoIP => Follows(Sets[i], IPs, prev[i], n.start)
  BY <1>r, <1>p, Zenon
<1>1. CASE BackAtStart(Sets[i], old)
  <2>1. old.cur # NoIP /\ old.start # NoIP /\ n.cur = old.start
    BY <1>1, Zenon DEF BackAtStart
  <2>2. Seen(Sets[i], IPs, old.start, old.cur) = Members(Sets[i], IPs)
    BY <1>t, <1>r, <2>1, SeenAll, SetSearchable, Zenon
  <2>3. \A x \in Allocatable(i) : files[x] # Free
    BY <1>t, <1>i, <2>1, <2>2, SetSearchable, Zenon
  <2>4. pc'[a] = "full" /\ files' = files
    BY <1>1, <1>t, Zenon DEF Scan, Goto
  <2>5. QED
    BY <2>3, <2>4, Zenon
<1>2. CASE ~BackAtStart(Sets[i], old)
  <2>1. old.cur # NoIP /\ old.start # NoIP => n.cur # old.start
    BY <1>2, Zenon DEF BackAtStart
  <2>2. \A z \in Seen(Sets[i], IPs, n.start, n.cur) \cap Allocatable(i) :
          z # n.cur => files[z] # Free
    <3>1. CASE old.cur # NoIP /\ old.start # NoIP
      <4>1. Seen(Sets[i], IPs, n.start, n.cur)
              \subseteq Seen(Sets[i], IPs, old.start, old.cur) \cup {n.cur}
        BY <1>t, <1>r, <2>1, <3>1, SeenOneMore, SetSearchable, SMTT(30)
      <4>2. QED
        BY <1>i, <3>1, <4>1, Zenon
    <3>2. CASE ~(old.cur # NoIP /\ old.start # NoIP)
      <4>1. n.start = n.cur /\ Seen(Sets[i], IPs, n.cur, n.cur) = {n.cur}
        BY <1>t, <1>r, <3>2, SeenFirst, SMTT(30)
      <4>2. QED
        BY <4>1, Zenon
    <3>3. QED
      BY <3>1, <3>2, Zenon
  <2>3. CASE AtGateway(Sets[i], n)
    <3>1. n.cur \notin Allocatable(i)
      BY <2>3, SkipsGatewayOnly, Zenon
    <3>2. pc' = pc /\ files' = files
      BY <1>2, <2>3, Zenon DEF Scan
    <3>3. QED
      BY <1>0, <1>r, <1>f, <2>2, <3>1, <3>2, Zenon
  <2>4. CASE Create(a, n.cur, "scan")
    <3>1. CASE pc'[a] = "scan"
      <4>1. files[n.cur] # Free /\ files' = files
        BY <1>t, <2>4, <3>1, Zenon DEF Create, Goto
      <4>2. QED
        BY <1>0, <1>r, <1>f, <2>2, <3>1, <4>1, Zenon
    <3>2. CASE pc'[a] = "write" /\ prev[i] # NoIP
      <4>1. ip'[a] = n.cur /\ FileSet({n.cur}, Blank)
        BY <1>t, <2>4, <3>2, Zenon DEF Create, Goto
      <4>2. \A z \in Passed(i, prev[i], n.cur) : files[z] # Free
        <5>1. CASE old.start = NoIP
          <6>1. Passed(i, prev[i], n.cur) = {}
            BY <1>t, <1>r, <1>p, <3>2, <5>1, PassedFirst, Zenon
          <6>2. QED
            BY <6>1, Zenon
        <5>2. CASE old.start # NoIP
          <6>1. Passed(i, prev[i], n.cur) \subseteq Seen(Sets[i], IPs, old.start, old.cur)
            BY <1>t, <1>r, <1>i, <1>p, <2>1, <3>2, <5>2, PassedSeen, ZenonT(60)
          <6>2. Passed(i, prev[i], n.cur) \subseteq Allocatable(i)
            BY Zenon DEF Passed
          <6>3. QED
            BY <1>i, <1>p, <3>2, <5>2, <6>1, <6>2, Zenon
        <5>3. QED
          BY <5>1, <5>2, Zenon
      <4>3. Passed(i, prev[i], n.cur) \subseteq IPs
        BY Zenon DEF Passed, Allocatable
      <4>4. \A z \in Passed(i, prev[i], n.cur) : files'[z] # Free
        BY <4>1, <4>2, <4>3, AttachmentsAssumption, Zenon DEF FileSet
      <4>5. QED
        BY <3>2, <4>1, <4>4, Zenon
    <3>3. CASE pc'[a] \notin {"scan", "full"} /\ ~(pc'[a] = "write" /\ prev[i] # NoIP)
      BY <3>3, Zenon
    <3>4. pc'[a] # "full"
      BY <1>t, <2>4, Zenon DEF Create, Goto
    <3>5. QED
      BY <3>1, <3>2, <3>3, <3>4, Zenon
  <2>5. QED
    BY <1>2, <2>3, <2>4, Zenon DEF Scan
<1>3. QED
  BY <1>1, <1>2, Zenon

(* Every step keeps what the searches know.                                *)
LEMMA NextSearchInv ==
  ASSUME Inv, RecordInv, SearchInv, NEW a \in Att, Acts(a)
  PROVE  SearchInv'
<1> DEFINE Good(b) ==
      /\ pc[b] = "scan" /\ it[b].cur # NoIP /\ it[b].start # NoIP =>
           it[b].start \in Members(Sets[idx[b]], IPs) /\ Taken(idx[b], it[b].start, it[b].cur)
      /\ pc[b] = "scan" /\ prev[idx[b]] # NoIP =>
           /\ it[b].cur # NoIP
           /\ IF it[b].start = NoIP THEN it[b].cur = prev[idx[b]]
              ELSE Follows(Sets[idx[b]], IPs, prev[idx[b]], it[b].start)
      /\ pc[b] = "full" => \A x \in Allocatable(idx[b]) : files[x] # Free
      /\ pc[b] = "write" /\ req[b] = NoIP /\ prev[idx[b]] # NoIP =>
           \A z \in Passed(idx[b], prev[idx[b]], ip[b]) : files[z] # Free
<1>0. SUFFICES ASSUME NEW b \in Att PROVE Good(b)'
  BY Zenon DEF SearchInv
<1>g. Good(b)
  BY Zenon DEF SearchInv
<1>t. /\ pc \in [Att -> Labels] /\ idx \in [Att -> DOMAIN Sets] /\ DOMAIN it = Att
      /\ last \in [DOMAIN Sets -> IPs \cup {NoIP}]
  BY Zenon DEF Inv, TypeInv, TypeOK
<1>x. \A i : Allocatable(i) \subseteq IPs /\ \A x, y : Passed(i, x, y) \subseteq IPs
  BY Zenon DEF Allocatable, Passed
<1>1. CASE b # a
  <2>1. pc'[b] = pc[b] /\ ip'[b] = ip[b]
    BY <1>1, OthersUnchanged, Zenon DEF Inv, TypeInv
  <2>2. CASE pc[b] \in {"scan", "full", "write"}
    <3>1. /\ \A x \in IPs : files'[x] = files[x]
          /\ prev' = prev /\ it'[b] = it[b] /\ req'[b] = req[b] /\ idx'[b] = idx[b]
      BY <1>1, <2>2, SearchAlone, Zenon DEF Inside
    <3>2. QED
      BY <1>g, <1>x, <2>1, <3>1, Zenon DEF Taken
  <2>3. CASE pc[b] \notin {"scan", "full", "write"}
    BY <2>1, <2>3, Zenon
  <2>4. QED
    BY <2>2, <2>3, Zenon
<1>2. CASE b = a /\ Scan(a)
  <2>1. idx' = idx /\ prev' = prev
    BY <1>2, Zenon DEF Scan
  <2>2. QED
    BY <1>2, <2>1, ScanKeeps, Zenon DEF Taken
<1>3. CASE b = a /\ GetIterator(a)
  <2>1. idx' = idx /\ pc'[a] \in {"scan", "fail"}
    BY <1>3, <1>t, Zenon DEF GetIterator, Goto
  <2>2. /\ pc'[a] = "scan" => \E from \in {last[idx[a]], NoIP} :
             it'[a] = GetIter(Sets[idx[a]], from)
        /\ pc'[a] = "scan" /\ prev'[idx[a]] # NoIP =>
             prev' = prev /\ it'[a] = GetIter(Sets[idx[a]], last[idx[a]])
    <3>1. prev \in [DOMAIN Sets -> IPs \cup {NoIP}]
      BY Zenon DEF Inv, TypeInv, TypeOK
    <3>2. QED
      BY <1>3, <1>t, <3>1, Zenon DEF GetIterator, Goto
  <2>3. \A from : \/ GetIter(Sets[idx[a]], from).cur = NoIP
                  \/ GetIter(Sets[idx[a]], from).start = NoIP
    BY Zenon DEF GetIter
  <2>4. prev[idx[a]] # NoIP =>
          /\ last[idx[a]] = prev[idx[a]] /\ SetContains(Sets[idx[a]], last[idx[a]])
    BY <1>t, Zenon DEF RecordInv, Members, InSet
  <2>5. prev[idx[a]] # NoIP =>
          /\ GetIter(Sets[idx[a]], last[idx[a]]).cur = prev[idx[a]]
          /\ GetIter(Sets[idx[a]], last[idx[a]]).start = NoIP
    BY <2>4, Zenon DEF GetIter
  <2>6. QED
    BY <1>3, <2>1, <2>2, <2>3, <2>5, Zenon
<1>4. CASE b = a /\ GetRequested(a)
  <2>1. pc'[a] \in {"fail", "write"} /\ req' = req /\ req[a] # NoIP
    BY <1>4, <1>t, Zenon DEF GetRequested, Create, Goto
  <2>2. QED
    BY <1>4, <2>1, Zenon
<1>5. CASE b = a /\ ~Scan(a) /\ ~GetIterator(a) /\ ~GetRequested(a)
  <2>1. pc'[a] \notin {"scan", "full", "write"}
    <3>1. CASE Exit(a)
      BY <1>t, <3>1, Zenon DEF Exit, Goto
    <3>2. CASE Refuse(a)
      BY <1>t, <3>2, Zenon DEF Refuse
    <3>3. CASE \E l \in Labels \ {"scan", "full", "write"} : Goto(a, l)
      BY <1>t, <3>3, Zenon DEF Goto
    <3>4. CASE StartAdd(a) \/ StartDel(a) \/ LockFind(a) \/ LockGet(a)
      BY <3>3, <3>4, Zenon DEF StartAdd, StartDel, LockFind, LockGet, Labels
    <3>5. CASE WriteOwner(a) \/ SaveLastFails(a) \/ LockRelease(a) \/ FindByID(a) \/ CheckFails(a)
      BY <3>3, <3>5, Zenon
         DEF WriteOwner, SaveLastFails, LockRelease, FindByID, CheckFails, Labels
    <3>6. CASE SaveLast(a) \/ FailGet(a) \/ Release(a) \/ Crash(a)
      BY <3>1, <3>3, <3>6, Zenon DEF SaveLast, FailGet, Release, Crash, Labels
    <3>7. QED
      BY <1>5, <3>2, <3>4, <3>5, <3>6, Zenon DEF Acts, Step
  <2>2. QED
    BY <1>5, <2>1, Zenon
<1>6. QED
  BY <1>1, <1>2, <1>3, <1>4, <1>5, Zenon

(* The two invariants hold of every behaviour, with disk faults, crashes   *)
(* and repeated ADDs.                                                      *)
LEMMA SearchInvariance == Spec => [](RecordInv /\ SearchInv)
<1>1. Init => RecordInv /\ SearchInv
  BY Zenon DEF Init, RecordInv, SearchInv
<1>2. Inv /\ RecordInv /\ SearchInv /\ [Next]_vars => (RecordInv /\ SearchInv)'
  <2> SUFFICES ASSUME Inv, RecordInv, SearchInv, [Next]_vars
               PROVE  (RecordInv /\ SearchInv)'
    BY Zenon
  <2>1. CASE UNCHANGED vars
    BY <2>1, Zenon DEF RecordInv, SearchInv, Taken, vars, store, proc
  <2>2. CASE Next
    BY <2>2, NextRecordInv, NextSearchInv, Zenon DEF Next, Acts
  <2>3. QED
    BY <2>1, <2>2, Zenon
<1>3. QED
  BY <1>1, <1>2, Invariance, PTL DEF Spec

(* NoFalseExhaustion: Get reports a range set as exhausted only when every *)
(* address it may hand out has a file at that moment, wherever the search  *)
(* resumed and whatever the other processes do.                            *)
THEOREM ExhaustionIsReal == Spec => []NoFalseExhaustion
<1>1. SearchInv => NoFalseExhaustion
  BY Zenon DEF SearchInv, NoFalseExhaustion
<1>2. QED
  BY <1>1, SearchInvariance, PTL

(* RoundRobin: Get takes the first free address after the one its range    *)
(* set handed out last, while last_reserved_ip has not been torn.          *)
THEOREM SearchIsRoundRobin == Spec => []RoundRobin
<1>1. SearchInv => RoundRobin
  BY Zenon DEF SearchInv, RoundRobin
<1>2. QED
  BY <1>1, SearchInvariance, PTL

=============================================================================
