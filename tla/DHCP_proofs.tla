---------------------------- MODULE DHCP_proofs ----------------------------
(***************************************************************************)
(* Proofs about DHCP, for any number of clients, calls and leases and a    *)
(* runtime that waits for its calls (Spec, not HastySpec).                 *)
(***************************************************************************)
EXTENDS DHCP, TLAPS

(* The runtime is waiting for every call the daemon is serving.            *)
CallInv ==
  \A k \in Calls :
    pc[k] # "idle" =>
      /\ cur[k[1]] = k[2]
      /\ rt[k[1]] \in IF pc[k] \in {"release", "clear"} THEN {"DEL"} ELSE {"ADD", "CHECK"}

(* How the lease of a call is related to the map while the mutex of the    *)
(* daemon is not held.                                                     *)
ArgInv ==
  \A k \in Calls :
    /\ arg[k] # None => of[arg[k]] = k[1]
    /\ pc[k] \in {"check", "clear"} => leases[k[1]] = arg[k]
    /\ pc[k] = "wait" => leases[k[1]] = None /\ at[arg[k]] = "acquire"
    /\ pc[k] \in {"ipnet", "drain"} => leases[k[1]] \in {None, arg[k]}
    /\ pc[k] \in {"wait", "ipnet"} => ~stop[arg[k]]

(* What the map holds for a client.                                        *)
MapInv ==
  \A c \in Clients :
    /\ leases[c] # None => of[leases[c]] = c
    /\ rt[c] = "detached" => leases[c] = None
    /\ rt[c] = "attached" => leases[c] # None /\ ~stop[leases[c]]

(* A goroutine works for a lease of the map or of a call, one that is told *)
(* to stop is being waited for, and the server has a binding for a lease   *)
(* that has not expired.                                                   *)
LeaseInv ==
  \A l \in Leases :
    /\ Running(l) => /\ of[l] \in Clients
                     /\ leases[of[l]] = l \/ \E k \in Calls : arg[k] = l
    /\ at[l] = "acquire" => \E k \in Calls : arg[k] = l /\ pc[k] = "wait"
    /\ Running(l) /\ stop[l] => \E k \in Calls : arg[k] = l /\ pc[k] \in {"drain", "clear"}
    /\ Maintained(l) /\ age[l] < 3 => srv[of[l]]

Inv == TypeOK /\ CallInv /\ ArgInv /\ MapInv /\ LeaseInv

(* A call is a client and a slot.                                          *)
LEMMA CallsArePairs ==
  ASSUME NEW k \in Calls
  PROVE  k[1] \in Clients /\ k[2] \in Slots /\ k = <<k[1], k[2]>>
  BY DEF Calls

(* A daemon serves one call of a client at a time.                         *)
LEMMA OneCallPerClient ==
  ASSUME CallInv, NEW k \in Calls, NEW m \in Calls,
         pc[k] # "idle", pc[m] # "idle", k[1] = m[1]
  PROVE  k = m
  BY CallsArePairs DEF CallInv

(* One goroutine works for a client at a time.                             *)
LEMMA OneGoroutine ==
  ASSUME Inv, NEW l \in Leases, NEW m \in Leases, Running(l), Running(m), of[l] = of[m]
  PROVE  l = m
<1> DEFINE c == of[l]
<1>1. c \in Clients
  BY Zenon DEF Inv, LeaseInv
<1>2. ASSUME NEW x \in Leases, NEW y \in Leases, Running(x), Running(y),
             of[x] = c, of[y] = c, leases[c] = x, NEW k \in Calls, arg[k] = y
      PROVE  x = y
  <2>1. pc[k] \notin {"idle", "allocate", "release"} /\ k[1] = c
    BY <1>2, NoneAssumption DEF Inv, TypeOK, ArgInv
  <2>2. pc[k] # "wait"
    BY <1>2, <2>1, NoneAssumption, Zenon DEF Inv, ArgInv
  <2>3. QED
    BY <1>2, <2>1, <2>2, NoneAssumption DEF Inv, ArgInv, TypeOK
<1>3. ASSUME NEW k \in Calls, NEW j \in Calls, arg[k] = l, arg[j] = m
      PROVE  l = m
  <2>1. pc[k] # "idle" /\ pc[j] # "idle" /\ k[1] = c /\ j[1] = c
    BY <1>3, NoneAssumption DEF Inv, TypeOK, ArgInv
  <2>2. QED
    BY <1>3, <2>1, OneCallPerClient, Zenon DEF Inv
<1>4. QED
  BY <1>1, <1>2, <1>3 DEF Inv, LeaseInv

(* The daemon starts with nothing.                                         *)
LEMMA InitInv == Init => Inv
<1> SUFFICES ASSUME Init PROVE Inv
  BY Zenon
<1>1. TypeOK
  BY DEF Init, TypeOK
<1>2. CallInv /\ ArgInv /\ MapInv
  BY CallsArePairs, Zenon DEF Init, CallInv, ArgInv, MapInv
<1>3. LeaseInv
  BY Zenon DEF Init, LeaseInv, Running, Maintained
<1>4. QED
  BY <1>1, <1>2, <1>3, Zenon DEF Inv

-----------------------------------------------------------------------------
(* The steps of the runtime and the world, of the calls, and of the        *)
(* goroutines of the leases.                                               *)
WorldStep(c) == Expire(c) \/ LinkGone(c)
RuntimeStep(c, k) == CmdAdd(c, k) \/ CmdCheck(c, k) \/ CmdDel(c, k)
ServeStep(k) == CallStep(k) \/ Check(k)
GoroutineStep(l) == LeaseStep(l) \/ Release(l) \/ Tick(l)

(* The types of the data, and of the flags.                                *)
Data ==
  /\ leases \in [Clients -> Leases \cup {None}]
  /\ of \in [Leases -> Clients \cup {None}]
  /\ at \in [Leases -> {"none", "acquire", "loop", "select", "sleep", "ended"}]
  /\ mode \in [Leases -> {"bound", "renewing", "rebinding"}]
  /\ age \in [Leases -> 0 .. 3]
  /\ pc \in [Calls -> {"idle", "allocate", "check", "wait", "ipnet", "drain", "release", "clear"}]
  /\ arg \in [Calls -> Leases \cup {None}]
  /\ rt \in [Clients -> Operations \cup {"detached", "attached", "dirty", "orphan"}]
  /\ cur \in [Clients -> Slots \cup {None}]
  /\ link \in [Clients -> {"up", "down", "gone"}]

(* A call has a lease exactly where it works on one.                       *)
Held == \A k \in Calls : arg[k] = None <=> pc[k] \in {"idle", "allocate", "release"}

Flags == stop \in [Leases -> BOOLEAN] /\ srv \in [Clients -> BOOLEAN]

(* Setting one flag.                                                       *)
LEMMA FlagSet ==
  ASSUME NEW S, NEW f \in [S -> BOOLEAN], NEW x, NEW v \in BOOLEAN
  PROVE  [f EXCEPT ![x] = v] \in [S -> BOOLEAN]
  BY Zenon

(* Every step sets at most one flag of each kind.                          *)
LEMMA NextFlags == Flags /\ LeaseInv /\ [Next]_vars => Flags'
<1> SUFFICES ASSUME Flags, LeaseInv, [Next]_vars PROVE Flags'
  BY Zenon
<1>s. ASSUME stop' = stop \/ \E x : \E v \in BOOLEAN : stop' = [stop EXCEPT ![x] = v],
             srv' = srv \/ \E x : \E v \in BOOLEAN : srv' = [srv EXCEPT ![x] = v]
      PROVE  Flags'
  BY <1>s, FlagSet, Zenon DEF Flags
<1>1. CASE UNCHANGED vars
  BY <1>1, Zenon DEF Flags, vars, lease
<1>2. ASSUME NEW c \in Clients, WorldStep(c) PROVE Flags'
  <2>1. stop' = stop /\ (srv' = srv \/ srv' = [srv EXCEPT ![c] = FALSE])
    BY <1>2, Zenon DEF WorldStep, Expire, LinkGone, lease
  <2>2. QED
    BY <1>s, <2>1, Zenon
<1>r. ASSUME NEW c \in Clients, NEW k \in Calls, RuntimeStep(c, k) PROVE Flags'
  BY <1>r, Zenon DEF RuntimeStep, CmdAdd, CmdCheck, CmdDel, Start, lease, Flags
<1>3. ASSUME NEW k \in Calls, ServeStep(k) PROVE Flags'
  <2>1. srv' = srv
    BY <1>3, Zenon
       DEF ServeStep, CallStep, Lookup, SetLease, NoMask, Drained, StopLease, ClearLease, Check
  <2>2. stop' = stop \/ \E x : \E v \in BOOLEAN : stop' = [stop EXCEPT ![x] = v]
    BY <1>3, Zenon
    DEF ServeStep, CallStep, Lookup, SetLease, NoMask, Drained, StopLease, ClearLease, Check, lease
  <2>3. QED
    BY <1>s, <2>1, <2>2, Zenon
<1>4. ASSUME NEW l \in Leases, GoroutineStep(l) PROVE Flags'
  <2>0. Running(l)
    BY <1>4, Zenon
       DEF GoroutineStep, LeaseStep, Acquire, LinkLost, LinkExists, Bound, Renew, RenewFails,
                RebindFails, Wake, Release, Tick, Maintained, Selecting, Running
  <2>1. srv[of[l]] \in BOOLEAN
    BY <2>0, Zenon DEF LeaseInv, Flags
  <2>2. stop' = stop
    BY <1>4, Zenon DEF GoroutineStep, LeaseStep, Acquire, LinkLost, Bound, Renew, RenewFails,
                RebindFails, Wake, Release, Tick
  <2>3. srv' = srv \/ \E v \in BOOLEAN : srv' = [srv EXCEPT ![of[l]] = v]
    BY <1>4, <2>1, Zenon
    DEF GoroutineStep, LeaseStep, Acquire, LinkLost, Bound, Renew, RenewFails, RebindFails,
        Wake, Release, Tick, Commit, Lost
  <2>4. QED
    BY <1>s, <2>2, <2>3, Zenon
<1>5. CASE Restart
  BY <1>5, Zenon DEF Restart, Flags
<1>6. QED
  BY <1>1, <1>2, <1>r, <1>3, <1>4, <1>5, Zenon
     DEF Next, WorldStep, RuntimeStep, ServeStep, GoroutineStep

(* Return keeps the types of what it changes.                              *)
LEMMA ReturnTypes ==
  ASSUME Data, NEW k \in Calls, NEW r, Return(k, r),
         r \in {"detached", "attached", "dirty", "orphan"}
  PROVE  /\ pc' = [pc EXCEPT ![k] = "idle"] /\ arg' = [arg EXCEPT ![k] = None]
         /\ rt' \in [Clients -> Operations \cup {"detached", "attached", "dirty", "orphan"}]
         /\ cur' \in [Clients -> Slots \cup {None}]
  BY CallsArePairs, SMTT(30) DEF Data, Return, Goto

(* The data keep their types.                                              *)
LEMMA NextData == Data /\ LeaseInv /\ [Next]_vars => Data'
<1> SUFFICES ASSUME Data, LeaseInv, [Next]_vars PROVE Data'
  BY Zenon
<1> USE CallsArePairs, NoneAssumption
<1>u. CASE UNCHANGED vars
  BY <1>u, Zenon DEF Data, vars, lease, call
<1>w. ASSUME NEW c \in Clients, WorldStep(c) PROVE Data'
  BY <1>w DEF WorldStep, Expire, LinkGone, Data, lease, call
<1>o. ASSUME NEW c \in Clients, NEW k \in Calls, RuntimeStep(c, k) PROVE Data'
  <2>1. CASE CmdAdd(c, k)
    BY <2>1, Zenon DEF CmdAdd, Start, Goto, Data, lease, Operations
  <2>2. CASE CmdCheck(c, k)
    BY <2>2, Zenon DEF CmdCheck, Start, Goto, Data, lease, Operations
  <2>3. CASE CmdDel(c, k)
    BY <2>3, Zenon DEF CmdDel, Start, Goto, Data, lease, Operations
  <2>4. QED
    BY <1>o, <2>1, <2>2, <2>3, Zenon DEF RuntimeStep
<1>s. ASSUME NEW k \in Calls, ServeStep(k) PROVE Data'
  <2>r. \A c \in Clients : Failed(c) \in {"dirty", "orphan"}
    BY Zenon DEF Failed
  <2>1. CASE Lookup(k)
    <3> DEFINE l == IF leases[k[1]] # None THEN leases[k[1]] ELSE CHOOSE x \in Leases : Garbage(x)
    <3>1. l \in Leases
      BY <2>1 DEF Lookup, Data
    <3> HIDE DEF l
    <3>2. /\ arg' = [arg EXCEPT ![k] = l] /\ pc[k] = "allocate"
          /\ pc' \in {[pc EXCEPT ![k] = "check"], [pc EXCEPT ![k] = "wait"]}
          /\ of' \in {of, [of EXCEPT ![l] = k[1]]} /\ at' \in {at, [at EXCEPT ![l] = "acquire"]}
          /\ mode' \in {mode, [mode EXCEPT ![l] = "bound"]}
          /\ age' \in {age, [age EXCEPT ![l] = 0]}
          /\ UNCHANGED <<leases, rt, cur, link>>
      BY <2>1, Zenon DEF Lookup, Goto, Move, lease, l
    <3>3. /\ arg' \in [Calls -> Leases \cup {None}]
          /\ pc' \in [Calls -> {"idle", "allocate", "check", "wait", "ipnet", "drain", "release",
                                "clear"}]
      BY <3>1, <3>2, Zenon DEF Data
    <3>4. /\ of' \in [Leases -> Clients \cup {None}]
          /\ at' \in [Leases -> {"none", "acquire", "loop", "select", "sleep", "ended"}]
      BY <3>1, <3>2, SMTT(30) DEF Data
    <3>5. /\ mode' \in [Leases -> {"bound", "renewing", "rebinding"}]
          /\ age' \in [Leases -> 0 .. 3]
      BY <3>1, <3>2, SMTT(30) DEF Data
    <3>6. QED
      BY <3>2, <3>3, <3>4, <3>5, Zenon DEF Data
  <2>2. CASE SetLease(k)
    BY <2>2, ReturnTypes, SMTT(30) DEF SetLease, Data, lease
  <2>3. CASE NoMask(k)
    BY <2>3, Zenon DEF NoMask, Goto, Data
  <2>4. CASE Drained(k)
    BY <2>4, <2>r, ReturnTypes, SMTT(30) DEF Drained, Data, lease
  <2>5. CASE StopLease(k)
    <3>1. CASE leases[k[1]] = None
      BY <2>5, <3>1, ReturnTypes, SMTT(30) DEF StopLease, Data
    <3>2. CASE leases[k[1]] # None
      BY <2>5, <3>2 DEF StopLease, Goto, Data
    <3>3. QED
      BY <3>1, <3>2, Zenon
  <2>6. CASE ClearLease(k)
    BY <2>6, ReturnTypes, SMTT(30) DEF ClearLease, Data, lease
  <2>7. CASE Check(k)
    BY <2>7, Zenon DEF Check, Goto, Move, Data
  <2>8. QED
    BY <1>s, <2>1, <2>2, <2>3, <2>4, <2>5, <2>6, <2>7, Zenon DEF ServeStep, CallStep
<1>g. ASSUME NEW l \in Leases, GoroutineStep(l) PROVE Data'
  <2>c. Running(l) => of[l] \in Clients
    BY Zenon DEF LeaseInv
  <2>1. CASE Acquire(l)
    <3>0. of[l] \in Clients
      BY <2>1, <2>c, Zenon DEF Acquire, Running
    <3>1. PICK k \in Calls :
            /\ arg[k] = l /\ pc[k] = "wait"
            /\ \/ /\ Commit(l) /\ Move(l, "loop")
                  /\ link' = [link EXCEPT ![of[l]] = "up"] /\ Goto(k, "ipnet")
                  /\ UNCHANGED <<arg, rt, cur>>
               \/ Lost(l) /\ End(l) /\ Return(k, Failed(k[1])) /\ UNCHANGED link
      BY <2>1, Zenon DEF Acquire
    <3>2. UNCHANGED <<leases, of, stop>>
      BY <2>1, Zenon DEF Acquire
    <3>3. CASE Goto(k, "ipnet")
      <4>1. pc' \in [Calls -> {"idle", "allocate", "check", "wait", "ipnet", "drain", "release",
                              "clear"}] /\ UNCHANGED <<leases, of>>
        BY <3>2, <3>3, Zenon DEF Goto, Data
      <4>2. CASE Commit(l) /\ Move(l, "loop") /\ link' = [link EXCEPT ![of[l]] = "up"]
                 /\ UNCHANGED <<arg, rt, cur>>
        BY <3>0, <4>1, <4>2, SMTT(30) DEF Commit, Move, Data
      <4>3. CASE Return(k, Failed(k[1]))
        BY <3>3, <4>3, Zenon DEF Goto, Return, Data
      <4>4. QED
        BY <3>1, <4>2, <4>3, Zenon
    <3>4. CASE Lost(l) /\ End(l) /\ Return(k, Failed(k[1])) /\ UNCHANGED link
      <4>1. Failed(k[1]) \in {"dirty", "orphan"}
        BY Zenon DEF Failed
      <4>2. QED
        BY <3>0, <3>2, <3>4, <4>1, ReturnTypes, SMTT(30) DEF Lost, End, Move, Data
    <3>5. QED
      BY <3>1, <3>3, <3>4, Zenon
  <2>2. CASE at[l] = "loop" /\ ~Acquire(l)
    <3>1. of[l] \in Clients
      BY <2>2, <2>c, Zenon DEF Running
    <3>2. UNCHANGED <<leases, of, stop, call, rt, cur>>
      BY <1>g, <2>2, Zenon
         DEF GoroutineStep, LeaseStep, LinkLost, Bound, Renew, RenewFails, RebindFails,
                        Wake, Release, Tick, call
    <3>3. /\ at' \in [Leases -> {"none", "acquire", "loop", "select", "sleep", "ended"}]
          /\ mode' \in [Leases -> {"bound", "renewing", "rebinding"}]
          /\ age' \in [Leases -> 0 .. 3]
      BY <1>g, <2>2 DEF GoroutineStep, LeaseStep, LinkLost, Bound, Renew, RenewFails, RebindFails,
                        Wake, Release, Tick, End, Move, Commit, Data
    <3>4. link' \in [Clients -> {"up", "down", "gone"}]
      BY <1>g, <2>2, <3>1, Zenon DEF GoroutineStep, LeaseStep, LinkLost, Bound, Renew, RenewFails,
                        RebindFails, Wake, Release, Tick, Commit, Lost, Selecting, Data
    <3>5. QED
      BY <3>2, <3>3, <3>4, Zenon DEF Data, call
  <2>3. CASE at[l] # "loop" /\ (Wake(l) \/ Tick(l))
    BY <2>3 DEF Wake, Tick, Move, Data, call
  <2>4. CASE Release(l)
    <3>1. of[l] \in Clients
      BY <2>4, <2>c, Zenon DEF Release, Selecting, Running
    <3>2. QED
      BY <2>4, <3>1 DEF Release, End, Move, Data, call
  <2>5. QED
    BY <1>g, <2>1, <2>2, <2>3, <2>4, Zenon
    DEF GoroutineStep, LeaseStep, LinkLost, LinkExists, Bound, Renew, RenewFails, RebindFails
<1>r. CASE Restart
  BY <1>r DEF Restart, Failed, Data, Operations
<1>q. QED
  BY <1>u, <1>w, <1>o, <1>s, <1>g, <1>r, Zenon
     DEF Next, WorldStep, RuntimeStep, ServeStep, GoroutineStep

-----------------------------------------------------------------------------
(* What a step of call k does to the calls: it moves k only, and k keeps   *)
(* its lease, takes one or drops it with the step.                         *)
LEMMA NextHeld == Data /\ Held /\ [Next]_vars => Held'
<1> SUFFICES ASSUME Data, Held, [Next]_vars PROVE Held'
  BY Zenon
<1>t. /\ DOMAIN pc = Calls /\ DOMAIN arg = Calls /\ None \notin Leases
      /\ leases \in [Clients -> Leases \cup {None}]
  BY NoneAssumption, Zenon DEF Data
<1>k. ASSUME NEW k \in Calls, NEW p, NEW l, pc' = [pc EXCEPT ![k] = p],
             arg' = [arg EXCEPT ![k] = l], l = None <=> p \in {"idle", "allocate", "release"}
      PROVE  Held'
  BY <1>k, <1>t, Zenon DEF Held
<1>1. CASE UNCHANGED call
  BY <1>1, Zenon DEF Held, call
<1>2. ASSUME NEW c \in Clients, NEW k \in Calls, RuntimeStep(c, k) PROVE Held'
  BY <1>2, <1>t, Zenon
  DEF RuntimeStep, CmdAdd, CmdCheck, CmdDel, Start, Goto, Held
<1>3. ASSUME NEW k \in Calls, ServeStep(k) PROVE Held'
  <2>1. CASE Lookup(k)
    <3>1. \E l \in Leases : arg' = [arg EXCEPT ![k] = l]
      BY <2>1, <1>t, CallsArePairs, Zenon DEF Lookup
    <3>2. pc' = [pc EXCEPT ![k] = "check"] \/ pc' = [pc EXCEPT ![k] = "wait"]
      BY <2>1, Zenon DEF Lookup, Goto
    <3>3. QED
      BY <3>1, <3>2, <1>k, <1>t, Zenon
  <2>2. CASE \E r : Return(k, r)
    BY <2>2, <1>k, Zenon DEF Return, Goto
  <2>3. CASE NoMask(k) \/ Check(k)
    BY <2>3, <1>t, Zenon DEF NoMask, Check, Goto, Held
  <2>4. CASE StopLease(k)
    <3>1. CASE leases[k[1]] = None
      BY <2>2, <2>4, <3>1, Zenon DEF StopLease
    <3>2. CASE leases[k[1]] # None
      BY <2>4, <3>2, <1>k, Zenon DEF StopLease, Goto
    <3>3. QED
      BY <3>1, <3>2, Zenon
  <2>5. QED
    BY <1>3, <2>1, <2>2, <2>3, <2>4, Zenon DEF ServeStep, CallStep, SetLease, Drained, ClearLease
<1>4. ASSUME NEW l \in Leases, GoroutineStep(l) PROVE Held'
  <2>1. CASE Acquire(l)
    <3>1. PICK k \in Calls :
            /\ arg[k] = l /\ pc[k] = "wait"
            /\ \/ Goto(k, "ipnet") /\ UNCHANGED arg
               \/ \E r : Return(k, r)
      BY <2>1, Zenon DEF Acquire
    <3>2. QED
      BY <3>1, <1>k, <1>t, Zenon DEF Return, Goto, Held
  <2>2. CASE ~Acquire(l)
    BY <1>4, <2>2, <1>1, Zenon
    DEF GoroutineStep, LeaseStep, LinkLost, Bound, Renew, RenewFails, RebindFails, Wake, Release, Tick
  <2>3. QED
    BY <2>1, <2>2, Zenon
<1>5. CASE Restart
  BY <1>5, Zenon DEF Restart, Held
<1>6. ASSUME NEW c \in Clients, WorldStep(c) PROVE Held'
  BY <1>1, <1>6, Zenon DEF WorldStep, Expire, LinkGone
<1>7. QED
  BY <1>1, <1>2, <1>3, <1>4, <1>5, <1>6, Zenon
  DEF Next, WorldStep, RuntimeStep, ServeStep, GoroutineStep, vars, call

(* The type invariant is these three.                                      *)
LEMMA TypeParts == TypeOK <=> Data /\ Held /\ Flags
  BY Zenon DEF TypeOK, Data, Held, Flags

-----------------------------------------------------------------------------
(* A call that returns is the one the runtime waits for.                   *)
LEMMA ReturnEffect ==
  ASSUME CallInv, NEW k \in Calls, NEW r, pc[k] # "idle", Return(k, r)
  PROVE  /\ pc' = [pc EXCEPT ![k] = "idle"] /\ arg' = [arg EXCEPT ![k] = None]
         /\ rt' = [rt EXCEPT ![k[1]] = r] /\ cur' = [cur EXCEPT ![k[1]] = None]
  BY Zenon DEF CallInv, Return, Goto

(* The calls the daemon serves stay those the runtime waits for: the       *)
(* runtime starts one only when it waits for none, and a call that returns *)
(* is the only one of its client.                                          *)
LEMMA NextCallInv == Data /\ CallInv /\ [Next]_vars => CallInv'
<1> SUFFICES ASSUME Data, CallInv, [Next]_vars PROVE CallInv'
  BY Zenon
<1>t. /\ pc \in [Calls -> {"idle", "allocate", "check", "wait", "ipnet", "drain", "release",
                           "clear"}]
      /\ DOMAIN rt = Clients /\ DOMAIN cur = Clients
      /\ \A k \in Calls : k[1] \in Clients
  BY CallsArePairs, Zenon DEF Data
<1>m. ASSUME NEW k \in Calls, NEW p, pc[k] # "idle", pc' = [pc EXCEPT ![k] = p],
             p \in {"release", "clear"} <=> pc[k] \in {"release", "clear"}, UNCHANGED <<rt, cur>>
      PROVE  CallInv'
  BY <1>m, <1>t, Zenon DEF CallInv
<1>e. ASSUME NEW k \in Calls, NEW r, pc[k] # "idle", Return(k, r)
      PROVE  CallInv'
  <2>1. /\ pc' = [pc EXCEPT ![k] = "idle"]
        /\ rt' = [rt EXCEPT ![k[1]] = r] /\ cur' = [cur EXCEPT ![k[1]] = None]
    BY <1>e, ReturnEffect, Zenon
  <2>2. \A m \in Calls : m # k /\ pc[m] # "idle" => m[1] # k[1]
    BY <1>e, OneCallPerClient, Zenon
  <2>3. QED
    BY <1>t, <2>1, <2>2, Zenon DEF CallInv
<1>1. CASE UNCHANGED <<pc, rt, cur>>
  BY <1>1, Zenon DEF CallInv
<1>2. ASSUME NEW c \in Clients, NEW k \in Calls, RuntimeStep(c, k) PROVE CallInv'
  <2>1. PICK op \in Operations, p \in {"allocate", "release"} :
          /\ rt[c] \notin Operations /\ k[1] = c /\ pc[k] = "idle"
          /\ rt' = [rt EXCEPT ![c] = op] /\ cur' = [cur EXCEPT ![c] = k[2]]
          /\ pc' = [pc EXCEPT ![k] = p] /\ (p = "release" <=> op = "DEL")
    BY <1>2, Zenon DEF RuntimeStep, CmdAdd, CmdCheck, CmdDel, Start, Goto, Operations
  <2>2. \A m \in Calls : pc[m] # "idle" => m[1] # c
    BY <2>1, Zenon DEF CallInv, Operations
  <2>3. QED
    BY <1>t, <2>1, <2>2, Zenon DEF CallInv, Operations
<1>3. ASSUME NEW k \in Calls, ServeStep(k) PROVE CallInv'
  <2>1. CASE Lookup(k)
    BY <2>1, <1>m, Zenon DEF Lookup, Goto
  <2>2. CASE NoMask(k) \/ Check(k)
    BY <2>2, <1>m, Zenon DEF NoMask, Check, Goto
  <2>3. CASE SetLease(k) \/ Drained(k) \/ ClearLease(k)
    BY <2>3, <1>e, Zenon DEF SetLease, Drained, ClearLease
  <2>4. CASE StopLease(k)
    BY <2>4, <1>e, <1>m, Zenon DEF StopLease, Goto
  <2>5. QED
    BY <1>3, <2>1, <2>2, <2>3, <2>4, Zenon DEF ServeStep, CallStep
<1>4. ASSUME NEW l \in Leases, GoroutineStep(l) PROVE CallInv'
  <2>1. CASE Acquire(l)
    <3>1. PICK k \in Calls :
            /\ pc[k] = "wait"
            /\ \/ Goto(k, "ipnet") /\ UNCHANGED <<rt, cur>>
               \/ \E r : Return(k, r)
      BY <2>1, Zenon DEF Acquire
    <3>2. QED
      BY <3>1, <1>m, <1>e, Zenon DEF Goto
  <2>2. CASE ~Acquire(l)
    BY <1>4, <2>2, <1>1, Zenon
    DEF GoroutineStep, LeaseStep, LinkLost, Bound, Renew, RenewFails, RebindFails, Wake, Release,
        Tick, call
  <2>3. QED
    BY <2>1, <2>2, Zenon
<1>5. CASE Restart
  BY <1>5, Zenon DEF Restart, CallInv
<1>6. ASSUME NEW c \in Clients, WorldStep(c) PROVE CallInv'
  BY <1>1, <1>6, Zenon DEF WorldStep, Expire, LinkGone, call
<1>7. QED
  BY <1>1, <1>2, <1>3, <1>4, <1>5, <1>6, Zenon
  DEF Next, WorldStep, RuntimeStep, ServeStep, GoroutineStep, vars, call

-----------------------------------------------------------------------------
(* What the steps below use of the types.                                  *)
LEMMA TypeFacts ==
  ASSUME TypeOK
  PROVE  /\ leases \in [Clients -> Leases \cup {None}] /\ of \in [Leases -> Clients \cup {None}]
         /\ DOMAIN at = Leases /\ DOMAIN age = Leases /\ DOMAIN stop = Leases /\ DOMAIN rt = Clients
         /\ DOMAIN srv = Clients /\ DOMAIN pc = Calls /\ arg \in [Calls -> Leases \cup {None}]
         /\ \A k \in Calls : arg[k] = None <=> pc[k] \in {"idle", "allocate", "release"}
         /\ \A k \in Calls : k[1] \in Clients
         /\ None \notin Leases
  BY CallsArePairs, NoneAssumption, Zenon DEF TypeOK

(* Another call has neither the client nor the lease of call k.            *)
LEMMA OthersApart ==
  ASSUME Inv, NEW k \in Calls, pc[k] # "idle", NEW m \in Calls, m # k, pc[m] # "idle"
  PROVE  m[1] # k[1] /\ (arg[m] # None => arg[m] # arg[k] /\ arg[m] # leases[k[1]])
<1>1. m[1] # k[1]
  BY OneCallPerClient, Zenon DEF Inv
<1>2. arg[m] # None => of[arg[m]] = m[1]
  BY Zenon DEF Inv, ArgInv
<1>3. arg[k] # None => of[arg[k]] = k[1]
  BY Zenon DEF Inv, ArgInv
<1>4. leases[k[1]] # None => of[leases[k[1]]] = k[1]
  BY CallsArePairs, Zenon DEF Inv, MapInv
<1>5. QED
  BY <1>1, <1>2, <1>3, <1>4, Zenon

(* The goroutine of a lease touches neither the map nor the calls, but for *)
(* the answer to AcquireLease, and is past acquire when it does not.       *)
LEMMA GoroutineEffect ==
  ASSUME TypeOK, NEW l \in Leases, GoroutineStep(l), ~Acquire(l)
  PROVE  /\ UNCHANGED <<leases, of, stop, call, rt, cur>>
         /\ Maintained(l)
         /\ \/ at' = at
            \/ \E p \in {"loop", "select", "sleep", "ended"} : at' = [at EXCEPT ![l] = p]
<1>1. UNCHANGED <<leases, of, stop, call, rt, cur>>
  BY Zenon DEF GoroutineStep, LeaseStep, LinkLost, Bound, Renew, RenewFails, RebindFails, Wake,
         Release, Tick
<1>2. Maintained(l)
  BY Zenon
     DEF GoroutineStep, LeaseStep, LinkLost, LinkExists, Bound, Renew, RenewFails, RebindFails,
         Wake, Release, Tick, Selecting, Maintained, Running
<1>3. at' = at \/ \E p \in {"loop", "select", "sleep", "ended"} : at' = [at EXCEPT ![l] = p]
  BY Zenon DEF GoroutineStep, LeaseStep, LinkLost, Bound, Renew, RenewFails, RebindFails, Wake,
         Release, Tick, End, Move
<1>4. QED
  BY <1>1, <1>2, <1>3, Zenon

(* The two outcomes of AcquireLease, for the call that waits for l.        *)
LEMMA AcquireEffect ==
  ASSUME Inv, NEW l \in Leases, Acquire(l)
  PROVE  \E k \in Calls :
           /\ arg[k] = l /\ pc[k] = "wait" /\ of[l] = k[1]
           /\ UNCHANGED <<leases, of, stop>>
           /\ \/ /\ at' = [at EXCEPT ![l] = "loop"] /\ pc' = [pc EXCEPT ![k] = "ipnet"]
                 /\ srv' = [srv EXCEPT ![of[l]] = TRUE] /\ UNCHANGED <<arg, rt, cur>>
              \/ /\ at' = [at EXCEPT ![l] = "ended"] /\ pc' = [pc EXCEPT ![k] = "idle"]
                 /\ arg' = [arg EXCEPT ![k] = None]
                 /\ rt' = [rt EXCEPT ![k[1]] = Failed(k[1])] /\ Lost(l)
<1>1. UNCHANGED <<leases, of, stop>>
  BY Zenon DEF Acquire
<1>2. PICK k \in Calls :
        /\ arg[k] = l /\ pc[k] = "wait"
        /\ \/ /\ link[of[l]] # "gone" /\ Commit(l) /\ Move(l, "loop")
              /\ link' = [link EXCEPT ![of[l]] = "up"] /\ Goto(k, "ipnet")
              /\ UNCHANGED <<arg, rt, cur>>
           \/ /\ Lost(l) /\ End(l) /\ Return(k, Failed(k[1]))
              /\ UNCHANGED link
  BY Zenon DEF Acquire
<1>3. of[l] = k[1]
  BY <1>2, NoneAssumption, Zenon DEF Inv, ArgInv
<1>4. CASE Commit(l) /\ Move(l, "loop") /\ Goto(k, "ipnet") /\ UNCHANGED <<arg, rt, cur>>
  BY <1>1, <1>2, <1>3, <1>4, Zenon DEF Commit, Move, Goto
<1>5. CASE Lost(l) /\ End(l) /\ Return(k, Failed(k[1]))
  BY <1>1, <1>2, <1>3, <1>5, ReturnEffect, Zenon DEF Inv, End, Move
<1>6. QED
  BY <1>2, <1>4, <1>5, Zenon

(* AcquireLease starts with a lease nobody knows.                          *)
LEMMA LookupEffect ==
  ASSUME TypeOK, NEW k \in Calls, Lookup(k)
  PROVE  /\ pc[k] = "allocate" /\ UNCHANGED <<leases, rt, cur, srv>>
         /\ \/ /\ leases[k[1]] # None /\ pc' = [pc EXCEPT ![k] = "check"]
               /\ arg' = [arg EXCEPT ![k] = leases[k[1]]] /\ UNCHANGED lease
            \/ \E l \in Leases :
                 /\ Garbage(l) /\ leases[k[1]] = None
                 /\ pc' = [pc EXCEPT ![k] = "wait"] /\ arg' = [arg EXCEPT ![k] = l]
                 /\ of' = [of EXCEPT ![l] = k[1]] /\ at' = [at EXCEPT ![l] = "acquire"]
                 /\ age' = [age EXCEPT ![l] = 0] /\ stop' = [stop EXCEPT ![l] = FALSE]
<1>1. CASE leases[k[1]] # None
  BY <1>1, Zenon DEF Lookup, Goto
<1>2. CASE leases[k[1]] = None
  <2> DEFINE l == CHOOSE x \in Leases : Garbage(x)
  <2>1. l \in Leases /\ Garbage(l)
    BY <1>2, Zenon DEF Lookup
  <2> HIDE DEF l
  <2>2. /\ pc[k] = "allocate" /\ UNCHANGED <<leases, rt, cur, srv>>
        /\ pc' = [pc EXCEPT ![k] = "wait"] /\ arg' = [arg EXCEPT ![k] = l]
        /\ of' = [of EXCEPT ![l] = k[1]] /\ at' = [at EXCEPT ![l] = "acquire"]
        /\ age' = [age EXCEPT ![l] = 0] /\ stop' = [stop EXCEPT ![l] = FALSE]
    BY <1>2, Zenon DEF Lookup, Goto, Move, l
  <2>3. QED
    BY <1>2, <2>1, <2>2, Zenon
<1>3. QED
  BY <1>1, <1>2, Zenon

-----------------------------------------------------------------------------
(* What Allocate and Release know of their lease between two critical      *)
(* sections stays true whatever the other calls and the goroutines do.     *)
LEMMA NextArgInv == Inv /\ [Next]_vars => ArgInv'
<1> SUFFICES ASSUME Inv, [Next]_vars PROVE ArgInv'
  BY Zenon
<1> DEFINE Good(m) ==
      /\ arg[m] # None => of[arg[m]] = m[1]
      /\ pc[m] \in {"check", "clear"} => leases[m[1]] = arg[m]
      /\ pc[m] = "wait" => leases[m[1]] = None /\ at[arg[m]] = "acquire"
      /\ pc[m] \in {"ipnet", "drain"} => leases[m[1]] \in {None, arg[m]}
      /\ pc[m] \in {"wait", "ipnet"} => ~stop[arg[m]]
<1>0. SUFFICES ASSUME NEW m \in Calls PROVE Good(m)'
  BY Zenon DEF ArgInv
<1>g. Good(m)
  BY Zenon DEF Inv, ArgInv
<1>t. /\ leases \in [Clients -> Leases \cup {None}] /\ of \in [Leases -> Clients \cup {None}]
      /\ DOMAIN at = Leases /\ DOMAIN stop = Leases
      /\ DOMAIN pc = Calls /\ arg \in [Calls -> Leases \cup {None}]
      /\ \A k \in Calls : arg[k] = None <=> pc[k] \in {"idle", "allocate", "release"}
      /\ \A k \in Calls : k[1] \in Clients
      /\ None \notin Leases
  BY TypeFacts, Zenon DEF Inv
<1>1. CASE UNCHANGED <<leases, of, at, stop, call>>
  BY <1>g, <1>1, Zenon DEF call
<1>2. ASSUME NEW c \in Clients, NEW k \in Calls, RuntimeStep(c, k) PROVE Good(m)'
  <2>1. /\ UNCHANGED <<leases, of, at, stop, arg>> /\ pc[k] = "idle"
        /\ \E p \in {"allocate", "release"} : pc' = [pc EXCEPT ![k] = p]
    BY <1>2, Zenon DEF RuntimeStep, CmdAdd, CmdCheck, CmdDel, Start, Goto, lease
  <2>2. QED
    BY <1>g, <1>t, <2>1, Zenon
<1>3. ASSUME NEW k \in Calls, ServeStep(k) PROVE Good(m)'
  <2>0. pc[k] # "idle"
    BY <1>3, Zenon
       DEF ServeStep, CallStep, Lookup, SetLease, NoMask, Drained, StopLease, ClearLease, Check
  <2>o. m # k /\ pc[m] # "idle" =>
          m[1] # k[1] /\ (arg[m] # None => arg[m] # arg[k] /\ arg[m] # leases[k[1]])
    BY <2>0, OthersApart, Zenon
  <2>i. pc[m] = "idle" => arg[m] = None
    BY <1>t, Zenon
  <2>1. CASE Lookup(k)
    <3>1. CASE /\ leases[k[1]] # None /\ pc' = [pc EXCEPT ![k] = "check"]
               /\ arg' = [arg EXCEPT ![k] = leases[k[1]]] /\ UNCHANGED lease
      <4>1. leases' = leases
        BY <2>1, Zenon DEF Lookup
      <4>2. of[leases[k[1]]] = k[1]
        BY <1>t, <3>1, Zenon DEF Inv, MapInv
      <4>3. QED
        BY <1>g, <1>t, <3>1, <4>1, <4>2, Zenon DEF lease
    <3>2. ASSUME NEW l \in Leases, Garbage(l), leases[k[1]] = None, leases' = leases,
                 pc' = [pc EXCEPT ![k] = "wait"], arg' = [arg EXCEPT ![k] = l],
                 of' = [of EXCEPT ![l] = k[1]], at' = [at EXCEPT ![l] = "acquire"],
                 stop' = [stop EXCEPT ![l] = FALSE]
          PROVE  Good(m)'
      <4>1. arg[m] # l
        BY <3>2, Zenon DEF Garbage
      <4>2. CASE m = k
        BY <1>t, <3>2, <4>2, Zenon
      <4>3. CASE m # k
        <5>1. /\ pc'[m] = pc[m] /\ arg'[m] = arg[m] /\ leases' = leases
              /\ arg[m] # None => /\ of'[arg[m]] = of[arg[m]] /\ at'[arg[m]] = at[arg[m]]
                                  /\ stop'[arg[m]] = stop[arg[m]]
          BY <1>t, <3>2, <4>1, <4>3, Zenon
        <5>2. QED
          BY <1>g, <1>t, <5>1, Zenon
      <4>4. QED
        BY <4>2, <4>3, Zenon
    <3>3. QED
      BY <2>1, <3>1, <3>2, LookupEffect, Zenon DEF Inv
  <2>2. CASE SetLease(k) \/ Drained(k) \/ ClearLease(k)
    <3>1. /\ pc' = [pc EXCEPT ![k] = "idle"] /\ arg' = [arg EXCEPT ![k] = None]
          /\ UNCHANGED <<of, at, stop>>
          /\ leases' = leases \/ \E l : leases' = [leases EXCEPT ![k[1]] = l]
      BY <2>0, <2>2, ReturnEffect, Zenon DEF Inv, SetLease, Drained, ClearLease, lease
    <3>2. QED
      BY <1>g, <1>t, <2>o, <2>i, <3>1, Zenon
  <2>3. CASE NoMask(k)
    <3>1. /\ pc[k] = "ipnet" /\ stop' = [stop EXCEPT ![arg[k]] = TRUE]
          /\ pc' = [pc EXCEPT ![k] = "drain"] /\ UNCHANGED <<leases, of, at, arg>>
      BY <2>3, Zenon DEF NoMask, Goto
    <3>2. QED
      BY <1>g, <1>t, <2>o, <3>1, Zenon
  <2>4. CASE StopLease(k) /\ leases[k[1]] = None
    <3>1. /\ pc' = [pc EXCEPT ![k] = "idle"] /\ arg' = [arg EXCEPT ![k] = None]
          /\ UNCHANGED <<leases, of, at, stop>>
      BY <2>0, <2>4, ReturnEffect, Zenon DEF Inv, StopLease
    <3>2. QED
      BY <1>g, <1>t, <3>1, Zenon
  <2>5. CASE StopLease(k) /\ leases[k[1]] # None
    <3>1. /\ pc' = [pc EXCEPT ![k] = "clear"] /\ arg' = [arg EXCEPT ![k] = leases[k[1]]]
          /\ stop' = [stop EXCEPT ![leases[k[1]]] = TRUE] /\ UNCHANGED <<leases, of, at>>
      BY <2>5, Zenon DEF StopLease, Goto
    <3>2. of[leases[k[1]]] = k[1]
      BY <1>t, <2>5, Zenon DEF Inv, MapInv
    <3>3. QED
      BY <1>g, <1>t, <2>o, <3>1, <3>2, Zenon
  <2>6. CASE Check(k)
    <3>1. /\ pc[k] = "check" /\ pc' = [pc EXCEPT ![k] = "ipnet"]
          /\ at' = [at EXCEPT ![arg[k]] = "loop"] /\ UNCHANGED <<leases, of, stop, arg>>
          /\ at[arg[k]] \in {"select", "sleep"}
      BY <2>6, Zenon DEF Check, Goto, Move, Selecting
    <3>2. arg[k] \in Leases /\ Running(arg[k])
      BY <1>t, <3>1, Zenon DEF Running
    <3>3. ~stop[arg[k]]
      <4>1. SUFFICES ASSUME stop[arg[k]] PROVE FALSE
        BY Zenon
      <4>2. PICK j \in Calls : arg[j] = arg[k] /\ pc[j] \in {"drain", "clear"}
        BY <3>2, <4>1, Zenon DEF Inv, LeaseInv
      <4>3. QED
        BY <1>t, <2>0, <3>1, <3>2, <4>2, OthersApart, Zenon
    <3>4. QED
      BY <1>g, <1>t, <2>o, <3>1, <3>2, <3>3, Zenon
  <2>7. QED
    BY <1>3, <2>1, <2>2, <2>3, <2>4, <2>5, <2>6, Zenon DEF ServeStep, CallStep
<1>4. ASSUME NEW l \in Leases, GoroutineStep(l) PROVE Good(m)'
  <2>1. CASE Acquire(l)
    <3>1. PICK k \in Calls :
            /\ arg[k] = l /\ pc[k] = "wait" /\ UNCHANGED <<leases, of, stop>>
            /\ \/ /\ at' = [at EXCEPT ![l] = "loop"] /\ pc' = [pc EXCEPT ![k] = "ipnet"]
                  /\ UNCHANGED arg
               \/ /\ at' = [at EXCEPT ![l] = "ended"] /\ pc' = [pc EXCEPT ![k] = "idle"]
                  /\ arg' = [arg EXCEPT ![k] = None]
      BY <2>1, AcquireEffect, Zenon
    <3>2. m # k /\ arg[m] # None => arg[m] # l
      BY <1>t, <3>1, OthersApart, Zenon
    <3>3. QED
      BY <1>g, <1>t, <3>1, <3>2
  <2>2. CASE ~Acquire(l)
    <3>1. /\ UNCHANGED <<leases, of, stop, pc, arg>> /\ at[l] # "acquire"
          /\ at' = at \/ \E p : at' = [at EXCEPT ![l] = p]
      BY <1>4, <2>2, GoroutineEffect, Zenon DEF Inv, Maintained, call
    <3>2. QED
      BY <1>g, <1>t, <3>1, Zenon
  <2>3. QED
    BY <2>1, <2>2, Zenon
<1>5. CASE Restart
  BY <1>5, Zenon DEF Restart
<1>6. ASSUME NEW c \in Clients, WorldStep(c) PROVE Good(m)'
  BY <1>1, <1>6, Zenon DEF WorldStep, Expire, LinkGone, lease
<1>7. QED
  BY <1>1, <1>2, <1>3, <1>4, <1>5, <1>6, Zenon
  DEF Next, WorldStep, RuntimeStep, ServeStep, GoroutineStep, vars, lease

-----------------------------------------------------------------------------
(* The map keeps agreeing with what the runtime knows of the attachments.  *)
LEMMA NextMapInv == Inv /\ [Next]_vars => MapInv'
<1> SUFFICES ASSUME Inv, [Next]_vars PROVE MapInv'
  BY Zenon
<1> DEFINE Good(d) ==
      /\ leases[d] # None => of[leases[d]] = d
      /\ rt[d] = "detached" => leases[d] = None
      /\ rt[d] = "attached" => leases[d] # None /\ ~stop[leases[d]]
<1>0. SUFFICES ASSUME NEW d \in Clients PROVE Good(d)'
  BY Zenon DEF MapInv
<1>g. Good(d)
  BY Zenon DEF Inv, MapInv
<1>t. /\ leases \in [Clients -> Leases \cup {None}] /\ of \in [Leases -> Clients \cup {None}]
      /\ DOMAIN stop = Leases /\ DOMAIN rt = Clients /\ arg \in [Calls -> Leases \cup {None}]
      /\ \A k \in Calls : arg[k] = None <=> pc[k] \in {"idle", "allocate", "release"}
      /\ \A k \in Calls : k[1] \in Clients
      /\ None \notin Leases
  BY TypeFacts, Zenon DEF Inv
<1>f. \A c \in Clients : Failed(c) \notin {"detached", "attached"}
  BY Zenon DEF Failed
<1>1. CASE UNCHANGED <<leases, of, stop, rt>>
  BY <1>g, <1>1, Zenon
<1>2. ASSUME NEW c \in Clients, NEW k \in Calls, RuntimeStep(c, k) PROVE Good(d)'
  <2>1. /\ UNCHANGED <<leases, of, stop>>
        /\ \E op \in Operations : rt' = [rt EXCEPT ![c] = op]
    BY <1>2, Zenon DEF RuntimeStep, CmdAdd, CmdCheck, CmdDel, Start, lease, Operations
  <2>2. QED
    BY <1>g, <1>t, <2>1, Zenon DEF Operations
<1>3. ASSUME NEW k \in Calls, ServeStep(k) PROVE Good(d)'
  <2>0. pc[k] # "idle"
    BY <1>3, Zenon
       DEF ServeStep, CallStep, Lookup, SetLease, NoMask, Drained, StopLease, ClearLease, Check
  <2>r. rt[k[1]] \in Operations
    BY <2>0, Zenon DEF Inv, CallInv, Operations
  <2>a. arg[k] # None => of[arg[k]] = k[1]
    BY Zenon DEF Inv, ArgInv
  <2>1. CASE Lookup(k)
    <3>1. CASE UNCHANGED lease
      BY <1>1, <2>1, <3>1, Zenon DEF Lookup, lease
    <3>2. ASSUME NEW l \in Leases, Garbage(l), of' = [of EXCEPT ![l] = k[1]],
                 stop' = [stop EXCEPT ![l] = FALSE]
          PROVE  Good(d)'
      <4>1. leases[d] # l /\ UNCHANGED <<leases, rt>>
        BY <2>1, <3>2, Zenon DEF Garbage, Lookup
      <4>2. QED
        BY <1>g, <1>t, <3>2, <4>1, Zenon
    <3>3. QED
      BY <2>1, <3>1, <3>2, LookupEffect, Zenon DEF Inv
  <2>2. CASE SetLease(k)
    <3>1. /\ leases' = [leases EXCEPT ![k[1]] = arg[k]] /\ UNCHANGED <<of, stop>>
          /\ rt' = [rt EXCEPT ![k[1]] = "attached"] /\ pc[k] = "ipnet"
      BY <2>0, <2>2, ReturnEffect, Zenon DEF Inv, SetLease, lease
    <3>2. ~stop[arg[k]] /\ arg[k] # None
      BY <1>t, <3>1, Zenon DEF Inv, ArgInv
    <3>3. QED
      BY <1>g, <1>t, <2>a, <3>1, <3>2, Zenon
  <2>3. CASE NoMask(k)
    <3>1. /\ stop' = [stop EXCEPT ![arg[k]] = TRUE] /\ UNCHANGED <<leases, of, rt>>
          /\ arg[k] # None
      BY <1>t, <2>3, Zenon DEF NoMask
    <3>2. QED
      BY <1>g, <1>t, <2>r, <2>a, <3>1, Zenon DEF Operations
  <2>4. CASE Drained(k)
    <3>1. UNCHANGED <<leases, of, stop>> /\ rt' = [rt EXCEPT ![k[1]] = Failed(k[1])]
      BY <2>0, <2>4, ReturnEffect, Zenon DEF Inv, Drained, lease
    <3>2. QED
      BY <1>f, <1>g, <1>t, <3>1, Zenon
  <2>5. CASE StopLease(k) /\ leases[k[1]] = None
    <3>1. UNCHANGED <<leases, of, stop>> /\ rt' = [rt EXCEPT ![k[1]] = "detached"]
      BY <2>0, <2>5, ReturnEffect, Zenon DEF Inv, StopLease
    <3>2. QED
      BY <1>g, <1>t, <2>5, <3>1, Zenon
  <2>6. CASE StopLease(k) /\ leases[k[1]] # None
    <3>1. UNCHANGED <<leases, of, rt>> /\ stop' = [stop EXCEPT ![leases[k[1]]] = TRUE]
      BY <2>6, Zenon DEF StopLease
    <3>2. leases[d] = leases[k[1]] => d = k[1]
      BY <1>g, <1>t, <2>6, Zenon DEF Inv, MapInv
    <3>3. QED
      BY <1>g, <1>t, <2>r, <2>6, <3>1, <3>2, Zenon DEF Operations
  <2>7. CASE ClearLease(k)
    <3>1. /\ leases' = [leases EXCEPT ![k[1]] = None] /\ UNCHANGED <<of, stop>>
          /\ rt' = [rt EXCEPT ![k[1]] = "detached"]
      BY <2>0, <2>7, ReturnEffect, Zenon DEF Inv, ClearLease, lease
    <3>2. QED
      BY <1>g, <1>t, <3>1, Zenon
  <2>8. CASE Check(k)
    BY <1>1, <2>8, Zenon DEF Check
  <2>9. QED
    BY <1>3, <2>1, <2>2, <2>3, <2>4, <2>5, <2>6, <2>7, <2>8, Zenon DEF ServeStep, CallStep
<1>4. ASSUME NEW l \in Leases, GoroutineStep(l) PROVE Good(d)'
  <2>1. CASE Acquire(l)
    <3>1. PICK k \in Calls :
            /\ UNCHANGED <<leases, of, stop>>
            /\ rt' = rt \/ rt' = [rt EXCEPT ![k[1]] = Failed(k[1])]
      BY <2>1, AcquireEffect, Zenon
    <3>2. QED
      BY <1>f, <1>g, <1>t, <3>1, Zenon
  <2>2. CASE ~Acquire(l)
    BY <1>1, <1>4, <2>2, GoroutineEffect, Zenon DEF Inv
  <2>3. QED
    BY <2>1, <2>2, Zenon
<1>5. CASE Restart
  <2>1. /\ leases' = [c \in Clients |-> None]
        /\ rt'[d] # "attached"
    BY <1>5, <1>f, Zenon DEF Restart, Operations
  <2>2. QED
    BY <2>1, Zenon
<1>6. ASSUME NEW c \in Clients, WorldStep(c) PROVE Good(d)'
  BY <1>1, <1>6, Zenon DEF WorldStep, Expire, LinkGone, lease
<1>7. QED
  BY <1>1, <1>2, <1>3, <1>4, <1>5, <1>6, Zenon
  DEF Next, WorldStep, RuntimeStep, ServeStep, GoroutineStep, vars, lease

-----------------------------------------------------------------------------
(* A step of the goroutine of l leaves the server with a binding for every *)
(* lease that is still maintained and has not expired.                     *)
LEMMA GoroutineKeepsBinding ==
  ASSUME Inv, NEW l \in Leases, GoroutineStep(l), ~Acquire(l), NEW x \in Leases,
         Maintained(x)', age'[x] < 3
  PROVE  srv'[of[x]]
<1>t. /\ DOMAIN at = Leases /\ age \in [Leases -> 0 .. 3] /\ DOMAIN srv = Clients
  BY Zenon DEF Inv, TypeOK
<1>e. Maintained(l) /\ (at' = at \/ \E p : at' = [at EXCEPT ![l] = p])
  BY GoroutineEffect, Zenon DEF Inv
<1>1. Maintained(x) /\ Running(x)
  BY <1>t, <1>e, Zenon DEF Maintained, Running
<1>2. of[x] \in Clients /\ (age[x] < 3 => srv[of[x]])
  BY <1>1, Zenon DEF Inv, LeaseInv
<1>3. CASE Renew(l)
  <2>1. srv' = [srv EXCEPT ![of[l]] = TRUE] /\ age' = [age EXCEPT ![l] = 0]
    BY <1>3, Zenon DEF Renew, Commit
  <2>2. CASE of[x] = of[l]
    BY <1>t, <1>2, <2>1, <2>2, Zenon
  <2>3. CASE of[x] # of[l]
    BY <1>t, <1>2, <2>1, <2>3, Zenon
  <2>4. QED
    BY <2>2, <2>3, Zenon
<1>4. CASE Release(l)
  <2>1. at' = [at EXCEPT ![l] = "ended"] /\ age' = [age EXCEPT ![l] = 0]
    BY <1>4, Zenon DEF Release, End, Move
  <2>2. x # l
    BY <1>t, <2>1, Zenon DEF Maintained, Running
  <2>3. of[x] # of[l]
    BY <1>1, <1>e, <2>2, OneGoroutine, Zenon DEF Maintained
  <2>4. srv' = srv \/ srv' = [srv EXCEPT ![of[l]] = FALSE]
    BY <1>4, Zenon DEF Release
  <2>5. QED
    BY <1>t, <1>2, <2>1, <2>2, <2>3, <2>4, Zenon
<1>5. CASE Tick(l)
  BY <1>t, <1>2, <1>5, Zenon DEF Tick
<1>6. CASE RenewFails(l) \/ RebindFails(l)
  <2>1. Lost(l) /\ (age' = age \/ End(l))
    BY <1>6, Zenon DEF RenewFails, RebindFails
  <2>2. End(l) => x # l
    BY <1>t, Zenon DEF End, Move, Maintained, Running
  <2>3. age'[x] = age[x]
    BY <1>t, <2>1, <2>2, Zenon DEF End
  <2>4. srv[of[x]]
    BY <1>2, <2>3, Zenon
  <2>5. PICK b \in {srv[of[l]], TRUE} : srv' = [srv EXCEPT ![of[l]] = b]
    BY <2>1, Zenon DEF Lost
  <2>6. CASE of[x] = of[l]
    BY <1>t, <1>2, <2>4, <2>5, <2>6, Zenon
  <2>7. CASE of[x] # of[l]
    BY <1>t, <1>2, <2>4, <2>5, <2>7, Zenon
  <2>8. QED
    BY <2>6, <2>7, Zenon
<1>7. CASE LinkLost(l)
  <2>1. x # l
    BY <1>t, <1>7, Zenon DEF LinkLost, End, Move, Maintained, Running
  <2>2. QED
    BY <1>t, <1>2, <1>7, <2>1, Zenon DEF LinkLost, End
<1>8. CASE Bound(l) \/ Wake(l)
  BY <1>2, <1>8, Zenon DEF Bound, Wake
<1>9. QED
  BY <1>3, <1>4, <1>5, <1>6, <1>7, <1>8, Zenon DEF GoroutineStep, LeaseStep

(* Every goroutine keeps working for a lease of the map or of a call.      *)
LEMMA NextLeaseInv == Inv /\ [Next]_vars => LeaseInv'
<1> SUFFICES ASSUME Inv, [Next]_vars PROVE LeaseInv'
  BY Zenon
<1> DEFINE Good(x) ==
      /\ Running(x) => /\ of[x] \in Clients
                       /\ leases[of[x]] = x \/ \E k \in Calls : arg[k] = x
      /\ at[x] = "acquire" => \E k \in Calls : arg[k] = x /\ pc[k] = "wait"
      /\ Running(x) /\ stop[x] => \E k \in Calls : arg[k] = x /\ pc[k] \in {"drain", "clear"}
      /\ Maintained(x) /\ age[x] < 3 => srv[of[x]]
<1>0. SUFFICES ASSUME NEW x \in Leases PROVE Good(x)'
  BY Zenon DEF LeaseInv
<1>g. Good(x)
  BY Zenon DEF Inv, LeaseInv
<1>t. /\ leases \in [Clients -> Leases \cup {None}] /\ of \in [Leases -> Clients \cup {None}]
      /\ DOMAIN at = Leases /\ DOMAIN age = Leases /\ DOMAIN stop = Leases
      /\ DOMAIN srv = Clients /\ DOMAIN pc = Calls /\ arg \in [Calls -> Leases \cup {None}]
      /\ \A k \in Calls : arg[k] = None <=> pc[k] \in {"idle", "allocate", "release"}
      /\ \A k \in Calls : k[1] \in Clients
      /\ None \notin Leases
  BY TypeFacts, Zenon DEF Inv
<1>1. CASE UNCHANGED <<leases, of, at, age, stop, call, srv>>
  BY <1>g, <1>1, Zenon DEF call, Running, Maintained
<1>2. ASSUME NEW c \in Clients, NEW k \in Calls, RuntimeStep(c, k) PROVE Good(x)'
  <2>1. /\ UNCHANGED <<leases, of, at, age, stop, arg, srv>> /\ pc[k] = "idle"
        /\ \E p : pc' = [pc EXCEPT ![k] = p]
    BY <1>2, Zenon DEF RuntimeStep, CmdAdd, CmdCheck, CmdDel, Start, Goto, lease
  <2>2. QED
    BY <1>g, <1>t, <2>1, Zenon DEF Running, Maintained
<1>5. CASE Restart
  BY <1>5, Zenon DEF Restart, Running, Maintained
<1>6. ASSUME NEW c \in Clients, WorldStep(c) PROVE Good(x)'
  <2>1. CASE LinkGone(c)
    BY <1>1, <2>1, Zenon DEF LinkGone, lease
  <2>2. CASE Expire(c)
    <3>1. /\ UNCHANGED <<leases, lease, call>> /\ srv' = [srv EXCEPT ![c] = FALSE]
          /\ of[x] = c /\ Running(x) => age[x] = 3
      BY <2>2, Zenon DEF Expire
    <3>2. Maintained(x) /\ age[x] < 3 => of[x] # c
      BY <3>1, SMTT(30) DEF Maintained
    <3>3. QED
      BY <1>g, <1>t, <3>1, <3>2, Zenon DEF Running, Maintained, lease, call
  <2>3. QED
    BY <1>6, <2>1, <2>2, Zenon DEF WorldStep
<1>3. ASSUME NEW k \in Calls, ServeStep(k) PROVE Good(x)'
  <2>0. pc[k] # "idle"
    BY <1>3, Zenon
       DEF ServeStep, CallStep, Lookup, SetLease, NoMask, Drained, StopLease, ClearLease, Check
  <2>s. srv' = srv
    <3>1. CASE Lookup(k) \/ SetLease(k)
      BY <3>1, Zenon DEF Lookup, SetLease
    <3>2. CASE NoMask(k) \/ Drained(k)
      BY <3>2, Zenon DEF NoMask, Drained
    <3>3. CASE StopLease(k) \/ ClearLease(k)
      BY <3>3, Zenon DEF StopLease, ClearLease
    <3>4. CASE Check(k)
      BY <3>4, Zenon DEF Check
    <3>5. QED
      BY <1>3, <3>1, <3>2, <3>3, <3>4, Zenon DEF ServeStep, CallStep
  <2>1. CASE Lookup(k)
    <3>0. leases' = leases /\ pc[k] = "allocate" /\ arg[k] = None
      BY <1>t, <2>1, Zenon DEF Lookup
    <3>1. CASE /\ pc' = [pc EXCEPT ![k] = "check"] /\ UNCHANGED lease
               /\ \E l : arg' = [arg EXCEPT ![k] = l]
      BY <1>g, <1>t, <2>s, <3>0, <3>1 DEF lease, Running, Maintained
    <3>2. ASSUME NEW l \in Leases,
                 pc' = [pc EXCEPT ![k] = "wait"], arg' = [arg EXCEPT ![k] = l],
                 of' = [of EXCEPT ![l] = k[1]], at' = [at EXCEPT ![l] = "acquire"],
                 age' = [age EXCEPT ![l] = 0], stop' = [stop EXCEPT ![l] = FALSE]
          PROVE  Good(x)'
      <4>1. CASE x = l
        BY <1>t, <3>2, <4>1, Zenon DEF Running, Maintained
      <4>2. CASE x # l
        <5>1. /\ of'[x] = of[x] /\ at'[x] = at[x] /\ age'[x] = age[x] /\ stop'[x] = stop[x]
              /\ \A j \in Calls : arg[j] = x => arg'[j] = x /\ pc'[j] = pc[j]
          BY <1>t, <3>0, <3>2, <4>2, Zenon
        <5>2. QED
          BY <1>g, <2>s, <3>0, <5>1, Zenon DEF Running, Maintained
      <4>3. QED
        BY <4>1, <4>2, Zenon
    <3>3. QED
      BY <2>1, <3>1, <3>2, LookupEffect, Zenon DEF Inv
  <2>2. CASE SetLease(k) \/ ClearLease(k) \/ Drained(k)
    <3>1. /\ pc' = [pc EXCEPT ![k] = "idle"] /\ arg' = [arg EXCEPT ![k] = None]
          /\ UNCHANGED <<of, at, age, stop>>
      BY <2>0, <2>2, ReturnEffect, Zenon DEF Inv, SetLease, Drained, ClearLease, lease
    <3>2. /\ pc[k] \in {"ipnet", "drain", "clear"} /\ leases[k[1]] \in {None, arg[k]}
          /\ \/ leases' = leases /\ ~Running(arg[k])
             \/ leases' = [leases EXCEPT ![k[1]] = None] /\ ~Running(arg[k])
             \/ leases' = [leases EXCEPT ![k[1]] = arg[k]]
          /\ pc[k] = "ipnet" => leases' = [leases EXCEPT ![k[1]] = arg[k]] /\ ~stop[arg[k]]
          /\ pc[k] # "ipnet" => ~Running(arg[k])
      BY <2>2, Zenon DEF Inv, ArgInv, SetLease, Drained, ClearLease
    <3>3. of[arg[k]] = k[1] /\ arg[k] \in Leases
      BY <1>t, <3>2, SMTT(30) DEF Inv, ArgInv
    <3>4. CASE x = arg[k]
      <4>1. Running(x) => pc[k] = "ipnet" /\ leases'[of[x]] = x /\ ~stop[x]
        BY <1>t, <3>2, <3>3, <3>4, Zenon
      <4>2. at[x] # "acquire"
        <5>1. SUFFICES ASSUME at[x] = "acquire" PROVE FALSE
          BY Zenon
        <5>2. PICK j \in Calls : arg[j] = x /\ pc[j] = "wait"
          BY <1>g, <5>1, Zenon
        <5>3. QED
          BY <1>t, <2>0, <3>2, <3>3, <3>4, <5>2, OthersApart
      <4>3. QED
        BY <1>g, <2>s, <3>1, <4>1, <4>2, Zenon DEF Running, Maintained
    <3>5. CASE x # arg[k]
      <4>1. leases[of[x]] = x /\ of[x] \in Clients => leases'[of[x]] = x
        BY <1>t, <3>2, <3>5, Zenon
      <4>2. \A j \in Calls : arg[j] = x => arg'[j] = x /\ pc'[j] = pc[j]
        BY <1>t, <3>1, <3>5, Zenon
      <4>3. QED
        BY <1>g, <2>s, <3>1, <4>1, <4>2, Zenon DEF Running, Maintained
    <3>6. QED
      BY <3>4, <3>5, Zenon
  <2>3. CASE NoMask(k)
    <3>1. /\ pc[k] = "ipnet" /\ stop' = [stop EXCEPT ![arg[k]] = TRUE]
          /\ pc' = [pc EXCEPT ![k] = "drain"] /\ UNCHANGED <<leases, of, at, age, arg>>
      BY <2>3, Zenon DEF NoMask, Goto
    <3>2. QED
      BY <1>g, <1>t, <2>s, <3>1, Zenon DEF Running, Maintained
  <2>4. CASE StopLease(k) /\ leases[k[1]] = None
    <3>1. /\ pc' = [pc EXCEPT ![k] = "idle"] /\ arg' = [arg EXCEPT ![k] = None]
          /\ UNCHANGED <<leases, of, at, age, stop>> /\ arg[k] = None
      BY <1>t, <2>0, <2>4, ReturnEffect, Zenon DEF Inv, StopLease
    <3>2. QED
      BY <1>g, <1>t, <2>s, <3>1, Zenon DEF Running, Maintained
  <2>5. CASE StopLease(k) /\ leases[k[1]] # None
    <3>1. /\ pc' = [pc EXCEPT ![k] = "clear"] /\ arg' = [arg EXCEPT ![k] = leases[k[1]]]
          /\ stop' = [stop EXCEPT ![leases[k[1]]] = TRUE] /\ UNCHANGED <<leases, of, at, age>>
          /\ arg[k] = None
      BY <1>t, <2>5, Zenon DEF StopLease, Goto
    <3>2. QED
      BY <1>g, <1>t, <2>s, <3>1, Zenon DEF Running, Maintained
  <2>6. CASE Check(k)
    <3>1. /\ pc[k] = "check" /\ pc' = [pc EXCEPT ![k] = "ipnet"]
          /\ at' = [at EXCEPT ![arg[k]] = "loop"] /\ UNCHANGED <<leases, of, stop, age, arg>>
          /\ at[arg[k]] \in {"select", "sleep"}
      BY <2>6, Zenon DEF Check, Goto, Move, Selecting
    <3>2. QED
      BY <1>g, <1>t, <2>s, <3>1, Zenon DEF Running, Maintained
  <2>7. QED
    BY <1>3, <2>1, <2>2, <2>3, <2>4, <2>5, <2>6, Zenon DEF ServeStep, CallStep
<1>4. ASSUME NEW l \in Leases, GoroutineStep(l) PROVE Good(x)'
  <2>1. CASE Acquire(l)
    <3>1. PICK k \in Calls :
            /\ arg[k] = l /\ pc[k] = "wait" /\ of[l] = k[1] /\ UNCHANGED <<leases, of, stop>>
            /\ \/ /\ at' = [at EXCEPT ![l] = "loop"] /\ pc' = [pc EXCEPT ![k] = "ipnet"]
                  /\ srv' = [srv EXCEPT ![of[l]] = TRUE] /\ arg' = arg
               \/ /\ at' = [at EXCEPT ![l] = "ended"] /\ pc' = [pc EXCEPT ![k] = "idle"]
                  /\ arg' = [arg EXCEPT ![k] = None] /\ Lost(l)
      BY <2>1, AcquireEffect, Zenon
    <3>2. age' = [age EXCEPT ![l] = 0]
      BY <2>1, Zenon DEF Acquire, Commit, End
    <3>3. CASE x = l
      <4>1. CASE at' = [at EXCEPT ![l] = "ended"]
        BY <1>t, <3>3, <4>1, Zenon DEF Running, Maintained
      <4>2. CASE /\ at' = [at EXCEPT ![l] = "loop"] /\ srv' = [srv EXCEPT ![of[l]] = TRUE]
                 /\ arg' = arg
        <5>1. ~stop[l]
          BY <3>1, Zenon DEF Inv, ArgInv
        <5>2. QED
          BY <1>t, <3>1, <3>3, <4>2, <5>1, Zenon DEF Running, Maintained
      <4>3. QED
        BY <3>1, <4>1, <4>2, Zenon
    <3>4. CASE x # l
      <4>1. /\ at'[x] = at[x] /\ age'[x] = age[x]
            /\ \A j \in Calls : arg[j] = x => arg'[j] = x /\ pc'[j] = pc[j]
        BY <1>t, <3>1, <3>2, <3>4, Zenon
      <4>2. PICK b \in {srv[of[l]], TRUE} : srv' = [srv EXCEPT ![of[l]] = b]
        BY <3>1, Zenon DEF Lost
      <4>3. of[x] \in Clients /\ srv[of[x]] => srv'[of[x]]
        <5>1. CASE of[x] = of[l]
          BY <1>t, <4>2, <5>1, Zenon
        <5>2. CASE of[x] # of[l]
          BY <1>t, <4>2, <5>2, Zenon
        <5>3. QED
          BY <5>1, <5>2, Zenon
      <4>4. QED
        BY <1>g, <3>1, <4>1, <4>3, Zenon DEF Running, Maintained
    <3>5. QED
      BY <3>3, <3>4, Zenon
  <2>2. CASE ~Acquire(l)
    <3>1. /\ UNCHANGED <<leases, of, stop, pc, arg>> /\ Maintained(l)
          /\ \/ at' = at
             \/ \E p \in {"loop", "select", "sleep", "ended"} : at' = [at EXCEPT ![l] = p]
      BY <1>4, <2>2, GoroutineEffect, Zenon DEF Inv, call
    <3>2. /\ Running(x)' => Running(x)
          /\ at'[x] = "acquire" => at[x] = "acquire"
      BY <1>t, <3>1, Zenon DEF Running, Maintained
    <3>3. Maintained(x)' /\ age'[x] < 3 => srv'[of[x]]
      BY <1>4, <2>2, GoroutineKeepsBinding, Zenon
    <3>4. QED
      BY <1>g, <3>1, <3>2, <3>3, Zenon
  <2>3. QED
    BY <2>1, <2>2, Zenon
<1>7. QED
  BY <1>1, <1>2, <1>3, <1>4, <1>5, <1>6, Zenon
  DEF Next, WorldStep, RuntimeStep, ServeStep, GoroutineStep, vars, lease

-----------------------------------------------------------------------------
(* The inductive invariant: the daemon serves only the calls the runtime   *)
(* waits for, and its map, its calls and its goroutines agree on which     *)
(* lease is whose.                                                         *)
THEOREM Invariance == Spec => []Inv
<1>1. Inv /\ [Next]_vars => Inv'
  <2> SUFFICES ASSUME Inv, [Next]_vars PROVE Inv'
    BY Zenon
  <2>1. Data /\ Held /\ Flags /\ CallInv /\ LeaseInv
    BY TypeParts, Zenon DEF Inv
  <2>2. Data' /\ Held' /\ Flags'
    BY <2>1, NextData, NextHeld, NextFlags, Zenon
  <2>3. TypeOK'
    BY <2>2, Zenon DEF TypeOK, Data, Held, Flags
  <2>4. CallInv' /\ ArgInv' /\ MapInv' /\ LeaseInv'
    BY <2>1, NextCallInv, NextArgInv, NextMapInv, NextLeaseInv, Zenon
  <2>5. QED
    BY <2>3, <2>4, Zenon DEF Inv
<1>2. QED
  BY <1>1, InitInv, PTL DEF Spec

(* TypeOK: in particular a call at a step that uses a lease has one.       *)
THEOREM TypeCorrect == Spec => []TypeOK
<1>1. Inv => TypeOK
  BY Zenon DEF Inv
<1>2. QED
  BY <1>1, Invariance, PTL

(* OneLeasePerClient: Allocate never makes a second lease for a client     *)
(* that has one, though it looks the map up, acquires and enters the lease *)
(* in separate critical sections.                                          *)
THEOREM OneLease == Spec => []OneLeasePerClient
<1>1. Inv => OneLeasePerClient
  BY OneGoroutine, Zenon DEF OneLeasePerClient, Maintained
<1>2. QED
  BY <1>1, Invariance, PTL

(* AttachedNotStopped: the lease of an attached container is in the map    *)
(* and nobody has called Stop on it.                                       *)
THEOREM AttachedLeaseMaintained == Spec => []AttachedNotStopped
<1>1. Inv => AttachedNotStopped
  BY Zenon DEF Inv, MapInv, AttachedNotStopped
<1>2. QED
  BY <1>1, Invariance, PTL

(* ReleaseLeavesNothing: after cmdDel no goroutine works for the client.   *)
THEOREM ReleaseIsComplete == Spec => []ReleaseLeavesNothing
<1>1. Inv => ReleaseLeavesNothing
  <2> SUFFICES ASSUME Inv, NEW c \in Clients, rt[c] = "detached"
               PROVE  leases[c] = None /\ \A l \in Leases : of[l] = c => ~Running(l)
    BY Zenon DEF ReleaseLeavesNothing
  <2>1. leases[c] = None
    BY Zenon DEF Inv, MapInv
  <2>2. ASSUME NEW l \in Leases, of[l] = c, Running(l) PROVE FALSE
    <3>1. PICK k \in Calls : arg[k] = l
      BY <2>1, <2>2, NoneAssumption, Zenon DEF Inv, LeaseInv
    <3>2. pc[k] # "idle" /\ k[1] = c
      BY <2>2, <3>1, NoneAssumption, SMTT(30) DEF Inv, TypeOK, ArgInv
    <3>3. QED
      BY <3>2, Zenon DEF Inv, CallInv
  <2>3. QED
    BY <2>1, <2>2, Zenon
<1>2. QED
  BY <1>1, Invariance, PTL

(* ServerKeepsBinding: while a goroutine maintains the lease of an         *)
(* attached container and the lease has not expired, the server has its    *)
(* binding: no goroutine of an older lease of the client is left that      *)
(* could release it.                                                       *)
THEOREM BindingKept == Spec => []ServerKeepsBinding
<1>1. Inv => ServerKeepsBinding
  <2> SUFFICES ASSUME Inv, NEW c \in Clients, rt[c] = "attached", Running(leases[c]),
                      age[leases[c]] < 3
               PROVE  srv[c]
    BY Zenon DEF ServerKeepsBinding
  <2>1. leases[c] \in Leases /\ of[leases[c]] = c
    BY DEF Inv, MapInv, TypeOK
  <2>2. at[leases[c]] # "acquire"
    <3>1. SUFFICES ASSUME at[leases[c]] = "acquire" PROVE FALSE
      BY Zenon
    <3>2. PICK k \in Calls : arg[k] = leases[c] /\ pc[k] = "wait"
      BY <2>1, <3>1, Zenon DEF Inv, LeaseInv
    <3>3. k[1] = c
      BY <2>1, <3>2, NoneAssumption, Zenon DEF Inv, ArgInv
    <3>4. QED
      BY <3>2, <3>3, Zenon DEF Inv, CallInv
  <2>3. QED
    BY <2>1, <2>2, Zenon DEF Inv, LeaseInv, Maintained
<1>2. QED
  BY <1>1, Invariance, PTL
=============================================================================
