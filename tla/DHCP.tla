-------------------------------- MODULE DHCP --------------------------------
(***************************************************************************)
(* The dhcp IPAM daemon (daemon.go) and the leases it maintains (lease.go).*)
(*                                                                         *)
(* cmdAdd and cmdCheck call Allocate, cmdDel calls Release, each served by *)
(* a goroutine of the daemon.  Every lease has a goroutine of its own that *)
(* acquires it and then renews it until it is stopped, its link is gone or *)
(* it expires.  The DHCP server keeps one binding per client identifier    *)
(* and any message may be lost.  Time is the age of a lease: 0 until its   *)
(* renewal time, 1 until its rebinding time, 2 until it expires, then 3.   *)
(***************************************************************************)
EXTENDS Naturals, FiniteSets

CONSTANTS
  Clients,   \* client identifiers, one per attachment
  Slots,     \* a daemon serves Cardinality(Slots) calls of a client at once;
             \* more than one when the runtime gives up on a plugin process
  Leases,    \* lease objects, collected when nothing refers to them
  None       \* Go's nil

ASSUME NoneAssumption == None \notin Leases \cup Slots

VARIABLES
  leases,   \* DHCP.leases: client -> lease
  of,       \* clientID of a lease
  at,       \* its goroutine: "none", "acquire", "loop", "select", "sleep", "ended"
  mode,     \* the state of maintain
  age,      \* where time is between the commit of the lease and its expiry
  stop,     \* whether its stop channel is closed and its context cancelled
  pc,       \* where each call is
  arg,      \* the lease each call works on
  rt,       \* what the runtime is doing to, or knows of, each attachment
  cur,      \* the call the runtime is waiting for
  link,     \* the interface of each attachment: "up", "down", "gone"
  srv       \* whether the server has a binding for the client

lease == <<of, at, mode, age, stop>>
call == <<pc, arg>>
vars == <<leases, lease, call, rt, cur, link, srv>>

Calls == Clients \X Slots
Operations == {"ADD", "CHECK", "DEL"}

Init ==
  /\ leases = [c \in Clients |-> None]
  /\ of = [l \in Leases |-> None]
  /\ at = [l \in Leases |-> "none"]
  /\ mode = [l \in Leases |-> "bound"]
  /\ age = [l \in Leases |-> 0]
  /\ stop = [l \in Leases |-> FALSE]
  /\ pc = [k \in Calls |-> "idle"]
  /\ arg = [k \in Calls |-> None]
  /\ rt = [c \in Clients |-> "detached"]
  /\ cur = [c \in Clients |-> None]
  /\ link = [c \in Clients |-> "gone"]
  /\ srv = [c \in Clients |-> FALSE]

Running(l) == at[l] \notin {"none", "ended"}
Maintained(l) == Running(l) /\ at[l] # "acquire"
Selecting(l) == at[l] \in {"select", "sleep"}
Goto(k, p) == pc' = [pc EXCEPT ![k] = p]
Move(l, p) == at' = [at EXCEPT ![l] = p]

(* The goroutine returns; what it knew of time does not matter any more.   *)
End(l) ==
  /\ Move(l, "ended")
  /\ mode' = [mode EXCEPT ![l] = "bound"] /\ age' = [age EXCEPT ![l] = 0]

(* Nothing refers to the lease any more, and its goroutine is gone.        *)
Garbage(l) ==
  /\ ~Running(l)
  /\ \A c \in Clients : leases[c] # l
  /\ \A k \in Calls : arg[k] # l

-----------------------------------------------------------------------------
(* The runtime starts an operation on c with the call k; the interface     *)
(* plugin has created the link before ADD.                                 *)
Start(c, k, from, op, p) ==
  /\ rt[c] \in from /\ k[1] = c /\ pc[k] = "idle"
  /\ rt' = [rt EXCEPT ![c] = op] /\ cur' = [cur EXCEPT ![c] = k[2]]
  /\ Goto(k, p)
  /\ UNCHANGED <<leases, lease, arg, srv>>

(* rpcCall("DHCP.Allocate") of cmdAdd and cmdCheck.                        *)
CmdAdd(c, k) ==
  Start(c, k, {"detached"}, "ADD", "allocate") /\ link' = [link EXCEPT ![c] = "up"]
CmdCheck(c, k) ==
  Start(c, k, {"attached", "orphan"}, "CHECK", "allocate") /\ UNCHANGED link

(* rpcCall("DHCP.Release") of cmdDel.                                      *)
CmdDel(c, k) ==
  /\ Start(c, k, {"detached", "attached", "orphan", "dirty"}, "DEL", "release")
  /\ UNCHANGED link

(* The runtime kills a plugin that takes too long; the daemon goes on with *)
(* the call.                                                               *)
Abandon(c) ==
  /\ rt[c] \in Operations /\ \E k \in Calls : k[1] = c /\ pc[k] = "idle"
  /\ rt' = [rt EXCEPT ![c] = "dirty"] /\ cur' = [cur EXCEPT ![c] = None]
  /\ UNCHANGED <<leases, lease, call, link, srv>>

(* What a failed operation leaves: a container that was attached can be    *)
(* checked again, one that failed to be added or deleted is to be deleted. *)
Failed(c) == IF rt[c] = "CHECK" THEN "orphan" ELSE "dirty"

(* Call k returns, and the runtime learns r if it is still waiting.        *)
Return(k, r) ==
  /\ Goto(k, "idle") /\ arg' = [arg EXCEPT ![k] = None]
  /\ IF cur[k[1]] = k[2]
     THEN rt' = [rt EXCEPT ![k[1]] = r] /\ cur' = [cur EXCEPT ![k[1]] = None]
     ELSE UNCHANGED <<rt, cur>>

-----------------------------------------------------------------------------
(* Allocate looks the client up: Check the lease it has, or AcquireLease.  *)
Lookup(k) ==
  LET c == k[1]  l == IF leases[c] # None THEN leases[c] ELSE CHOOSE x \in Leases : Garbage(x) IN
  /\ pc[k] = "allocate"
  /\ leases[c] # None \/ \E x \in Leases : Garbage(x)
  /\ arg' = [arg EXCEPT ![k] = l]
  /\ IF leases[c] # None
     THEN Goto(k, "check") /\ UNCHANGED lease
     ELSE /\ Goto(k, "wait")
          /\ of' = [of EXCEPT ![l] = c] /\ Move(l, "acquire")
          /\ mode' = [mode EXCEPT ![l] = "bound"] /\ age' = [age EXCEPT ![l] = 0]
          /\ stop' = [stop EXCEPT ![l] = FALSE]
  /\ UNCHANGED <<leases, rt, cur, link, srv>>

(* Mutant: the lease is not entered into the map.                          *)
SetLeaseForgets(k) ==
  /\ pc[k] = "ipnet"
  /\ Return(k, "attached")
  /\ UNCHANGED <<leases, lease, link, srv>>

(* IPNet succeeds, and setLease.                                           *)
SetLease(k) ==
  /\ pc[k] = "ipnet"
  /\ leases' = [leases EXCEPT ![k[1]] = arg[k]]
  /\ Return(k, "attached")
  /\ UNCHANGED <<lease, link, srv>>

(* Mutant: Allocate hands out the lease it has stopped.                    *)
NoMaskGoesOn(k) ==
  /\ pc[k] = "ipnet"
  /\ stop' = [stop EXCEPT ![arg[k]] = TRUE]
  /\ leases' = [leases EXCEPT ![k[1]] = arg[k]]
  /\ Return(k, "attached")
  /\ UNCHANGED <<of, at, mode, age, link, srv>>

(* The ACK has no subnet mask: Allocate stops the lease and fails.         *)
NoMask(k) ==
  /\ pc[k] = "ipnet"
  /\ stop' = [stop EXCEPT ![arg[k]] = TRUE]
  /\ Goto(k, "drain")
  /\ UNCHANGED <<leases, of, at, mode, age, arg, rt, cur, link, srv>>

(* Mutant: the failed call keeps its lease.                                *)
DrainedKeepsLease(k) ==
  /\ pc[k] = "drain" /\ ~Running(arg[k])
  /\ Goto(k, "idle") /\ rt' = [rt EXCEPT ![k[1]] = "dirty"]
  /\ cur' = [cur EXCEPT ![k[1]] = None]
  /\ UNCHANGED <<leases, lease, arg, link, srv>>

(* Stop returns when the goroutine of the lease has.                       *)
Drained(k) ==
  /\ pc[k] = "drain" /\ ~Running(arg[k])
  /\ Return(k, Failed(k[1]))
  /\ UNCHANGED <<leases, lease, link, srv>>

(* Mutant: Stop cancels the context but does not close the channel.        *)
StopLeaseCancels(k) ==
  LET l == leases[k[1]] IN
  /\ pc[k] = "release"
  /\ IF l = None
     THEN Return(k, "detached")
     ELSE arg' = [arg EXCEPT ![k] = l] /\ Goto(k, "clear") /\ UNCHANGED <<rt, cur>>
  /\ UNCHANGED <<leases, lease, link, srv>>

(* Release looks the client up and stops its lease.                        *)
StopLease(k) ==
  LET l == leases[k[1]] IN
  /\ pc[k] = "release"
  /\ IF l = None
     THEN Return(k, "detached") /\ UNCHANGED stop
     ELSE /\ stop' = [stop EXCEPT ![l] = TRUE]
          /\ arg' = [arg EXCEPT ![k] = l] /\ Goto(k, "clear")
          /\ UNCHANGED <<rt, cur>>
  /\ UNCHANGED <<leases, of, at, mode, age, link, srv>>

(* Mutant: Stop does not wait for the goroutine.                           *)
ClearLeaseAtOnce(k) ==
  /\ pc[k] = "clear"
  /\ leases' = [leases EXCEPT ![k[1]] = None]
  /\ Return(k, "detached")
  /\ UNCHANGED <<lease, link, srv>>

(* Stop has returned; clearLease.                                          *)
ClearLease(k) ==
  /\ pc[k] = "clear" /\ ~Running(arg[k])
  /\ leases' = [leases EXCEPT ![k[1]] = None]
  /\ Return(k, "detached")
  /\ UNCHANGED <<lease, link, srv>>

-----------------------------------------------------------------------------
(* The server binds the client, and l is committed.                        *)
Commit(l) ==
  /\ mode' = [mode EXCEPT ![l] = "bound"] /\ age' = [age EXCEPT ![l] = 0]
  /\ srv' = [srv EXCEPT ![of[l]] = TRUE]

(* The exchange fails: the server may have bound the client all the same.  *)
Lost(l) == \E b \in {srv[of[l]], TRUE} : srv' = [srv EXCEPT ![of[l]] = b]

(* acquire, on the first attempt: AcquireLease returns to its caller.      *)
Acquire(l) ==
  /\ at[l] = "acquire"
  /\ \E k \in Calls :
       /\ arg[k] = l /\ pc[k] = "wait"
       /\ \/ /\ link[of[l]] # "gone" /\ Commit(l) /\ Move(l, "loop")
             /\ link' = [link EXCEPT ![of[l]] = "up"] /\ Goto(k, "ipnet")
             /\ UNCHANGED <<arg, rt, cur>>
          \/ /\ Lost(l) /\ End(l) /\ Return(k, Failed(k[1]))
             /\ UNCHANGED link
  /\ UNCHANGED <<leases, of, stop>>

(* maintain: the link is gone, or cannot be looked up for too long.        *)
LinkLost(l) ==
  /\ at[l] = "loop" /\ End(l)
  /\ UNCHANGED <<leases, of, stop, call, rt, cur, link, srv>>

(* checkLinkExistsWithBackoff finds the link.                              *)
LinkExists(l) == at[l] = "loop" /\ link[of[l]] # "gone"

(* maintain: the lease is bound, and its renewal time has come or not.     *)
Bound(l) ==
  /\ LinkExists(l) /\ mode[l] = "bound"
  /\ IF age[l] > 0 THEN mode' = [mode EXCEPT ![l] = "renewing"] /\ at' = at
                   ELSE Move(l, "sleep") /\ mode' = mode
  /\ UNCHANGED <<leases, of, age, stop, call, rt, cur, link, srv>>

(* maintain: renew, or acquire when rebinding.                             *)
Renew(l) ==
  /\ LinkExists(l) /\ mode[l] # "bound"
  /\ Commit(l) /\ Move(l, "select")
  /\ link' = IF mode[l] = "rebinding" THEN [link EXCEPT ![of[l]] = "up"] ELSE link
  /\ UNCHANGED <<leases, of, stop, call, rt, cur>>

(* Mutant: the rebinding time is never looked at.                          *)
RenewFailsForEver(l) ==
  /\ LinkExists(l) /\ mode[l] = "renewing"
  /\ Lost(l) /\ Move(l, "select")
  /\ UNCHANGED <<leases, of, mode, age, stop, call, rt, cur, link>>

RenewFails(l) ==
  /\ LinkExists(l) /\ mode[l] = "renewing"
  /\ mode' = [mode EXCEPT ![l] = IF age[l] >= 2 THEN "rebinding" ELSE @]
  /\ Lost(l) /\ Move(l, "select")
  /\ UNCHANGED <<leases, of, age, stop, call, rt, cur, link>>

(* An expired lease takes its interface down, if it can.                   *)
RebindFails(l) ==
  /\ LinkExists(l) /\ mode[l] = "rebinding"
  /\ IF age[l] = 3
     THEN End(l) /\ \E s \in {"down", link[of[l]]} : link' = [link EXCEPT ![of[l]] = s]
     ELSE Move(l, "select") /\ UNCHANGED <<mode, age, link>>
  /\ Lost(l)
  /\ UNCHANGED <<leases, of, stop, call, rt, cur>>

(* The select of maintain: its timer, a caller of Check, or Stop.  Go      *)
(* picks any of those that are ready.                                      *)
Wake(l) ==
  /\ at[l] = "select" \/ (at[l] = "sleep" /\ age[l] > 0)
  /\ Move(l, "loop")
  /\ UNCHANGED <<leases, of, mode, age, stop, call, rt, cur, link, srv>>

Check(k) ==
  /\ pc[k] = "check" /\ Selecting(arg[k])
  /\ Move(arg[k], "loop") /\ Goto(k, "ipnet")
  /\ UNCHANGED <<leases, of, mode, age, stop, arg, rt, cur, link, srv>>

(* release: a DHCPRELEASE is sent once and may be lost.                    *)
Release(l) ==
  /\ Selecting(l) /\ stop[l] /\ End(l)
  /\ \/ link[of[l]] # "gone" /\ srv' = [srv EXCEPT ![of[l]] = FALSE]
     \/ srv' = srv
  /\ UNCHANGED <<leases, of, stop, call, rt, cur, link>>

-----------------------------------------------------------------------------
(* Time passes.                                                            *)
Tick(l) ==
  /\ Maintained(l) /\ age[l] < 3
  /\ age' = [age EXCEPT ![l] = @ + 1]
  /\ UNCHANGED <<leases, of, at, mode, stop, call, rt, cur, link, srv>>

(* The server forgets a client whose leases have all expired.              *)
Expire(c) ==
  /\ srv[c] /\ \A l \in Leases : of[l] = c /\ Running(l) => age[l] = 3
  /\ srv' = [srv EXCEPT ![c] = FALSE]
  /\ UNCHANGED <<leases, lease, call, rt, cur, link>>

(* The container dies and its interface with it.                           *)
LinkGone(c) ==
  /\ link[c] # "gone" /\ link' = [link EXCEPT ![c] = "gone"]
  /\ UNCHANGED <<leases, lease, call, rt, cur, srv>>

(* The daemon stops and is started again: it keeps nothing.                *)
Restart ==
  /\ leases' = [c \in Clients |-> None]
  /\ at' = [l \in Leases |-> "none"] /\ of' = [l \in Leases |-> None]
  /\ mode' = [l \in Leases |-> "bound"] /\ age' = [l \in Leases |-> 0]
  /\ stop' = [l \in Leases |-> FALSE]
  /\ pc' = [k \in Calls |-> "idle"] /\ arg' = [k \in Calls |-> None]
  /\ rt' = [c \in Clients |-> CASE rt[c] = "attached" -> "orphan"
                                [] rt[c] \in Operations -> Failed(c)
                                [] OTHER -> rt[c]]
  /\ cur' = [c \in Clients |-> None]
  /\ UNCHANGED <<link, srv>>

CallStep(k) ==
  Lookup(k) \/ SetLease(k) \/ NoMask(k) \/ Drained(k) \/ StopLease(k) \/ ClearLease(k)

LeaseStep(l) ==
  \/ Acquire(l) \/ LinkLost(l) \/ Bound(l) \/ Renew(l) \/ RenewFails(l) \/ RebindFails(l)
  \/ Wake(l)

Next ==
  \/ \E c \in Clients : Expire(c) \/ LinkGone(c)
  \/ \E c \in Clients, k \in Calls : CmdAdd(c, k) \/ CmdCheck(c, k) \/ CmdDel(c, k)
  \/ \E k \in Calls : CallStep(k) \/ Check(k)
  \/ \E l \in Leases : LeaseStep(l) \/ Release(l) \/ Tick(l)
  \/ Restart

Spec == Init /\ [][Next]_vars

(* A runtime that does not wait for its calls to return.                   *)
HastySpec == Init /\ [][Next \/ \E c \in Clients : Abandon(c)]_vars

(* Goroutines go on and time passes; select does not pass over a ready     *)
(* case for ever, since it picks at random.                                *)
FairSpec ==
  /\ Spec
  /\ \A k \in Calls : WF_vars(CallStep(k)) /\ SF_vars(Check(k))
  /\ \A l \in Leases : WF_vars(LeaseStep(l)) /\ SF_vars(Release(l)) /\ WF_vars(Tick(l))

-----------------------------------------------------------------------------
(* Types; arg in particular: a call at a step that uses a lease has one.   *)
TypeOK ==
  /\ leases \in [Clients -> Leases \cup {None}]
  /\ of \in [Leases -> Clients \cup {None}]
  /\ at \in [Leases -> {"none", "acquire", "loop", "select", "sleep", "ended"}]
  /\ mode \in [Leases -> {"bound", "renewing", "rebinding"}]
  /\ age \in [Leases -> 0 .. 3]
  /\ stop \in [Leases -> BOOLEAN]
  /\ pc \in [Calls -> {"idle", "allocate", "check", "wait", "ipnet", "drain", "release", "clear"}]
  /\ arg \in [Calls -> Leases \cup {None}]
  /\ \A k \in Calls : arg[k] = None <=> pc[k] \in {"idle", "allocate", "release"}
  /\ rt \in [Clients -> Operations \cup {"detached", "attached", "dirty", "orphan"}]
  /\ cur \in [Clients -> Slots \cup {None}]
  /\ link \in [Clients -> {"up", "down", "gone"}]
  /\ srv \in [Clients -> BOOLEAN]

(* The comment of Allocate: "If we already have an active lease for this   *)
(* clientID, do not create another one".  No client has two leases that    *)
(* goroutines maintain.                                                    *)
OneLeasePerClient ==
  \A l, m \in Leases : Maintained(l) /\ Maintained(m) /\ of[l] = of[m] => l = m

(* "The acquired lease will be maintained until Release() is called": the  *)
(* lease of an attached container is in the map and nobody has stopped it. *)
AttachedNotStopped ==
  \A c \in Clients : rt[c] = "attached" => leases[c] # None /\ ~stop[leases[c]]

(* The server has not been told to release an address that a container     *)
(* uses and whose lease has not expired.                                   *)
ServerKeepsBinding ==
  \A c \in Clients :
    rt[c] = "attached" /\ Running(leases[c]) /\ age[leases[c]] < 3 => srv[c]

(* When DEL has returned, no goroutine works for the client any more: the  *)
(* next ADD starts from nothing.                                           *)
ReleaseLeavesNothing ==
  \A c \in Clients : rt[c] = "detached" =>
    leases[c] = None /\ \A l \in Leases : of[l] = c => ~Running(l)

(* An expired lease is renewed or given up: maintain cannot go on for ever *)
(* without the server.                                                     *)
ExpiredEnds == \A l \in Leases : age[l] = 3 /\ Running(l) ~> age[l] = 0 \/ ~Running(l)

(* Every call of the daemon returns.                                       *)
CallsEnd == \A k \in Calls : pc[k] # "idle" ~> pc[k] = "idle"

(* Every call returns, except one that waits in Check for a goroutine that *)
(* has ended: neither Stop nor AcquireLease blocks for ever.               *)
CallsEndOrLeaseEnded ==
  \A k \in Calls :
    pc[k] # "idle" ~> pc[k] = "idle" \/ (pc[k] = "check" /\ ~Running(arg[k]))
=============================================================================
