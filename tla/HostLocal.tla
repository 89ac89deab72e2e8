----------------------------- MODULE HostLocal -----------------------------
(***************************************************************************)
(* The host-local IPAM plugin at work: concurrent invocations of cmdAdd,   *)
(* cmdDel and cmdCheck (main.go), the allocator (allocator/allocator.go)   *)
(* and the store on disk they share (disk/backend.go, disk/lock.go).       *)
(*                                                                         *)
(* An attachment is a pair <<container, interface name>>.  The runtime     *)
(* runs one plugin process at a time for an attachment and any number for  *)
(* different attachments.  The store is a directory with one file per      *)
(* reserved address, whose content names the attachment (or, when an older *)
(* release wrote it, only the container), one last_reserved_ip file per    *)
(* range set, and a lock file under flock(2), which the kernel releases    *)
(* when the process dies.                                                  *)
(***************************************************************************)
EXTENDS Ranges, FiniteSets

CONSTANTS
  Att,          \* attachments, pairs <<container, interface name>>
  Containers,   \* container IDs: the keys an older release wrote
  IPs,          \* the addresses of the range sets
  Sets,         \* the range sets LoadIPAMConfig accepted
  Requests,     \* the sets of addresses a caller may ask for
  OldFiles,     \* the address files an older release may have left
  OldLast,      \* the last_reserved_ip files an older configuration may have left
  Free,         \* an address without a file
  Blank,        \* an address whose file has been created and not written
  Nobody,       \* holder of a lock nobody holds
  RepeatAdd,    \* whether the runtime may repeat ADD without a DEL
  DiskFaults    \* whether reading, creating, writing and removing files may fail

InSet(i, x) == SetContains(Sets[i], x)
Requestable == UNION Requests

ASSUME AttachmentsAssumption ==
  /\ \A a \in Att : a[1] \in Containers
  /\ Att \cap Containers = {}
  /\ Free \notin Att \cup Containers /\ Blank \notin Att \cup Containers
  /\ Free # Blank /\ Nobody \notin Att
  /\ RepeatAdd \in BOOLEAN /\ DiskFaults \in BOOLEAN

ASSUME OldStoreAssumption ==
  /\ \A f \in OldFiles : f \in [IPs -> {Free} \cup Containers]
  /\ \A l \in OldLast : l \in [DOMAIN Sets -> IPs \cup {NoIP}]

(* What LoadIPAMConfig guarantees of the range sets it accepts, the ranges *)
(* that start at the broadcast address, and those in which NextIP leaves   *)
(* the family of its argument, left aside.                                 *)
ASSUME RangeSetsAssumption ==
  /\ Len(Sets) \in Nat \ {0} /\ DOMAIN Sets = 1 .. Len(Sets)
  /\ \A i \in DOMAIN Sets :
       /\ Searchable(Sets[i], IPs)
       /\ \A x \in Requestable : InSet(i, x) => x \in IPs
       /\ \A j \in DOMAIN Sets, x \in IPs : InSet(i, x) /\ InSet(j, x) => i = j

VARIABLES
  files,   \* the address files: Free, Blank, an attachment or a container
  last,    \* the last_reserved_ip file of each range set
  lock,    \* who holds the file lock
  pc,      \* where the plugin process of each attachment is
  idx,     \* cmdAdd: the range set it is at
  want,    \* cmdAdd: requestedIPs
  req,     \* Get: requestedIP
  it,      \* Get: the iterator
  ip,      \* Reserve: the address
  got,     \* cmdAdd: the addresses of result.IPs
  todo,    \* calls of Release left
  state,   \* what the runtime knows of each attachment
  live,    \* the addresses the runtime was given and has not given up
  prev     \* history: the address each range set handed out last, NoIP when
           \* the record of it has been torn or could not be read

store == <<files, last>>
proc == <<idx, want, req, it, ip, got>>
vars == <<store, lock, pc, proc, todo, state, live, prev>>

NoIter == [idx |-> 1, cur |-> NoIP, start |-> NoIP]

Init ==
  /\ files \in OldFiles
  /\ last \in OldLast
  /\ lock = Nobody
  /\ pc = [a \in Att |-> "idle"]
  /\ idx = [a \in Att |-> 1]
  /\ want = [a \in Att |-> {}]
  /\ req = [a \in Att |-> NoIP]
  /\ it = [a \in Att |-> NoIter]
  /\ ip = [a \in Att |-> NoIP]
  /\ got = [a \in Att |-> {}]
  /\ todo = [a \in Att |-> 0]
  /\ state = [a \in Att |-> "detached"]
  /\ live = [a \in Att |-> {}]
  /\ prev = [i \in DOMAIN Sets |-> NoIP]

Own(a) == {x \in IPs : files[x] = a}
Legacy(a) == {x \in IPs : files[x] = a[1]}
FileSet(S, v) == files' = [x \in IPs |-> IF x \in S THEN v ELSE files[x]]
Goto(a, l) == pc' = [pc EXCEPT ![a] = l]

(* The process of a exits: its memory is gone, and its lock with it.       *)
Exit(a) ==
  /\ Goto(a, "idle")
  /\ lock' = IF lock = a THEN Nobody ELSE lock
  /\ idx' = [idx EXCEPT ![a] = 1]
  /\ want' = [want EXCEPT ![a] = {}]
  /\ req' = [req EXCEPT ![a] = NoIP]
  /\ it' = [it EXCEPT ![a] = NoIter]
  /\ ip' = [ip EXCEPT ![a] = NoIP]
  /\ got' = [got EXCEPT ![a] = {}]
  /\ todo' = [todo EXCEPT ![a] = 0]

Become(a, s) == state' = [state EXCEPT ![a] = s]

-----------------------------------------------------------------------------
(* cmdAdd, up to the loop over the range sets.  The runtime adds what is   *)
(* detached; after a failed ADD it sends DEL first.                        *)
StartAdd(a) ==
  /\ pc[a] = "idle"
  /\ state[a] = "detached" \/ (RepeatAdd /\ state[a] = "attached")
  /\ \E w \in Requests : want' = [want EXCEPT ![a] = w]
  /\ Goto(a, "get") /\ Become(a, "adding")
  /\ UNCHANGED <<store, lock, idx, req, it, ip, got, todo, live, prev>>

(* One turn of the loop of cmdAdd: pick a requested address of this range  *)
(* set, if there is one, and call Get, which takes the lock.               *)
LockGet(a) ==
  /\ pc[a] = "get" /\ lock = Nobody
  /\ lock' = a
  /\ LET here == {x \in want[a] : InSet(idx[a], x)} IN
     \/ /\ here = {}
        /\ req' = [req EXCEPT ![a] = NoIP] /\ want' = want
     \/ \E x \in here :
          /\ req' = [req EXCEPT ![a] = x]
          /\ want' = [want EXCEPT ![a] = @ \ {x}]
  /\ Goto(a, "pick")
  /\ UNCHANGED <<store, idx, it, ip, got, todo, state, live, prev>>

(* Mutant: the file is opened without O_EXCL.                              *)
CreateOverwrites(a, x, taken) ==
  ip' = [ip EXCEPT ![a] = x] /\ FileSet({x}, Blank) /\ Goto(a, "write")

(* Reserve creates the file of x with O_EXCL; an existing file makes the   *)
(* process go on at "taken".                                               *)
Create(a, x, taken) ==
  /\ ip' = [ip EXCEPT ![a] = x]
  /\ \/ files[x] = Free /\ FileSet({x}, Blank) /\ Goto(a, "write")
     \/ files[x] # Free /\ files' = files /\ Goto(a, taken)
     \/ DiskFaults /\ files' = files /\ Goto(a, "fail")

(* Mutant: a requested gateway is not refused.                             *)
GetRequestedGateway(a) ==
  /\ pc[a] = "pick" /\ req[a] # NoIP
  /\ Create(a, req[a], "fail")
  /\ UNCHANGED <<last, lock, idx, want, req, it, got, todo, state, live, prev>>

(* Get with a requested address.                                           *)
GetRequested(a) ==
  /\ pc[a] = "pick" /\ req[a] # NoIP
  /\ LET r == Sets[idx[a]][RangeFor(Sets[idx[a]], req[a])] IN
     IF req[a] = r.gateway
     THEN Goto(a, "fail") /\ UNCHANGED <<files, ip>>
     ELSE Create(a, req[a], "fail")
  /\ UNCHANGED <<last, lock, idx, want, req, it, got, todo, state, live, prev>>

(* Get without one: refuse a second allocation from this range set, then   *)
(* open the iterator.  GetByID passes over a file that cannot be read, and *)
(* GetIter starts with the first address when last_reserved_ip cannot be.  *)
GetIterator(a) ==
  LET has == \E x \in Own(a) \cup Legacy(a) : InSet(idx[a], x)
      iter(from) == it' = [it EXCEPT ![a] = GetIter(Sets[idx[a]], from)]
  IN
  /\ pc[a] = "pick" /\ req[a] = NoIP
  /\ \/ has /\ Goto(a, "fail") /\ UNCHANGED <<it, prev>>
     \/ ~has /\ Goto(a, "scan") /\ iter(last[idx[a]]) /\ UNCHANGED prev
     \/ DiskFaults /\ Goto(a, "scan") /\ iter(last[idx[a]]) /\ UNCHANGED prev
     \/ /\ DiskFaults /\ Goto(a, "scan") /\ iter(NoIP)
        /\ prev' = [prev EXCEPT ![idx[a]] = NoIP]
  /\ UNCHANGED <<store, lock, idx, want, req, ip, got, todo, state, live>>

(* One step of the iterator, and Reserve when it proposes an address.      *)
Scan(a) ==
  LET s == Sets[idx[a]] IN
  /\ pc[a] = "scan"
  /\ it' = [it EXCEPT ![a] = Advance(s, it[a])]
  /\ IF BackAtStart(s, it[a]) THEN Goto(a, "full") /\ UNCHANGED <<files, ip>>
     ELSE IF AtGateway(s, Advance(s, it[a])) THEN UNCHANGED <<files, ip, pc>>
     ELSE Create(a, Advance(s, it[a]).cur, "scan")
  /\ UNCHANGED <<last, lock, idx, want, req, got, todo, state, live, prev>>

(* Mutant: Reserve goes on after a failed write.                           *)
WriteOwnerGoesOn(a) ==
  /\ pc[a] = "write" /\ Goto(a, "last")
  /\ \/ FileSet({ip[a]}, a)
     \/ DiskFaults /\ \E v \in {Free, Blank} : FileSet({ip[a]}, v)
  /\ UNCHANGED <<last, lock, proc, todo, state, live, prev>>

(* Reserve writes the owner into the new file; when that fails it removes  *)
(* the file, if it can.                                                    *)
WriteOwner(a) ==
  /\ pc[a] = "write"
  /\ \/ FileSet({ip[a]}, a) /\ Goto(a, "last")
     \/ /\ DiskFaults /\ Goto(a, "fail")
        /\ \E v \in {Free, Blank} : FileSet({ip[a]}, v)
  /\ UNCHANGED <<last, lock, proc, todo, state, live, prev>>

(* Reserve saves last_reserved_ip, Get unlocks and cmdAdd goes on: with    *)
(* the next range set, with the failure of requests nobody fulfilled, or   *)
(* with its result.                                                        *)
SaveLast(a) ==
  /\ pc[a] = "last"
  /\ last' = [last EXCEPT ![idx[a]] = ip[a]]
  /\ prev' = [prev EXCEPT ![idx[a]] = ip[a]]
  /\ \/ /\ idx[a] < Len(Sets)
        /\ lock' = Nobody /\ Goto(a, "get")
        /\ idx' = [idx EXCEPT ![a] = @ + 1]
        /\ got' = [got EXCEPT ![a] = @ \cup {ip[a]}]
        /\ UNCHANGED <<want, req, it, ip, todo, state, live>>
     \/ /\ idx[a] = Len(Sets) /\ want[a] # {}
        /\ lock' = Nobody /\ Goto(a, "release")
        /\ todo' = [todo EXCEPT ![a] = Len(Sets)]
        /\ UNCHANGED <<proc, state, live>>
     \/ /\ idx[a] = Len(Sets) /\ want[a] = {}
        /\ live' = [live EXCEPT ![a] = @ \cup got[a] \cup {ip[a]}]
        /\ Become(a, "attached") /\ Exit(a)
  /\ files' = files

(* What a failed write leaves in last_reserved_ip: the old content or, the *)
(* file being truncated first, nothing.                                    *)
TearLast(i) ==
  \/ UNCHANGED <<last, prev>>
  \/ last' = [last EXCEPT ![i] = NoIP] /\ prev' = [prev EXCEPT ![i] = NoIP]

(* Reserve fails on last_reserved_ip and leaves the address file.          *)
SaveLastFails(a) ==
  /\ DiskFaults /\ pc[a] = "last"
  /\ TearLast(idx[a]) /\ Goto(a, "fail")
  /\ UNCHANGED <<files, lock, proc, todo, state, live>>

(* Mutant: cmdAdd does not release what it had allocated.                  *)
FailGetKeeps(a) ==
  /\ pc[a] \in {"fail", "full"}
  /\ Exit(a) /\ Become(a, "failed")
  /\ UNCHANGED <<store, live, prev>>

(* Get returns an error and unlocks; cmdAdd calls Release once for every   *)
(* allocator that succeeded before.                                        *)
FailGet(a) ==
  /\ pc[a] \in {"fail", "full"}
  /\ IF idx[a] = 1
     THEN Exit(a) /\ Become(a, "failed")
     ELSE /\ lock' = Nobody /\ Goto(a, "release")
          /\ todo' = [todo EXCEPT ![a] = idx[a] - 1]
          /\ UNCHANGED <<proc, state>>
  /\ UNCHANGED <<store, live, prev>>

-----------------------------------------------------------------------------
(* Mutant: one Release too many.                                           *)
StartDelOneMore(a) ==
  /\ pc[a] = "idle"
  /\ live' = [live EXCEPT ![a] = {}]
  /\ todo' = [todo EXCEPT ![a] = Len(Sets) + 1]
  /\ Goto(a, "release") /\ Become(a, "deleting")
  /\ UNCHANGED <<store, lock, proc, prev>>

(* cmdDel: one Release per range set.  The runtime may send DEL at any     *)
(* time, and has given up the addresses when it does.                      *)
StartDel(a) ==
  /\ pc[a] = "idle"
  /\ live' = [live EXCEPT ![a] = {}]
  /\ todo' = [todo EXCEPT ![a] = Len(Sets)]
  /\ Goto(a, "release") /\ Become(a, "deleting")
  /\ UNCHANGED <<store, lock, proc, prev>>

(* Mutant: Release does not take the lock.                                 *)
ReleaseUnlocked(a) ==
  /\ pc[a] = "release" /\ Goto(a, "walk")
  /\ UNCHANGED <<store, lock, proc, todo, state, live, prev>>

LockRelease(a) ==
  /\ pc[a] = "release" /\ lock = Nobody
  /\ lock' = a /\ Goto(a, "walk")
  /\ UNCHANGED <<store, proc, todo, state, live, prev>>

(* Mutants: every file of the container matches, whatever the interface;   *)
(* only the files an older release wrote match.                            *)
RemovedContainer(a) == {{x \in IPs : files[x] \in Att /\ files[x][1] = a[1]}}
RemovedOldKey(a) == {Legacy(a)}

(* ReleaseByID: the files of the attachment or, when the first walk        *)
(* removed none, those an older release wrote for its container.  A file   *)
(* that cannot be read or removed is passed over.                          *)
Removed(a) ==
  IF DiskFaults
  THEN {S \in SUBSET (Own(a) \cup Legacy(a)) : S \subseteq Own(a) \/ S \subseteq Legacy(a)}
  ELSE {IF Own(a) # {} THEN Own(a) ELSE Legacy(a)}

Release(a) ==
  /\ pc[a] = "walk"
  /\ \E S \in Removed(a) : FileSet(S, Free)
  /\ IF todo[a] > 1
     THEN /\ todo' = [todo EXCEPT ![a] = @ - 1]
          /\ lock' = Nobody /\ Goto(a, "release")
          /\ UNCHANGED <<proc, state>>
     ELSE /\ Exit(a)
          /\ Become(a, IF state[a] = "adding" THEN "failed" ELSE "detached")
  /\ UNCHANGED <<last, live, prev>>

(* cmdAdd or cmdDel returns before it has opened the store: its            *)
(* configuration, resolv.conf or the data directory is in error.           *)
Refuse(a) ==
  /\ pc[a] = "idle" /\ state[a] # "dirty"
  /\ Become(a, "dirty")
  /\ live' = [live EXCEPT ![a] = {}]
  /\ UNCHANGED <<store, lock, pc, proc, todo, prev>>

-----------------------------------------------------------------------------
(* cmdCheck: FindByID takes the lock and looks for a file of the           *)
(* attachment, or of its container.                                        *)
LockFind(a) ==
  /\ pc[a] = "idle" /\ lock = Nobody
  /\ lock' = a /\ Goto(a, "look")
  /\ UNCHANGED <<store, proc, todo, state, live, prev>>

(* Mutant: the interface name is left out of the key.                      *)
FoundOldKey(a) == Legacy(a) # {}

Found(a) == Own(a) # {} \/ Legacy(a) # {}

(* A file that cannot be read is passed over.                              *)
FindByID(a) ==
  /\ pc[a] = "look"
  /\ lock' = Nobody
  /\ \/ Found(a) /\ Goto(a, "idle")
     \/ (~Found(a) \/ DiskFaults) /\ Goto(a, "lost")
  /\ UNCHANGED <<store, proc, todo, state, live, prev>>

(* cmdCheck reports that it found no address.                              *)
CheckFails(a) ==
  /\ pc[a] = "lost" /\ Goto(a, "idle")
  /\ UNCHANGED <<store, lock, proc, todo, state, live, prev>>

-----------------------------------------------------------------------------
(* The process is killed: a walk may have removed some of its files and a  *)
(* write of last_reserved_ip may be torn.  A CHECK has nothing to lose.    *)
Crash(a) ==
  /\ pc[a] # "idle"
  /\ IF pc[a] = "walk"
     THEN \E S \in Removed(a) : \E T \in SUBSET S : FileSet(T, Free)
     ELSE files' = files
  /\ IF pc[a] = "last" THEN TearLast(idx[a]) ELSE UNCHANGED <<last, prev>>
  /\ state' = IF pc[a] \in {"look", "lost"} THEN state
              ELSE [state EXCEPT ![a] = "dirty"]
  /\ Exit(a)
  /\ UNCHANGED live

Step(a) ==
  \/ LockGet(a) \/ GetRequested(a) \/ GetIterator(a) \/ Scan(a)
  \/ WriteOwner(a) \/ SaveLast(a) \/ SaveLastFails(a) \/ FailGet(a)
  \/ LockRelease(a) \/ Release(a) \/ FindByID(a) \/ CheckFails(a)

Next ==
  \E a \in Att :
    \/ StartAdd(a) \/ StartDel(a) \/ Refuse(a) \/ LockFind(a)
    \/ Step(a) \/ Crash(a)

Spec == Init /\ [][Next]_vars

(* A running process goes on, and flock(2) does not pass over a waiter for *)
(* ever.                                                                   *)
FairSpec ==
  /\ Spec
  /\ \A a \in Att : WF_vars(Step(a)) /\ SF_vars(LockGet(a)) /\ SF_vars(LockRelease(a))

-----------------------------------------------------------------------------
Labels == {"idle", "get", "pick", "scan", "write", "last", "fail", "full",
           "release", "walk", "look", "lost"}
States == {"detached", "adding", "attached", "failed", "deleting", "dirty"}

(* Types; todo in particular: cmdDel and the rollback of cmdAdd never call  *)
(* Release more often than there are allocators.                           *)
TypeOK ==
  /\ files \in [IPs -> {Free, Blank} \cup Att \cup Containers]
  /\ last \in [DOMAIN Sets -> IPs \cup {NoIP}]
  /\ lock \in Att \cup {Nobody}
  /\ pc \in [Att -> Labels]
  /\ idx \in [Att -> DOMAIN Sets]
  /\ want \in [Att -> SUBSET Requestable]
  /\ req \in [Att -> Requestable \cup {NoIP}]
  /\ it \in [Att -> [idx : Nat, cur : IPs \cup {NoIP}, start : IPs \cup {NoIP}]]
  /\ ip \in [Att -> IPs \cup {NoIP}]
  /\ got \in [Att -> SUBSET IPs]
  /\ todo \in [Att -> 0 .. Len(Sets)]
  /\ state \in [Att -> States]
  /\ live \in [Att -> SUBSET IPs]
  /\ prev \in [DOMAIN Sets -> IPs \cup {NoIP}]

(* The addresses Get may hand out: those of the range set that are not the *)
(* gateway of their range.                                                 *)
Allocatable(i) ==
  {x \in IPs : InSet(i, x) /\ x # Sets[i][RangeFor(Sets[i], x)].gateway}

(* An address the runtime was given, and has not given up, keeps its file: *)
(* no crash, failure or rollback of any other process, and no failed or    *)
(* refused call of its own, takes the reservation away.                    *)
LiveReserved == \A a \in Att : live[a] \subseteq Own(a)

(* No address is in use by two attachments.                                *)
AddressesDisjoint == \A a, b \in Att : a # b => live[a] \cap live[b] = {}

(* A result of cmdAdd holds one address of every range set, and none of    *)
(* them is a gateway, whichever way (requested or found) it was obtained.  *)
AddCoversEverySet ==
  \A a \in Att : live[a] # {} =>
    \A i \in DOMAIN Sets : \E x \in Allocatable(i) : live[a] \cap {y \in IPs : InSet(i, y)} = {x}

(* Get reports "no IP addresses available in range set" only when every    *)
(* address it may hand out has a file at that very moment.                 *)
NoFalseExhaustion ==
  \A a \in Att : pc[a] = "full" => \A x \in Allocatable(idx[a]) : files[x] # Free

(* The addresses of range set i between x and y, going round.              *)
Passed(i, x, y) ==
  LET s == Sets[i] IN
  {z \in Allocatable(i) : IF Before(s, x, y) THEN Before(s, x, z) /\ Before(s, z, y)
                          ELSE Before(s, x, z) \/ Before(s, z, y)}

(* The strategy GetIter announces: a search takes the first free address   *)
(* after the one its range set handed out last, so a container that comes  *)
(* and goes sees an address again only when all the others are taken.      *)
RoundRobin ==
  \A a \in Att :
    pc[a] = "write" /\ req[a] = NoIP /\ prev[idx[a]] # NoIP =>
      \A z \in Passed(idx[a], prev[idx[a]], ip[a]) : files[z] # Free

(* cmdCheck finds the address of an attachment that has one, when the      *)
(* files can be read.                                                      *)
CheckFindsLive == \A a \in Att : pc[a] = "lost" => live[a] = {}

(* A file that names an attachment is removed by that attachment's own     *)
(* process only, while it is releasing.                                    *)
OnlyOwnerReleases ==
  [][\A x \in IPs, a \in Att :
       files[x] = a /\ files'[x] # a => pc[a] = "walk" /\ files'[x] = Free]_vars

(* When DEL has returned, nothing is reserved for the attachment, whatever *)
(* crashed or failed before.                                               *)
DelReleasesAll ==
  \A a \in Att : pc[a] = "idle" /\ state[a] = "detached" => Own(a) = {}

(* An ADD that failed by itself has released all it had allocated.         *)
FailedAddLeavesNothing == \A a \in Att : state[a] = "failed" => Own(a) = {}

(* Nobody waits for ever: every call returns or dies.                      *)
CallsEnd == \A a \in Att : pc[a] # "idle" ~> pc[a] = "idle"

(* The comment of Get: "duplicate allocation is not allowed in SPEC", so   *)
(* an attachment holds at most one address of a range set.                 *)
NoDuplicateAllocation ==
  \A a \in Att, x, y \in IPs, i \in DOMAIN Sets :
    files[x] = a /\ files[y] = a /\ InSet(i, x) /\ InSet(i, y) => x = y

(* What the interface plugins see of the store: an address is reserved for *)
(* the attachment its file names.                                          *)
Contract == INSTANCE IPAM WITH held <- [a \in Att |-> Own(a)]

(* host-local keeps the contract of an IPAM plugin: a file appears for an  *)
(* address nobody holds, disappears only from an attachment without        *)
(* addresses in use, and results are made of reserved addresses.           *)
KeepsContract == Contract!Spec
=============================================================================
