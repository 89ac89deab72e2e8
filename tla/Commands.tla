------------------------------ MODULE Commands ------------------------------
(***************************************************************************)
(* How the commands of a plugin run.  A command is the sequence of its     *)
(* steps.  A step comes with the steps that run when it fails: the         *)
(* deferred functions that see its error, last one first.  A deferred      *)
(* function sees an error only if it was registered before and tests the   *)
(* variable the error was assigned to.  PrintResult, the last call of      *)
(* cmdAdd, fails when the runtime is gone, which is a Crash here.          *)
(***************************************************************************)
EXTENDS Naturals, Sequences

CONSTANTS
  Att,     \* attachments
  NoAtt    \* no attachment

VARIABLES
  conf,     \* the configuration of each attachment
  rt,       \* what the runtime knows of it, or what is running for it
  rest,     \* the steps left to the running command
  ns        \* whether the network namespace of the container exists

Idle == {"detached", "attached", "failed", "dirty"}

(* What the runtime knows when the last step has been done.                *)
Final == [adding |-> "attached", undoing |-> "failed", botched |-> "dirty",
          deleting |-> "detached", reverting |-> "dirty"]

Step(step, arg, undo) == [do |-> step, arg |-> arg, undo |-> undo]
Do(step, undo) == Step(step, <<>>, undo)

When(cond, steps) == IF cond THEN steps ELSE <<>>

At(a, step) == rest[a] # <<>> /\ Head(rest[a]).do = step
Arg(a) == Head(rest[a]).arg

GoOn(a, steps) ==
  /\ rest' = [rest EXCEPT ![a] = steps]
  /\ rt' = [rt EXCEPT ![a] = IF steps = <<>> THEN Final[@] ELSE @]

Succeed(a) == GoOn(a, Tail(rest[a]))

(* What the step found makes the command do these steps next.              *)
Push(a, steps) == GoOn(a, steps \o Tail(rest[a]))

(* Mutants: the error is not looked at; it is reported, but the command    *)
(* goes on.                                                                *)
FailIgnored(a) == Succeed(a)
FailGoesOn(a) ==
  rest' = [rest EXCEPT ![a] = Tail(@)] /\ rt' = [rt EXCEPT ![a] = "failed"]

(* The command returns an error and its deferred functions run, all of     *)
(* them whether they fail or not.                                          *)
Fail(a) ==
  LET undo == Head(rest[a]).undo IN
  \/ /\ rt[a] = "adding"
     /\ rest' = [rest EXCEPT ![a] = undo]
     /\ rt' = [rt EXCEPT ![a] = IF undo = <<>> THEN "failed" ELSE "undoing"]
  \/ /\ rt[a] \in {"undoing", "botched"}
     /\ rest' = [rest EXCEPT ![a] = Tail(@)]
     /\ rt' = [rt EXCEPT ![a] = IF Len(rest[a]) = 1 THEN "dirty" ELSE "botched"]
  \/ /\ rt[a] = "deleting"
     /\ rest' = [rest EXCEPT ![a] = undo]
     /\ rt' = [rt EXCEPT ![a] = IF undo = <<>> THEN "dirty" ELSE "reverting"]
  \/ /\ rt[a] = "reverting"
     /\ rest' = [rest EXCEPT ![a] = Tail(@)]
     /\ rt' = [rt EXCEPT ![a] = IF Len(rest[a]) = 1 THEN "dirty" ELSE @]

(* The plugin process is killed.                                           *)
Die(a) ==
  /\ rest[a] # <<>>
  /\ rest' = [rest EXCEPT ![a] = <<>>] /\ rt' = [rt EXCEPT ![a] = "dirty"]
=============================================================================
