------------------------------ MODULE MCEngine ------------------------------
(***************************************************************************)
(* Workflows on which TLC checks Engine.                                   *)
(***************************************************************************)
EXTENDS Engine, TLC

CONSTANTS r1, r2, r3, r4, r5

Activity(policy) == [op |-> "activity", policy |-> policy, detached |-> FALSE]
Detached(policy) == [op |-> "activity", policy |-> policy, detached |-> TRUE]
Select(sources) == [op |-> "select", sources |-> sources]
Child(r) == [op |-> "child", run |-> r]
Continue(r) == [op |-> "continue", run |-> r]
Timer == [op |-> "timer"]
OfTask(i) == [kind |-> "activity", task |-> i]
OfChild(r) == [kind |-> "child", run |-> r]
OfSignal == [kind |-> "signal"]
OfTimer == [kind |-> "timer"]

(* One run with an unsafe and a safe activity in flight together.  It may  *)
(* continue before both are done, which is refused, and the run that       *)
(* follows returns before its activity is done.                            *)
EffectsProgram ==
    r1 :> <<Detached("Unknown"), Detached("Read"), Select(<<OfTask(1)>>), Continue(r2)>>
 @@ r2 :> <<Detached("Read")>>

(* A parent waits for a timer or for a child; the child continues as a     *)
(* new run twice, once more than latest_run follows here, and the last run *)
(* of the chain is a parent itself.  A client may have started a run under *)
(* the id that its child would get.                                        *)
TreeProgram ==
    r1 :> <<Child(r2), Select(<<OfTimer, OfChild(r2)>>)>>
 @@ r2 :> <<Activity("Reconcile"), Continue(r3)>>
 @@ r3 :> <<Continue(r4)>>
 @@ r4 :> <<Child(r5), Select(<<OfChild(r5)>>)>>
 @@ r5 :> <<>>

(* A parent and its child compete for one slot; the parent's last command  *)
(* does not fit its history.                                               *)
LiveProgram ==
    r1 :> <<Child(r2), Activity("Read"), Select(<<OfSignal, OfChild(r2)>>), Timer>>
 @@ r2 :> <<Activity("Reconcile")>>

============================================================================
