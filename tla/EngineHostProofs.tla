-------------------------- MODULE EngineHostProofs --------------------------
(***************************************************************************)
(* Proofs about module Engine under the daemon, whose host thread drives   *)
(* the engine.  They rest on the inductive invariant IInv and the step     *)
(* relation Good of EngineProofs.                                          *)
(***************************************************************************)
EXTENDS EngineProofs

----------------------------------------------------------------------------
(* The daemon's host thread.  It drives only scheduled runs, prepares an   *)
(* attempt as soon as it is dispatched, and reports each result once.      *)

(* The runs that the walk of a cancellation visits from this record. *)
LinksOf(rec) == {rec.children[i] : i \in DOMAIN rec.children} \cup ({rec.next} \ {None})

LinksExist == \A r \in Runs : \A c \in LinksOf(run[r]) : c \in Runs /\ run[c].state # "Absent"

(* An unknown outcome that nobody has looked into is that of an uncertain  *)
(* task, unless the run has used up its retries.                           *)
DoubtInv ==
    \A r \in Runs : run[r].state = "OutcomeUnknown" =>
      \/ run[r].reason = "RetryExhausted"
      \/ run[r].audit > 0
      \/ \E e \in TasksOf(r) : task[e].state = "Uncertain"

(* Nothing happens to the run between the dispatch and the preparation. *)
Prepared ==
    phase = "prepare" => /\ driven \in Effects
                         /\ task[driven].state = "InFlight"
                         /\ run[driven[1]].state = "Running"

(* The attempt of an executing handler is not one that waits to start. *)
Started ==
    \A d \in threads : /\ d[2] <= task[d[1]].attempt
                       /\ d[2] = task[d[1]].attempt => task[d[1]].state # "InFlight"

Slots ==
    /\ phase # "prepare" => dispatched = threads
    /\ phase = "prepare" => dispatched = threads \cup {<<driven, task[driven].attempt>>}
    /\ IsFiniteSet(dispatched)
    /\ Cardinality(dispatched) <= DispatchLimit

RunsInv == UncertainIsReported /\ DoubtInv /\ LinksExist /\ CancelCoversTree

(* What the host thread has in memory. *)
MemoryInv == WalkFenced /\ Prepared /\ Started /\ Slots

HostInv == RunsInv /\ MemoryInv

(* How the daemon may change the state of a run: the edges of its life. *)
StateMove(r, rec) ==
    \/ rec.state = run[r].state
    \/ run[r].state = "Absent" /\ rec.state = "Running"
    \/ run[r].state \in Drivable /\ rec.state \notin {"Absent", "Cancelled"}
    \/ run[r].state = "ContinuedAsNew" /\ rec.state = "CancelRequested"
    \/ Exhausted(run[r]) /\ rec.state \in {"Failed", "OutcomeUnknown"}
    \/ /\ run[r].state = "OutcomeUnknown"
       /\ rec.state = "Failed" \/ (rec.state = "Running" /\ rec.audit > 0)
    \/ /\ run[r].state \in Fence /\ rec.state = "Cancelled"
       /\ \A c \in LinksOf(run[r]) : run[c].state \in Settled

(* What every step of the daemon does to the runs. *)
HostStep ==
    /\ \A r \in Runs :
         /\ StateMove(r, run'[r])
         /\ run[r].state # "Absent" => run'[r].audit >= run[r].audit
         /\ run[r].state \in Fence => LinksOf(run'[r]) \subseteq LinksOf(run[r])
         /\ \A c \in LinksOf(run'[r]) : c \in LinksOf(run[r]) \/ (c \in Runs /\ run'[c].state # "Absent")
    /\ UncertainIsReported'
    /\ DoubtInv'

(* A step of that kind keeps what is said of the runs. *)
LEMMA HostStepRuns ==
  ASSUME IInv, Good, RunsInv, HostStep
  PROVE  RunsInv'
<1>MoveExists.
  ASSUME NEW r \in Runs, NEW rec, StateMove(r, rec), run[r].state # "Absent"
  PROVE  rec.state # "Absent"
  BY Zenon, <1>MoveExists DEF StateMove, Exhausted
(* A settled run stays settled, unless it was reconciled. *)
<1>MoveSettled.
  ASSUME IInv, NEW r \in Runs, NEW rec \in Record, StateMove(r, rec), run[r].state # "Absent",
         rec.audit >= run[r].audit, run[r].state \in Settled \/ run[r].audit > 0
  PROVE  rec.state \in Settled \/ rec.audit > 0
  <2> USE <1>MoveSettled
  <2>1. CASE run[r].audit > 0
    <3>1. run[r].audit \in Nat /\ rec.audit \in Nat
      BY ZenonT(60), RunTyped DEF Record
    <3>2. QED
      BY <2>1, <3>1
  <2>2. CASE run[r].state \in Settled
    BY Zenon, <2>2 DEF StateMove, Settled, Exhausted, Drivable, Fence
  <2>3. QED
    BY Zenon, <2>1, <2>2
<1>1. \A r \in Runs : run'[r] \in Record
  BY Zenon DEF Good, RunsOK
<1>2. ASSUME NEW r \in Runs, run[r].state # "Absent" PROVE run'[r].state # "Absent"
  BY Zenon, <1>2, <1>MoveExists DEF HostStep
<1>3. ASSUME NEW r \in Runs, NEW c \in LinksOf(run'[r])
      PROVE  c \in Runs /\ run'[c].state # "Absent"
  BY Zenon, <1>2 DEF HostStep, RunsInv, LinksExist
<1>4. ASSUME NEW r \in Runs, run'[r].state = "Cancelled", NEW c \in LinksOf(run'[r])
      PROVE  run'[c].state \in Settled \/ run'[c].audit > 0
  <2>1. StateMove(r, run'[r])
    BY Zenon DEF HostStep
  <2>2. run[r].state \in Fence
    BY Zenon, <1>4, <2>1 DEF StateMove, Fence
  <2>3. c \in LinksOf(run[r])
    BY Zenon, <2>2 DEF HostStep
  <2>4. c \in Runs /\ run[c].state # "Absent"
    BY Zenon, <2>3 DEF RunsInv, LinksExist
  <2>5. run[c].state \in Settled \/ run[c].audit > 0
    <3>1. CASE run[r].state = "Cancelled"
      BY Zenon, <2>3, <3>1 DEF RunsInv, CancelCoversTree, LinksOf
    <3>2. CASE run[r].state # "Cancelled"
      BY Zenon, <1>4, <2>1, <2>3, <3>2 DEF StateMove
    <3>3. QED
      BY Zenon, <3>1, <3>2
  <2>6. StateMove(c, run'[c]) /\ run'[c].audit >= run[c].audit
    BY Zenon, <2>4 DEF HostStep
  <2>7. QED
    BY Zenon, <1>1, <2>4, <2>5, <2>6, <1>MoveSettled
<1>5. LinksExist' /\ CancelCoversTree'
  BY Zenon, <1>3, <1>4 DEF LinksExist, CancelCoversTree, LinksOf
<1>6. QED
  BY Zenon, <1>5 DEF RunsInv, HostStep

----------------------------------------------------------------------------
(* What a commit leaves alone.                                             *)

Alike(a, b) == /\ a.state = b.state /\ a.reason = b.reason /\ a.audit = b.audit
               /\ a.children = b.children /\ a.next = b.next

Keeps(a, b) == a.children = b.children /\ a.next = b.next /\ a.audit = b.audit

(* A record may be written over that of r, given the tasks after the step. *)
Fits(r, rec) ==
    /\ StateMove(r, rec)
    /\ run[r].state # "Absent" => rec.audit >= run[r].audit
    /\ rec.state = "OutcomeUnknown" => \/ rec.reason = "RetryExhausted"
                                       \/ rec.audit > 0
                                       \/ \E e \in TasksOf(r) : task'[e].state = "Uncertain"
    /\ \A e \in TasksOf(r) : task'[e].state = "Uncertain" => rec.state = "OutcomeUnknown"

(* Every step of the daemon does to the runs what HostStep allows.  First  *)
(* what a commit leaves alone, then one step for each kind of action.       *)
LEMMA NextHost == ~Embedded /\ IInv /\ HostInv /\ [Next]_vars => HostStep
<1>CommitAlike.
  ASSUME run \in [Runs -> Record], NEW writes, DOMAIN writes \subseteq Runs,
         \A q \in DOMAIN writes : writes[q] \in Record, NEW woken, Commit(writes, woken), NEW q \in Runs
  PROVE  Alike(run'[q], IF q \in DOMAIN writes THEN writes[q] ELSE run[q])
  <2> USE <1>CommitAlike
  <2> DEFINE new  == [p \in Runs |-> IF p \in DOMAIN writes THEN writes[p] ELSE run[p]]
             wake == {p \in woken : new[p].state = "Running"}
  <2>1. run' = [p \in Runs |-> IF p \in wake THEN [new[p] EXCEPT !.wakeup = "now"] ELSE new[p]]
    BY Zenon DEF Commit
  <2>2. new[q] \in Record /\ new[q] = IF q \in DOMAIN writes THEN writes[q] ELSE run[q]
    BY Zenon
  <2> HIDE DEF new, wake
  <2>3. Alike([new[q] EXCEPT !.wakeup = "now"], new[q])
    BY ZenonT(60), <2>2 DEF Record, Alike
  <2>4. Alike(new[q], new[q])
    BY Zenon DEF Alike
  <2>5. run'[q] = new[q] \/ run'[q] = [new[q] EXCEPT !.wakeup = "now"]
    BY Zenon, <2>1
  <2>6. QED
    BY Zenon, <2>2, <2>3, <2>4, <2>5
<1>KeptFits.
  ASSUME IInv, RunsInv, NEW r \in Runs, \A e \in TasksOf(r) : task'[e] = task[e]
  PROVE  Fits(r, run[r])
  <2> USE <1>KeptFits
  <2>1. run[r].audit \in Nat
    BY ZenonT(60), RunTyped DEF Record
  <2>2. run[r].audit >= run[r].audit
    BY <2>1
  <2>3. \A e \in TasksOf(r) : task'[e].state = "Uncertain" => run[r].state = "OutcomeUnknown"
    BY Zenon DEF RunsInv, UncertainIsReported, TasksOf
  <2>4. QED
    BY Zenon, <2>2, <2>3 DEF Fits, StateMove, RunsInv, DoubtInv
<1>AlikeFits.
  ASSUME NEW r \in Runs, NEW a, NEW b, Alike(a, b), Fits(r, b)
  PROVE  Fits(r, a) /\ LinksOf(a) = LinksOf(b)
  BY Zenon, <1>AlikeFits DEF Alike, Fits, StateMove, LinksOf
(* A commit whose records fit. *)
<1>CommitStep.
  ASSUME IInv, RunsInv, NEW writes, DOMAIN writes \subseteq Runs,
         \A q \in DOMAIN writes : writes[q] \in Record, NEW woken, Commit(writes, woken),
         \A e \in Effects : e[1] \notin DOMAIN writes => task'[e] = task[e],
         \A q \in DOMAIN writes :
           /\ Fits(q, writes[q])
           /\ run[q].state \in Fence => LinksOf(writes[q]) \subseteq LinksOf(run[q])
           /\ \A c \in LinksOf(writes[q]) :
                c \in LinksOf(run[q]) \/ (c \in DOMAIN writes /\ writes[c].state # "Absent")
  PROVE  HostStep
  <2> USE <1>CommitStep
  <2> DEFINE new(q) == IF q \in DOMAIN writes THEN writes[q] ELSE run[q]
  <2>1. run \in [Runs -> Record]
    BY Zenon DEF IInv, TypeOK
  <2>2. \A q \in Runs : Alike(run'[q], new(q))
    BY Zenon, <2>1, <1>CommitAlike
  <2>3. ASSUME NEW q \in Runs PROVE Fits(q, new(q))
    <3>1. CASE q \in DOMAIN writes
      BY Zenon, <3>1
    <3>2. CASE q \notin DOMAIN writes
      BY Zenon, <3>2, <1>KeptFits DEF TasksOf
    <3>3. QED
      BY Zenon, <3>1, <3>2
  <2>4. \A q \in Runs : Fits(q, run'[q]) /\ LinksOf(run'[q]) = LinksOf(new(q))
    BY Zenon, <2>2, <2>3, <1>AlikeFits
  <2>5. \A q \in Runs : run[q].state \in Fence => LinksOf(run'[q]) \subseteq LinksOf(run[q])
    BY Zenon, <2>4
  <2>6. ASSUME NEW q \in Runs, NEW c \in LinksOf(run'[q])
        PROVE  c \in LinksOf(run[q]) \/ (c \in Runs /\ run'[c].state # "Absent")
    <3>1. c \in LinksOf(new(q))
      BY Zenon, <2>4
    <3>2. c \in LinksOf(run[q]) \/ (c \in DOMAIN writes /\ writes[c].state # "Absent")
      BY Zenon, <3>1
    <3>3. c \in DOMAIN writes => c \in Runs /\ run'[c].state = writes[c].state
      BY Zenon, <2>2 DEF Alike
    <3>4. QED
      BY Zenon, <3>2, <3>3
  <2>7. UncertainIsReported'
    BY Zenon, <2>4, EffectRun DEF UncertainIsReported, Fits, TasksOf
  <2>8. DoubtInv'
    BY Zenon, <2>4 DEF DoubtInv, Fits, TasksOf
  <2>9. QED
    BY Zenon, <2>4, <2>5, <2>6, <2>7, <2>8 DEF HostStep, Fits
(* One run is written, and keeps its children and its successor. *)
<1>OneStep.
  ASSUME IInv, RunsInv, NEW r \in Runs, NEW rec \in Record, NEW woken, Commit(Write(r, rec), woken),
         \A e \in Effects : e[1] # r => task'[e] = task[e],
         LinksOf(rec) = LinksOf(run[r]), Fits(r, rec)
  PROVE  HostStep
  <2> USE <1>OneStep
  <2> DEFINE writes == Write(r, rec)
  <2>1. DOMAIN writes = {r} /\ writes[r] = rec
    BY Zenon DEF Write
  <2> HIDE DEF writes
  <2>3. Commit(writes, woken)
    BY Zenon DEF writes
  <2>4. QED
    BY Zenon, <2>1, <2>3, <1>CommitStep
(* What the transformers of records keep. *)
<1>KeepsAll.
  ASSUME NEW rec \in Record, NEW s, NEW x, NEW w, NEW r, NEW tasks
  PROVE  /\ Keeps(Suspended(rec, s), rec)
         /\ Keeps(Rejected(rec, x), rec)
         /\ Keeps(Driven(rec), rec)
         /\ Keeps([rec EXCEPT !.wakeup = w], rec)
         /\ Keeps(mark_retry_exhausted(r, rec, tasks), rec)
         /\ mark_retry_exhausted(r, rec, tasks).reason = "RetryExhausted"
  BY ZenonT(60), <1>KeepsAll DEF Suspended, Rejected, Driven, mark_retry_exhausted, Keeps, Record
<1>KeepsTrans.
  ASSUME NEW a, NEW b, NEW c, Keeps(a, b), Keeps(b, c) PROVE Keeps(a, c)
  BY Zenon, <1>KeepsTrans DEF Keeps
<1>KeepsLinks.
  ASSUME IInv, NEW r \in Runs, NEW rec, Keeps(rec, run[r])
  PROVE  LinksOf(rec) = LinksOf(run[r]) /\ rec.audit >= run[r].audit
  <2> USE <1>KeepsLinks
  <2>1. run[r].audit \in Nat
    BY ZenonT(60), RunTyped DEF Record
  <2>2. rec.audit = run[r].audit
    BY Zenon DEF Keeps
  <2>3. rec.audit >= run[r].audit
    BY <2>1, <2>2
  <2>4. QED
    BY Zenon, <2>3 DEF Keeps, LinksOf
<1>PendingKeeps. ASSUME IInv, NEW r \in Runs PROVE Keeps(Pending(r), run[r])
  <2> USE <1>PendingKeeps
  <2>1. Driven(run[r]) \in Record /\ Keeps(Driven(run[r]), run[r])
    BY Zenon, RunTyped, DrivenRecord, <1>KeepsAll
  <2>2. Keeps(Pending(r), Driven(run[r]))
    BY ZenonT(60), <2>1 DEF Pending, Keeps, Record
  <2>3. QED
    BY Zenon, <2>1, <2>2, <1>KeepsTrans
(* While a run can be driven, none of its tasks is uncertain. *)
<1>NoDoubt.
  ASSUME RunsInv, NEW r \in Runs, run[r].state # "OutcomeUnknown"
  PROVE  \A e \in TasksOf(r) : task[e].state # "Uncertain"
  BY Zenon, <1>NoDoubt DEF RunsInv, UncertainIsReported, TasksOf
<1>DrivableStep.
  ASSUME IInv, RunsInv, NEW r \in Runs, run[r].state \in Drivable,
         NEW rec \in Record, Keeps(rec, run[r]), rec.state \notin {"Absent", "Cancelled"},
         rec.state = "OutcomeUnknown" => rec.reason = "RetryExhausted",
         NEW woken, Commit(Write(r, rec), woken),
         \A e \in Effects : e[1] # r => task'[e] = task[e],
         \A e \in TasksOf(r) : task'[e].state # "Uncertain"
  PROVE  HostStep
  <2> USE <1>DrivableStep
  <2>1. LinksOf(rec) = LinksOf(run[r]) /\ rec.audit >= run[r].audit
    BY Zenon, <1>KeepsLinks
  <2>2. Fits(r, rec)
    BY Zenon, <2>1 DEF Fits, StateMove
  <2>3. QED
    BY Zenon, <2>1, <2>2, <1>OneStep
<1>StillStep. ASSUME IInv, RunsInv, UNCHANGED <<run, task>> PROVE HostStep
  <2> USE <1>StillStep
  <2>1. \A r \in Runs : Fits(r, run[r])
    BY Zenon, <1>KeptFits
  <2>2. UncertainIsReported' /\ DoubtInv'
    BY Zenon DEF RunsInv, UncertainIsReported, DoubtInv, TasksOf
  <2>3. QED
    BY Zenon, <2>1, <2>2 DEF HostStep, Fits
<1>CancelRequestHost.
  ASSUME IInv, RunsInv, NEW r \in Runs, run[r].state \notin Settled, cancel_request(r) PROVE HostStep
  <2> USE <1>CancelRequestHost
  <2> DEFINE rec == [run[r] EXCEPT !.state = "CancelRequested", !.wakeup = "now"]
  <2>1. rec \in Record /\ rec.state = "CancelRequested" /\ Keeps(rec, run[r])
    BY ZenonT(60), RunTyped DEF Record, Wakeups, RunStates, Keeps
  <2>2. Commit(Write(r, rec), {}) /\ task' = task
    BY Zenon DEF cancel_request, Save
  <2> HIDE DEF rec
  <2>3. run[r].state \in Drivable \cup {"ContinuedAsNew", "CancelRequested"}
    BY ZenonT(60), RunTyped DEF Record, RunStates, Settled, Drivable
  <2>4. \A e \in TasksOf(r) : task'[e].state # "Uncertain"
    BY Zenon, <2>2, <1>NoDoubt DEF Settled
  <2>5. LinksOf(rec) = LinksOf(run[r]) /\ rec.audit >= run[r].audit
    BY Zenon, <2>1, <1>KeepsLinks
  <2>6. Fits(r, rec)
    BY Zenon, <2>1, <2>3, <2>4, <2>5 DEF Fits, StateMove
  <2>7. QED
    BY Zenon, <2>1, <2>2, <2>5, <2>6, <1>OneStep
(* A run that is created has no links, and no task of it is uncertain. *)
<1>NewFits.
  ASSUME IInv, RunsInv, NEW s \in Runs, Vacant(s), NEW p \in Runs \cup {None},
         \A e \in TasksOf(s) : task'[e] = task[e]
  PROVE  Fits(s, new_run(p)) /\ LinksOf(new_run(p)) = {}
  <2> USE <1>NewFits
  <2>1. new_run(p).state = "Running" /\ run[s].state = "Absent"
    BY Zenon, NewRecord DEF Vacant
  <2>2. \A e \in TasksOf(s) : task'[e].state # "Uncertain"
    BY Zenon, <2>1, <1>NoDoubt
  <2>3. new_run(p).children = <<>> /\ new_run(p).next = None
    BY Zenon DEF new_run
  <2>4. QED
    BY <2>1, <2>2, <2>3 DEF Fits, StateMove, LinksOf
<1>StartHost. ASSUME IInv, RunsInv, NEW r \in Runs, start(r) PROVE HostStep
  <2> USE <1>StartHost
  <2> DEFINE rec == new_run(None)
             writes == Write(r, rec)
  <2>1. Vacant(r) /\ task' = task /\ Commit(writes, {})
    BY Zenon DEF start, Vacant, Save
  <2>2. rec \in Record /\ Fits(r, rec) /\ LinksOf(rec) = {}
    BY Zenon, <2>1, NewRecord, <1>NewFits
  <2>3. DOMAIN writes = {r} /\ writes[r] = rec
    BY Zenon DEF Write
  <2> HIDE DEF rec, writes
  <2>4. QED
    BY Zenon, <2>1, <2>2, <2>3, <1>CommitStep
<1>TurnHost.
  ASSUME ~Embedded, IInv, RunsInv
  PROVE  \A r \in Runs : TurnStep(r) => HostStep
  <2> USE <1>TurnHost
  (* The evaluation of the command creates a task, or nothing. *)
  <2>EvaluatedDoubt.
    ASSUME IInv, NEW r \in Runs, \A e \in TasksOf(r) : task[e].state # "Uncertain",
           task' = task \/ (Ongoing(r) /\ task' = Evaluated(r))
    PROVE  /\ \A e \in Effects : e[1] # r => task'[e] = task[e]
           /\ \A e \in TasksOf(r) : task'[e].state # "Uncertain"
    <3> USE <2>EvaluatedDoubt
    <3>1. \A e \in TasksOf(r) : e \in Effects
      BY Zenon DEF TasksOf
    <3>2. CASE task' = task
      BY Zenon, <3>2
    <3>3. CASE Ongoing(r) /\ task' = Evaluated(r)
      <4>1. /\ \A e \in Effects : e[1] # r => task'[e] = task[e]
            /\ \A e \in Effects : task'[e] = task[e] \/ task'[e].state = "Ready"
        BY Zenon, <3>3, EvaluatedIs
      <4>2. ASSUME NEW e \in TasksOf(r) PROVE task'[e].state # "Uncertain"
        <5>1. task'[e] = task[e] \/ task'[e].state = "Ready"
          BY Zenon, <3>1, <4>1
        <5>2. QED
          BY Zenon, <5>1
      <4>3. QED
        BY Zenon, <4>1, <4>2
    <3>4. QED
      BY Zenon, <3>2, <3>3
  (* A turn that writes the run. *)
  <2>TurnWrites.
    ASSUME IInv, RunsInv, NEW r \in Runs, InLoop(r),
           NEW rec \in Record, Keeps(rec, run[r]), rec.state \notin {"Absent", "Cancelled", "OutcomeUnknown"},
           NEW woken, Commit(Write(r, rec), woken),
           task' = task \/ (Ongoing(r) /\ task' = Evaluated(r))
    PROVE  HostStep
    <3> USE <2>TurnWrites
    <3>1. run[r].state \in Drivable /\ run[r].state # "OutcomeUnknown"
      BY Zenon, LoopRun
    <3>2. \A e \in TasksOf(r) : task[e].state # "Uncertain"
      BY Zenon, <3>1, <1>NoDoubt
    <3>3. /\ \A e \in Effects : e[1] # r => task'[e] = task[e]
          /\ \A e \in TasksOf(r) : task'[e].state # "Uncertain"
      BY Zenon, <3>2, <2>EvaluatedDoubt
    <3>4. QED
      BY Zenon, <3>1, <3>3, <1>DrivableStep
  <2>DriveErrorHost.
    ASSUME ~Embedded, IInv, RunsInv, NEW r \in Runs, InLoop(r), NEW reason \in Reasons, drive_error(r, reason)
    PROVE  HostStep
    <3> USE <2>DriveErrorHost
    <3>1. /\ Rejected(run[r], reason) \in Record /\ Keeps(Rejected(run[r], reason), run[r])
          /\ Rejected(run[r], reason).state \notin {"Absent", "Cancelled", "OutcomeUnknown"}
      BY Zenon, RunTyped, RejectedRecord, FailureState, <1>KeepsAll
    <3>2. QED
      BY Zenon, <3>1, <2>TurnWrites DEF drive_error, Save
  <2>DriveProgressedHost. ASSUME IInv, RunsInv, NEW r \in Runs, drive_progressed(r) PROVE HostStep
    <3> USE <2>DriveProgressedHost
    <3> DEFINE rec == [run[r] EXCEPT !.wakeup = "now"]
    <3>1. InLoop(r) /\ run[r].state \in Drivable
      BY Zenon, LoopRun DEF drive_progressed
    <3>2. rec \in Record /\ rec.state = run[r].state /\ Keeps(rec, run[r])
      BY Zenon, RunTyped, WokenRecord, <1>KeepsAll DEF Wakeups
    <3>3. Commit(Write(r, rec), {}) /\ task' = task
      BY Zenon DEF drive_progressed, Save
    <3> HIDE DEF rec
    <3>4. rec.state \notin {"Absent", "Cancelled", "OutcomeUnknown"}
      BY Zenon, <3>1, <3>2 DEF Drivable
    <3>5. QED
      BY Zenon, <3>1, <3>2, <3>3, <3>4, <2>TurnWrites
  <2>DriveReturnHost. ASSUME IInv, RunsInv, NEW r \in Runs, drive_return(r) PROVE HostStep
    <3> USE <2>DriveReturnHost
    <3> DEFINE state == IF JoinChildren(r) = "joined" THEN "Completed" ELSE "Nondeterminism"
               rec == Suspended(Driven(run[r]), state)
    <3>1. state \in RunStates /\ state \notin {"Absent", "Cancelled", "OutcomeUnknown"}
      BY Zenon DEF RunStates
    <3>2. rec \in Record /\ rec.state = state
      BY Zenon, <3>1, RunTyped, DrivenRecord, SuspendedRecord
    <3>3. Keeps(rec, run[r])
      BY Zenon, RunTyped, DrivenRecord, <1>KeepsAll, <1>KeepsTrans
    <3>4. Commit(Write(r, rec), {}) /\ task' = task /\ InLoop(r)
      BY Zenon DEF drive_return, Save, Turn
    <3> HIDE DEF rec, state
    <3>5. QED
      BY Zenon, <3>1, <3>2, <3>3, <3>4, <2>TurnWrites
  <2>DrivePropagateHost. ASSUME IInv, RunsInv, NEW r \in Runs, drive_propagate(r) PROVE HostStep
    <3> USE <2>DrivePropagateHost
    <3> DEFINE wake == IF Retrying(r, task) # {} THEN "later" ELSE None
               rec(state, reason) == [Pending(r) EXCEPT !.state = state, !.reason = reason, !.wakeup = wake]
    <3>1. PICK state \in {"Failed", "Nondeterminism"}, reason \in Reasons \cup {None} : Propagate(r, state, reason)
      <4>1. \A child \in Runs : run[child].reason \in Reasons \cup {None}
        BY ZenonT(60), RunTyped DEF Record
      <4>2. QED
        BY Zenon, <4>1 DEF drive_propagate
    <3>2. Pending(r) \in Record /\ Keeps(Pending(r), run[r]) /\ wake \in Wakeups \cup {None} /\ state \in RunStates
      BY Zenon, PendingRecord, <1>PendingKeeps DEF Wakeups, RunStates
    <3>3. Commit(Write(r, rec(state, reason)), {}) /\ InLoop(r) /\ task' = task
      BY Zenon, <3>1 DEF Propagate, Save, drive_propagate, Turn
    <3> HIDE DEF wake
    <3>4. /\ rec(state, reason) \in Record /\ rec(state, reason).state = state
          /\ Keeps(rec(state, reason), Pending(r))
      BY ZenonT(60), <3>2 DEF Record, Keeps
    <3> HIDE DEF rec
    <3>5. Keeps(rec(state, reason), run[r])
      BY Zenon, <3>2, <3>4, <1>KeepsTrans
    <3>6. QED
      BY Zenon, <3>3, <3>4, <3>5, <2>TurnWrites
  <2>DriveFaultHost. ASSUME IInv, RunsInv, NEW r \in Runs, NEW fault, drive_fault(r, fault) PROVE HostStep
    <3> USE <2>DriveFaultHost
    <3>1. "InvalidCommand" \in Reasons /\ "Nondeterminism" \in RunStates
      BY Zenon DEF Reasons, RunStates
    <3>2. /\ Rejected(run[r], "InvalidCommand") \in Record
          /\ Rejected(run[r], "InvalidCommand").state \notin {"Absent", "Cancelled", "OutcomeUnknown"}
          /\ Keeps(Rejected(run[r], "InvalidCommand"), run[r])
      BY Zenon, <3>1, RunTyped, RejectedRecord, FailureState, <1>KeepsAll
    <3>3. /\ Suspended(Driven(run[r]), "Nondeterminism") \in Record
          /\ Suspended(Driven(run[r]), "Nondeterminism").state = "Nondeterminism"
          /\ Keeps(Suspended(Driven(run[r]), "Nondeterminism"), run[r])
      BY Zenon, <3>1, RunTyped, DrivenRecord, SuspendedRecord, <1>KeepsAll, <1>KeepsTrans
    <3>4. PICK rec \in Record : /\ rec.state \notin {"Absent", "Cancelled", "OutcomeUnknown"}
                                /\ Keeps(rec, run[r])
                                /\ \E woken : Commit(Write(r, rec), woken)
      BY Zenon, <3>2, <3>3 DEF drive_fault, Save
    <3>5. InLoop(r) /\ task' = task
      BY Zenon DEF drive_fault, Turn
    <3>6. QED
      BY Zenon, <3>4, <3>5, <2>TurnWrites
  <2>PendingWrites.
    ASSUME IInv, RunsInv, NEW r \in Runs, InLoop(r), Save(r, Pending(r)),
           task' = task \/ (Ongoing(r) /\ task' = Evaluated(r))
    PROVE  HostStep
    <3> USE <2>PendingWrites
    <3>1. Pending(r) \in Record /\ Pending(r).state = "Running" /\ Keeps(Pending(r), run[r])
      BY Zenon, PendingRecord, <1>PendingKeeps
    <3>2. QED
      BY Zenon, <3>1, <2>TurnWrites DEF Save
  <2>DriveWaitHost. ASSUME IInv, RunsInv, NEW r \in Runs, drive_wait(r) PROVE HostStep
    <3> USE <2>DriveWaitHost
    <3>1. InLoop(r) /\ task' = task /\ (Save(r, Pending(r)) \/ UNCHANGED run)
      BY Zenon DEF drive_wait, Evaluates, Turn, NoSave
    <3>2. QED
      BY Zenon, <3>1, <2>PendingWrites, <1>StillStep
  <2>DriveParkHost. ASSUME ~Embedded, IInv, RunsInv, NEW r \in Runs, drive_park(r) PROVE HostStep
    <3> USE <2>DriveParkHost
    <3>1. InLoop(r) /\ Ongoing(r) /\ "ResourceLimit" \in Reasons
      BY Zenon DEF drive_park, Evaluates, Turn, Reasons
    <3>2. QED
      BY Zenon, <3>1, <2>PendingWrites, <2>DriveErrorHost DEF drive_park
  <2>DriveUnimplementedHost. ASSUME IInv, RunsInv, NEW r \in Runs, drive_unimplemented(r) PROVE HostStep
    <3> USE <2>DriveUnimplementedHost
    <3> DEFINE rec == Suspended(Pending(r), "NeedsImplementation")
    <3>1. InLoop(r) /\ Ongoing(r) /\ task' = Evaluated(r) /\ Commit(Write(r, rec), {})
      BY Zenon, DispatchesIs DEF drive_unimplemented, Save
    <3>2. rec \in Record /\ rec.state = "NeedsImplementation"
      BY Zenon, PendingRecord, SuspendedRecord, "NeedsImplementation" \in RunStates DEF RunStates
    <3>3. Keeps(rec, run[r])
      BY Zenon, PendingRecord, <1>PendingKeeps, <1>KeepsAll, <1>KeepsTrans
    <3> HIDE DEF rec
    <3>4. QED
      BY Zenon, <3>1, <3>2, <3>3, <2>TurnWrites
  <2>DriveExhaustedHost. ASSUME IInv, RunsInv, NEW r \in Runs, NEW e \in TasksOf(r), drive_exhausted(r, e) PROVE HostStep
    <3> USE <2>DriveExhaustedHost
    <3> DEFINE tasks == [Evaluated(r) EXCEPT ![e] = Candidate(e)]
               rec == mark_retry_exhausted(r, Pending(r), tasks)
    <3>1. InLoop(r) /\ Ongoing(r) /\ FirstReady(r, e) /\ task' = tasks /\ Commit(Write(r, rec), {})
      BY Zenon, DispatchesIs DEF drive_exhausted, Save
    <3>2. run[r].state \in Drivable /\ run[r].state # "OutcomeUnknown"
      BY Zenon, <3>1, LoopRun
    <3>3. e \in Effects /\ e[1] = r /\ Candidate(e).state = "Ready"
      BY Zenon, <3>1, CandidateIs
    <3>4. /\ Evaluated(r) \in [Effects -> Task]
          /\ \A f \in Effects : f[1] # r => Evaluated(r)[f] = task[f]
          /\ \A f \in TasksOf(r) : Evaluated(r)[f].state # "Uncertain"
      BY Zenon, <3>1, <3>2, EvaluatedIs, <1>NoDoubt DEF TasksOf
    <3>5. \A f \in Effects : tasks[f] = IF f = e THEN Candidate(e) ELSE Evaluated(r)[f]
      BY Zenon, <3>4
    <3>6. /\ rec \in Record /\ rec.state \in {"OutcomeUnknown", "Failed"}
          /\ rec.reason = "RetryExhausted" /\ Keeps(rec, run[r])
      <4>1. rec \in Record /\ rec.state \in {"OutcomeUnknown", "Failed"}
        BY Zenon, PendingRecord, ExhaustedRecord
      <4>2. rec.reason = "RetryExhausted" /\ Keeps(rec, Pending(r))
        BY Zenon, PendingRecord, <1>KeepsAll
      <4>3. QED
        BY Zenon, <4>1, <4>2, <1>PendingKeeps, <1>KeepsTrans
    <3> HIDE DEF tasks, rec
    <3>7. /\ \A f \in Effects : f[1] # r => task'[f] = task[f]
          /\ \A f \in TasksOf(r) : task'[f].state # "Uncertain"
      BY Zenon, <3>1, <3>3, <3>4, <3>5 DEF TasksOf
    <3>8. QED
      BY Zenon, <3>1, <3>2, <3>6, <3>7, <1>DrivableStep
  <2>DriveDispatchHost.
    ASSUME IInv, RunsInv, NEW r \in Runs, NEW e \in TasksOf(r), drive_dispatch(r, e)
    PROVE  HostStep
    <3> USE <2>DriveDispatchHost
    <3> DEFINE n == Candidate(e).attempt + 1
               t == [Candidate(e) EXCEPT !.state = "InFlight", !.attempt = n, !.owner = epoch]
               wake == IF ReadyTasks(r) # {e} THEN "now" ELSE WaitWakeup(r)
               rec == [Pending(r) EXCEPT !.wakeup = wake]
    <3>1. /\ InLoop(r) /\ Ongoing(r) /\ FirstReady(r, e)
          /\ task' = [Evaluated(r) EXCEPT ![e] = t] /\ Commit(Write(r, rec), {})
      BY Zenon, DispatchesIs DEF drive_dispatch, Save
    <3>2. run[r].state \in Drivable /\ run[r].state # "OutcomeUnknown"
      BY Zenon, <3>1, LoopRun
    <3>3. e \in Effects /\ e[1] = r /\ Candidate(e) \in Task
      BY Zenon, <3>1, CandidateIs
    <3>4. /\ Evaluated(r) \in [Effects -> Task]
          /\ \A f \in Effects : f[1] # r => Evaluated(r)[f] = task[f]
          /\ \A f \in TasksOf(r) : Evaluated(r)[f].state # "Uncertain"
      BY Zenon, <3>1, <3>2, EvaluatedIs, <1>NoDoubt DEF TasksOf
    <3>5. wake \in Wakeups \cup {None}
      BY Zenon, WaitWakeupType DEF Wakeups
    <3>6. t.state = "InFlight"
      BY Zenon, <3>3 DEF Task
    <3> HIDE DEF t, wake
    <3>7. rec \in Record /\ rec.state = "Running" /\ Keeps(rec, Pending(r))
      BY Zenon, <3>5, PendingRecord, WokenRecord, <1>KeepsAll
    <3>8. Keeps(rec, run[r])
      BY Zenon, <3>7, <1>PendingKeeps, <1>KeepsTrans
    <3> HIDE DEF rec
    <3>9. \A f \in Effects : task'[f] = IF f = e THEN t ELSE Evaluated(r)[f]
      BY Zenon, <3>1, <3>4
    <3>10. /\ \A f \in Effects : f[1] # r => task'[f] = task[f]
           /\ \A f \in TasksOf(r) : task'[f].state # "Uncertain"
      BY Zenon, <3>3, <3>4, <3>6, <3>9 DEF TasksOf
    <3>11. QED
      BY Zenon, <3>1, <3>2, <3>7, <3>8, <3>10, <1>DrivableStep
  (* A turn that writes the run and creates another, to which it links. *)
  <2>TurnCreates.
    ASSUME IInv, RunsInv, NEW r \in Runs, InLoop(r), Ongoing(r), NEW s \in Runs, Vacant(s),
           NEW p \in Runs \cup {None}, NEW rec \in Record, rec.state \notin {"Absent", "Cancelled", "OutcomeUnknown"},
           rec.audit = run[r].audit, LinksOf(rec) \subseteq LinksOf(run[r]) \cup {s},
           Commit([q \in {r, s} |-> IF q = r THEN rec ELSE new_run(p)], {}),
           task' = task \/ task' = Evaluated(r)
    PROVE  HostStep
    <3> USE <2>TurnCreates
    <3> DEFINE writes == [q \in {r, s} |-> IF q = r THEN rec ELSE new_run(p)]
    <3>1. run[r].state \in Drivable /\ run[r].state # "OutcomeUnknown" /\ run[r].state \notin Fence
      BY Zenon, LoopRun
    <3>2. r # s
      BY Zenon, <3>1 DEF Vacant, Drivable
    <3>3. /\ \A e \in Effects : e[1] # r => task'[e] = task[e]
          /\ \A e \in TasksOf(r) : task'[e].state # "Uncertain"
      <4>1. \A e \in TasksOf(r) : task[e].state # "Uncertain"
        BY Zenon, <3>1, <1>NoDoubt
      <4>2. QED
        BY Zenon, <4>1, <2>EvaluatedDoubt
    <3>4. Fits(s, new_run(p)) /\ LinksOf(new_run(p)) = {} /\ new_run(p) \in Record /\ new_run(p).state = "Running"
      BY Zenon, <3>2, <3>3, <1>NewFits, NewRecord DEF TasksOf
    <3>5. run[r].audit \in Nat
      BY ZenonT(60), RunTyped DEF Record
    <3>6. rec.audit >= run[r].audit
      BY <3>5
    <3>7. Fits(r, rec)
      BY Zenon, <3>1, <3>3, <3>6 DEF Fits, StateMove
    <3>8. DOMAIN writes = {r, s} /\ writes[r] = rec /\ writes[s] = new_run(p)
      BY Zenon, <3>2
    <3>9. Commit(writes, {})
      BY Zenon
    <3> HIDE DEF writes
    <3>10. \A q \in DOMAIN writes :
             /\ writes[q] \in Record
             /\ Fits(q, writes[q])
             /\ run[q].state \in Fence => LinksOf(writes[q]) \subseteq LinksOf(run[q])
             /\ \A c \in LinksOf(writes[q]) :
                  c \in LinksOf(run[q]) \/ (c \in DOMAIN writes /\ writes[c].state # "Absent")
      BY Zenon, <3>1, <3>4, <3>7, <3>8
    <3>11. QED
      BY Zenon, <3>3, <3>8, <3>9, <3>10, <1>CommitStep
  <2>AppendedLinks.
    ASSUME NEW kids \in Seq(Runs), NEW s \in Runs
    PROVE  {Append(kids, s)[i] : i \in DOMAIN Append(kids, s)} \subseteq {kids[i] : i \in DOMAIN kids} \cup {s}
    BY <2>AppendedLinks
  <2>DriveValueHost. ASSUME IInv, RunsInv, NEW r \in Runs, drive_value(r) PROVE HostStep
    <3> USE <2>DriveValueHost
    <3> DEFINE signal_ == Cmd(r).op = "signal" \/ (Cmd(r).op = "select" /\ Chosen(r).kind = "signal")
               taken_ == IF signal_ THEN run[r].taken + 1 ELSE run[r].taken
               kids == IF Cmd(r).op = "child" THEN Append(run[r].children, Cmd(r).run) ELSE run[r].children
               rec == [Driven(run[r]) EXCEPT !.pc = run[r].pc + 1, !.issued = 0, !.wakeup = "now",
                                             !.taken = taken_, !.children = kids]
    <3>1. InLoop(r) /\ Ongoing(r) /\ evaluate(r) = "value"
      BY Zenon DEF drive_value, Evaluates, Turn
    <3>2. run[r] \in Record /\ Driven(run[r]) \in Record /\ Driven(run[r]).state = "Running" /\ Keeps(Driven(run[r]), run[r])
      BY Zenon, RunTyped, DrivenRecord, <1>KeepsAll
    <3>3. taken_ \in Nat /\ run[r].pc + 1 \in Nat
      <4>1. run[r].taken \in Nat /\ run[r].pc \in Nat
        BY ZenonT(60), <3>2 DEF Record
      <4>2. QED
        BY <4>1
    <3>4. run[r].children \in Seq(Runs)
      BY ZenonT(60), <3>2 DEF Record
    <3>5. kids \in Seq(Runs)
      <4>1. CASE Cmd(r).op = "child"
        BY Zenon, <3>1, <3>4, <4>1, CmdRun, AppendSeq
      <4>2. CASE Cmd(r).op # "child"
        BY Zenon, <3>4, <4>2
      <4>3. QED
        BY Zenon, <4>1, <4>2
    <3>6. /\ Commit(IF Cmd(r).op = "child" THEN [q \in {r, Cmd(r).run} |-> IF q = r THEN rec ELSE new_run(r)]
                    ELSE Write(r, rec), {})
          /\ task' = Evaluated(r)
      BY Zenon DEF drive_value
    <3> HIDE DEF taken_, kids
    <3>7. /\ rec \in Record /\ rec.state = "Running" /\ rec.children = kids
          /\ rec.next = Driven(run[r]).next /\ rec.audit = Driven(run[r]).audit
      BY ZenonT(60), <3>2, <3>3, <3>5 DEF Record, Wakeups
    <3> HIDE DEF rec
    <3>8. rec.next = run[r].next /\ rec.audit = run[r].audit
      BY Zenon, <3>2, <3>7 DEF Keeps
    <3>9. CASE Cmd(r).op = "child"
      <4> DEFINE s == Cmd(r).run
      <4>1. Vacant(s)
        BY Zenon, <3>1, <3>9 DEF evaluate
      <4>2. s \in Runs
        BY Zenon, <3>1, <3>9, CmdRun
      <4>3. Commit([q \in {r, s} |-> IF q = r THEN rec ELSE new_run(r)], {})
        BY Zenon, <3>6, <3>9
      <4>4. rec.children = Append(run[r].children, s)
        BY Zenon, <3>7, <3>9 DEF kids
      <4> HIDE DEF s
      <4>5. LinksOf(rec) \subseteq LinksOf(run[r]) \cup {s}
        <5>1. {rec.children[i] : i \in DOMAIN rec.children}
                \subseteq {run[r].children[i] : i \in DOMAIN run[r].children} \cup {s}
          <6>1. {Append(run[r].children, s)[i] : i \in DOMAIN Append(run[r].children, s)}
                  \subseteq {run[r].children[i] : i \in DOMAIN run[r].children} \cup {s}
            BY <3>4, <4>2, <2>AppendedLinks
          <6>2. QED
            BY Zenon, <4>4, <6>1
        <5>2. QED
          BY <3>8, <5>1 DEF LinksOf
      <4>6. QED
        BY Zenon, <3>1, <3>6, <3>7, <3>8, <4>1, <4>2, <4>3, <4>5, <2>TurnCreates
    <3>10. CASE Cmd(r).op # "child"
      <4>1. Commit(Write(r, rec), {}) /\ rec.children = run[r].children
        BY Zenon, <3>6, <3>7, <3>10 DEF kids
      <4>2. Keeps(rec, run[r])
        BY Zenon, <3>8, <4>1 DEF Keeps
      <4>3. QED
        BY Zenon, <3>1, <3>6, <3>7, <4>1, <4>2, <2>TurnWrites
    <3>11. QED
      BY Zenon, <3>9, <3>10
  <2>DriveContinueHost. ASSUME IInv, RunsInv, NEW r \in Runs, drive_continue(r) PROVE HostStep
    <3> USE <2>DriveContinueHost
    <3> DEFINE s == Cmd(r).run
               p == run[r].parent
               rec == [Pending(r) EXCEPT !.state = "ContinuedAsNew", !.next = s]
    <3>1. InLoop(r) /\ Ongoing(r) /\ Cmd(r).op = "continue" /\ evaluate(r) = "ContinuedAsNew"
      BY Zenon DEF drive_continue, Evaluates, Turn
    <3>2. s \in Runs
      BY Zenon, <3>1, CmdRun
    <3>3. JoinChildren(r) \in {"joined", "Limit", "Nondeterminism"}
      BY Zenon DEF JoinChildren
    <3>4. Vacant(s)
      BY Zenon, <3>1, <3>3 DEF evaluate
    <3>5. r # s
      BY Zenon, <3>1, <3>4, LoopRun DEF Vacant, Drivable
    <3>6. Commit([q \in {r, s} |-> IF q = s THEN new_run(p) ELSE rec], {}) /\ task' = task
      BY Zenon DEF drive_continue
    <3>7. Pending(r) \in Record /\ Keeps(Pending(r), run[r]) /\ "ContinuedAsNew" \in RunStates /\ p \in Runs \cup {None}
      BY ZenonT(60), PendingRecord, <1>PendingKeeps, RunTyped DEF RunStates, Record
    <3> HIDE DEF s, p
    <3>8. /\ rec \in Record /\ rec.state = "ContinuedAsNew" /\ rec.next = s
          /\ rec.children = Pending(r).children /\ rec.audit = Pending(r).audit
      BY ZenonT(60), <3>2, <3>7 DEF Record
    <3> HIDE DEF rec
    <3>9. [q \in {r, s} |-> IF q = s THEN new_run(p) ELSE rec] = [q \in {r, s} |-> IF q = r THEN rec ELSE new_run(p)]
      BY Zenon, <3>5
    <3>10. rec.audit = run[r].audit /\ LinksOf(rec) \subseteq LinksOf(run[r]) \cup {s}
      BY ZenonT(60), <3>7, <3>8 DEF Keeps, LinksOf
    <3>11. QED
      BY ZenonT(60), <3>1, <3>2, <3>4, <3>6, <3>7, <3>8, <3>9, <3>10, <2>TurnCreates
  <2> SUFFICES ASSUME NEW r \in Runs, TurnStep(r) PROVE HostStep
    BY Zenon
  <2>1. CASE drive_refused(r) \/ \E e \in TasksOf(r) : drive_spent(r, e)
    <3>1. PICK reason \in Reasons : InLoop(r) /\ drive_error(r, reason)
      BY Zenon, <2>1 DEF drive_refused, drive_spent, Dispatches, Turn, Evaluates, Reasons
    <3>2. QED
      BY Zenon, <3>1, <2>DriveErrorHost
  <2>2. CASE drive_cancel(r)
    <3>1. run[r].state \notin Settled
      BY Zenon, <2>2, LoopRun DEF drive_cancel, Evaluates, Turn, Drivable, Settled
    <3>2. QED
      BY Zenon, <2>2, <3>1, <1>CancelRequestHost DEF drive_cancel
  <2>3. CASE \/ drive_value(r) \/ drive_progressed(r) \/ drive_return(r) \/ drive_propagate(r)
             \/ drive_continue(r) \/ drive_wait(r) \/ drive_park(r) \/ drive_unimplemented(r)
             \/ \E fault \in {"nondeterminism", "panic", "malformed"} : drive_fault(r, fault)
    BY Zenon, <2>3, <2>DriveValueHost, <2>DriveProgressedHost, <2>DriveReturnHost, <2>DrivePropagateHost,
       <2>DriveContinueHost, <2>DriveWaitHost, <2>DriveParkHost, <2>DriveUnimplementedHost, <2>DriveFaultHost
  <2>4. CASE \E e \in TasksOf(r) : drive_exhausted(r, e) \/ drive_dispatch(r, e)
    BY Zenon, <2>4, <2>DriveExhaustedHost, <2>DriveDispatchHost
  <2>5. QED
    BY Zenon, <2>1, <2>2, <2>3, <2>4 DEF TurnStep
(* Client calls, recovery and cancellation.                                *)

(* The state stays, and at most one task, which was live, changes. *)
<1>SameFits.
  ASSUME IInv, RunsInv, NEW r \in Runs, NEW rec, rec.state = run[r].state, rec.reason = run[r].reason,
         rec.audit = run[r].audit, NEW e, task[e].state # "Uncertain", task'[e].state # "Uncertain",
         \A f \in TasksOf(r) : f = e \/ task'[f] = task[f]
  PROVE  Fits(r, rec)
  <2> USE <1>SameFits
  <2>1. run[r].audit \in Nat
    BY ZenonT(60), RunTyped DEF Record
  <2>2. rec.audit >= run[r].audit
    BY <2>1
  <2>3. \A f \in TasksOf(r) : task'[f].state = "Uncertain" => run[r].state = "OutcomeUnknown"
    BY Zenon DEF RunsInv, UncertainIsReported, TasksOf
  <2>4. ASSUME run[r].state = "OutcomeUnknown"
        PROVE  \/ run[r].reason = "RetryExhausted"
               \/ run[r].audit > 0
               \/ \E f \in TasksOf(r) : task'[f].state = "Uncertain"
    BY Zenon, <2>4 DEF RunsInv, DoubtInv
  <2>5. QED
    BY Zenon, <2>2, <2>3, <2>4 DEF Fits, StateMove
<1>SignalHost. ASSUME IInv, RunsInv, NEW r \in Runs, signal(r) PROVE HostStep
  <2> USE <1>SignalHost
  <2> DEFINE rec == [run[r] EXCEPT !.sent = run[r].sent + 1, !.wakeup = "now"]
  <2>1. run[r] \in Record /\ run[r].sent + 1 \in Nat /\ "now" \in Wakeups
    BY RunTyped DEF Record, Wakeups
  <2>2. rec \in Record /\ Alike(rec, run[r])
    BY ZenonT(60), <2>1 DEF Record, Alike
  <2>3. Commit(Write(r, rec), {}) /\ task' = task
    BY Zenon DEF signal, Save
  <2> HIDE DEF rec
  <2>4. Fits(r, rec) /\ LinksOf(rec) = LinksOf(run[r])
    BY Zenon, <2>2, <2>3, <1>KeptFits, <1>AlikeFits
  <2>5. QED
    BY Zenon, <2>2, <2>3, <2>4, <1>OneStep
<1>CancelDescendHost. ASSUME IInv, RunsInv, cancel_descend PROVE HostStep
  <2> USE <1>CancelDescendHost
  <2>1. Top \in Runs
    BY Zenon, TopRun DEF cancel_descend
  <2>2. PICK i \in DOMAIN Below(Top) : run[Below(Top)[i]].state \notin Settled /\ cancel_request(Below(Top)[i])
    BY Zenon DEF cancel_descend, Visited
  <2>3. Below(Top)[i] \in Runs
    BY Zenon, <2>1, BelowRuns
  <2>4. QED
    BY Zenon, <2>2, <2>3, <1>CancelRequestHost
<1>CancelFinishHost. ASSUME IInv, RunsInv, WalkFenced, cancel_finish PROVE HostStep
  <2> USE <1>CancelFinishHost
  (* The walk passes by every child and by the successor. *)
  <2>BelowLinks.
    ASSUME IInv, NEW r \in Runs, NEW c \in LinksOf(run[r])
    PROVE  \E i \in DOMAIN Below(r) : Below(r)[i] = c
    <3> USE <2>BelowLinks
    <3> DEFINE kids == run[r].children
               next == run[r].next
    <3>1. kids \in Seq(Runs) /\ next \in Runs \cup {None}
      BY ZenonT(60), RunTyped DEF Record
    <3>2. Below(r) = IF next = None THEN kids ELSE Append(kids, next)
      BY Zenon DEF Below
    <3>3. c \in {kids[i] : i \in DOMAIN kids} \cup ({next} \ {None})
      BY Zenon DEF LinksOf
    <3> HIDE DEF kids, next
    <3>4. CASE next = None
      BY Zenon, <3>2, <3>3, <3>4
    <3>5. CASE next # None /\ c = next
      <4>1. Len(kids) + 1 \in DOMAIN Append(kids, next) /\ Append(kids, next)[Len(kids) + 1] = next
        BY <3>1
      <4>2. QED
        BY Zenon, <3>2, <3>5, <4>1
    <3>6. CASE next # None /\ c # next
      <4>1. PICK i \in DOMAIN kids : c = kids[i]
        BY Zenon, <3>3, <3>6
      <4>2. i \in DOMAIN Append(kids, next) /\ Append(kids, next)[i] = kids[i]
        BY <3>1
      <4>3. QED
        BY Zenon, <3>2, <3>6, <4>1, <4>2
    <3>7. QED
      BY Zenon, <3>4, <3>5, <3>6
  <2>1. Top \in Runs /\ Len(stack) \in Nat \ {0} /\ stack \in Seq(Runs)
    BY Zenon, TopRun DEF cancel_finish, IInv, TypeOK
  <2>2. Len(stack) \in DOMAIN stack
    BY <2>1
  <2>3. PICK r \in Runs : r = Top
    BY Zenon, <2>1
  <2>4. run[r].state \in Fence
    BY Zenon, <2>2, <2>3 DEF WalkFenced, Top
  <2> DEFINE rec == [run[r] EXCEPT !.state = "Cancelled"]
  <2>5. rec \in Record /\ rec.state = "Cancelled" /\ Keeps(rec, run[r])
    BY ZenonT(60), RunTyped DEF Record, RunStates, Keeps
  <2>6. Commit(Write(r, rec), {}) /\ task' = task
    BY Zenon, <2>3 DEF cancel_finish, Save
  <2> HIDE DEF rec
  <2>7. \A c \in LinksOf(run[r]) : run[c].state \in Settled
    BY ZenonT(60), <2>3, <2>BelowLinks DEF cancel_finish, Visited
  <2>8. \A e \in TasksOf(r) : task'[e].state # "Uncertain"
    BY Zenon, <2>4, <2>6, <1>NoDoubt DEF Fence
  <2>9. LinksOf(rec) = LinksOf(run[r]) /\ rec.audit >= run[r].audit
    BY Zenon, <2>5, <1>KeepsLinks
  <2>10. Fits(r, rec)
    BY Zenon, <2>4, <2>5, <2>7, <2>8, <2>9 DEF Fits, StateMove
  <2>11. QED
    BY Zenon, <2>5, <2>6, <2>9, <2>10, <1>OneStep
(* What recovery does to the record and says of the tasks. *)
<1>RecoveredKeeps.
  ASSUME IInv, RunsInv, NEW r \in Runs
  PROVE  /\ Keeps(Recovered(r), run[r]) /\ Recovered(r).reason = run[r].reason
         /\ \A e \in TasksOf(r) : RecoveredTasks(r)[e].state = "Uncertain" => Recovered(r).state = "OutcomeUnknown"
         /\ Recovered(r).state = "OutcomeUnknown" =>
              \/ run[r].state = "OutcomeUnknown"
              \/ \E e \in TasksOf(r) : RecoveredTasks(r)[e].state = "Uncertain"
         /\ \A e \in TasksOf(r) : task[e].state = "Uncertain" => RecoveredTasks(r)[e].state = "Uncertain"
  <2> USE <1>RecoveredKeeps
  <2>1. run[r] \in Record
    BY Zenon, RunTyped
  <2> DEFINE doubt == \E e \in TasksOf(r) : Interrupted(e) /\ Unsafe(e)
             state == IF doubt THEN "OutcomeUnknown" ELSE run[r].state
             wake  == IF state = "Running" THEN "now" ELSE None
  <2>2. Recovered(r) = IF HasInterrupted(r) THEN [run[r] EXCEPT !.state = state, !.wakeup = wake]
                       ELSE run[r]
    BY Zenon DEF Recovered
  <2>3. \A e \in TasksOf(r) : RecoveredTasks(r)[e] = RecoveredTask(e) /\ e \in Effects
    BY Zenon, RecoveredTasksAre DEF TasksOf
  <2>4. doubt => HasInterrupted(r)
    BY Zenon DEF HasInterrupted
  <2> HIDE DEF state, wake
  <2>5. /\ Keeps([run[r] EXCEPT !.state = state, !.wakeup = wake], run[r])
        /\ [run[r] EXCEPT !.state = state, !.wakeup = wake].reason = run[r].reason
        /\ [run[r] EXCEPT !.state = state, !.wakeup = wake].state = state
    BY ZenonT(60), <2>1 DEF Record, Keeps
  <2>6. Keeps(Recovered(r), run[r]) /\ Recovered(r).reason = run[r].reason
    BY Zenon, <2>2, <2>5 DEF Keeps
  <2>7. Recovered(r).state = IF doubt THEN "OutcomeUnknown" ELSE run[r].state
    BY Zenon, <2>2, <2>4, <2>5 DEF state
  <2>8. \A e \in TasksOf(r) : RecoveredTasks(r)[e].state = "Uncertain" =>
           (Interrupted(e) /\ Unsafe(e)) \/ task[e].state = "Uncertain"
    BY Zenon, <2>3, RecoveredTaskIs
  <2>9. \A e \in TasksOf(r) : Interrupted(e) /\ Unsafe(e) => RecoveredTasks(r)[e].state = "Uncertain"
    BY Zenon, <2>3, RecoveredTaskIs
  <2>10. \A e \in TasksOf(r) : task[e].state = "Uncertain" => RecoveredTasks(r)[e].state = "Uncertain"
    BY Zenon, <2>3, RecoveredTaskIs DEF Live
  <2>11. run[r].state # "OutcomeUnknown" => \A e \in TasksOf(r) : task[e].state # "Uncertain"
    BY Zenon, <1>NoDoubt
  <2>12. QED
    BY Zenon, <2>6, <2>7, <2>8, <2>9, <2>10, <2>11
<1>RecoverHost.
  ASSUME IInv, RunsInv, NEW r \in Runs, run[r].state \in {"Running", "OutcomeUnknown"},
         Save(r, Recovered(r)), task' = RecoveredTasks(r)
  PROVE  HostStep
  <2> USE <1>RecoverHost
  <2> DEFINE rec == Recovered(r)
  <2>1. rec \in Record /\ rec.state \in {run[r].state, "OutcomeUnknown"}
    BY Zenon, RecoveredRecord
  <2>2. Keeps(rec, run[r]) /\ rec.reason = run[r].reason
    BY Zenon, <1>RecoveredKeeps
  <2>3. LinksOf(rec) = LinksOf(run[r]) /\ rec.audit >= run[r].audit /\ rec.audit = run[r].audit
    BY Zenon, <2>2, <1>KeepsLinks DEF Keeps
  <2>4. \A e \in TasksOf(r) : task'[e].state = "Uncertain" => rec.state = "OutcomeUnknown"
    BY Zenon, <1>RecoveredKeeps
  <2>5. rec.state = "OutcomeUnknown" => \/ rec.reason = "RetryExhausted"
                                        \/ rec.audit > 0
                                        \/ \E e \in TasksOf(r) : task'[e].state = "Uncertain"
    BY Zenon, <2>2, <2>3, <1>RecoveredKeeps DEF RunsInv, DoubtInv
  <2>6. \A e \in Effects : e[1] # r => task'[e] = task[e]
    BY Zenon, RecoveredTasksAre
  <2>7. Commit(Write(r, rec), {})
    BY Zenon DEF Save
  <2> HIDE DEF rec
  <2>8. Fits(r, rec)
    BY Zenon, <2>1, <2>3, <2>4, <2>5 DEF Fits, StateMove, Drivable
  <2>9. QED
    BY Zenon, <2>1, <2>3, <2>6, <2>7, <2>8, <1>OneStep
<1>ResumeHost. ASSUME IInv, RunsInv, NEW r \in Runs, resume(r) PROVE HostStep
  <2> USE <1>ResumeHost
  <2>1. CASE /\ run[r].state \in {"NeedsInput", "NeedsImplementation"}
             /\ Save(r, [run[r] EXCEPT !.state = "Running", !.wakeup = "now"])
             /\ UNCHANGED task
    <3> DEFINE rec == [run[r] EXCEPT !.state = "Running", !.wakeup = "now"]
    <3>1. rec \in Record /\ rec.state = "Running" /\ Keeps(rec, run[r])
      BY ZenonT(60), RunTyped DEF Record, RunStates, Wakeups, Keeps
    <3>2. Commit(Write(r, rec), {}) /\ run[r].state \in Drivable /\ run[r].state # "OutcomeUnknown"
      BY Zenon, <2>1 DEF Save, Drivable
    <3> HIDE DEF rec
    <3>3. \A e \in TasksOf(r) : task'[e].state # "Uncertain"
      BY Zenon, <2>1, <3>2, <1>NoDoubt
    <3>4. QED
      BY Zenon, <2>1, <3>1, <3>2, <3>3, <1>DrivableStep
  <2>2. CASE run[r].state = "Running" /\ Save(r, Recovered(r)) /\ task' = RecoveredTasks(r)
    BY Zenon, <2>2, <1>RecoverHost
  <2>3. QED
    BY Zenon, <2>1, <2>2 DEF resume
<1>ReconcileRefusedHost. ASSUME IInv, RunsInv, NEW r \in Runs, reconcile_refused(r) PROVE HostStep
  BY Zenon, <1>ReconcileRefusedHost, <1>RecoverHost DEF reconcile_refused, MayReconcile
<1>DriveStepHost.
  ASSUME ~Embedded, IInv, RunsInv
  PROVE  \A r \in Runs : DriveStep(r) => HostStep
  <2> USE <1>DriveStepHost
  (* The daemon drives only what the store has scheduled. *)
  <2>DaemonDrives.
    ASSUME ~Embedded, NEW r \in Runs, MayDrive(r)
    PROVE  run[r].state \in {"Running", "CancelRequested"} /\ phase = "idle"
    BY Zenon, <2>DaemonDrives DEF MayDrive, Runnable, Scheduled
  <2>DriveStoppedHost. ASSUME ~Embedded, IInv, RunsInv, NEW r \in Runs, drive_stopped(r) PROVE HostStep
    <3> USE <2>DriveStoppedHost
    <3>1. run[r].state \in {"Running", "CancelRequested"} /\ HasInterrupted(r)
      BY Zenon, <2>DaemonDrives DEF drive_stopped
    <3>2. run[r].state = "Running"
      BY Zenon, <3>1, RecoveredRecord DEF Fence
    <3>3. QED
      BY Zenon, <3>2, <1>RecoverHost DEF drive_stopped
  <2>DrivenDoubt.
    ASSUME IInv, RunsInv, NEW r \in Runs, Recovered(r).state \in Drivable
    PROVE  /\ run[r].state \in Drivable /\ run[r].state # "OutcomeUnknown"
           /\ \A e \in TasksOf(r) : RecoveredTasks(r)[e].state # "Uncertain"
           /\ \A e \in Effects : e[1] # r => RecoveredTasks(r)[e] = task[e]
    <3> USE <2>DrivenDoubt
    <3>1. Recovered(r).state # "OutcomeUnknown"
      BY Zenon DEF Drivable
    <3>2. QED
      BY Zenon, <3>1, DrivableRecovered, <1>RecoveredKeeps, RecoveredTasksAre DEF Drivable
  <2>DriveSuspendedHost. ASSUME IInv, RunsInv, NEW r \in Runs, NEW state, drive_suspended(r, state) PROVE HostStep
    <3> USE <2>DriveSuspendedHost
    <3> DEFINE rec == Suspended(Recovered(r), state)
    <3>1. state \in {"NeedsInput", "NeedsImplementation"} /\ state \in RunStates
      BY Zenon DEF drive_suspended, RunStates
    <3>2. rec \in Record /\ rec.state = state
      BY Zenon, <3>1, RecoveredRecord, SuspendedRecord
    <3>3. Keeps(rec, run[r])
      BY Zenon, RecoveredRecord, <1>RecoveredKeeps, <1>KeepsAll, <1>KeepsTrans
    <3>4. Commit(Write(r, rec), {}) /\ task' = RecoveredTasks(r) /\ Recovered(r).state \in Drivable
      BY Zenon DEF drive_suspended, Save
    <3> HIDE DEF rec
    <3>5. QED
      BY Zenon, <3>1, <3>2, <3>3, <3>4, <2>DrivenDoubt, <1>DrivableStep
  <2>DriveHost.
    ASSUME IInv, RunsInv, NEW r \in Runs, NEW due, NEW over, NEW fired, drive(r, due, over, fired)
    PROVE  HostStep
    <3> USE <2>DriveHost
    <3> DEFINE rec == Driven(Recovered(r))
               tasks == Advanced(r, due, over)
    <3>1. /\ Recovered(r).state \in Drivable /\ task' = tasks
          /\ due \cup over \subseteq Retrying(r, RecoveredTasks(r))
      BY Zenon DEF drive
    <3>2. rec \in Record /\ rec.state = "Running" /\ Keeps(rec, run[r])
      BY Zenon, RecoveredRecord, <1>RecoveredKeeps, DrivenRecord, <1>KeepsAll, <1>KeepsTrans
    <3>3. /\ \A e \in TasksOf(r) : task'[e].state # "Uncertain"
          /\ \A e \in Effects : e[1] # r => task'[e] = task[e]
      <4>1. \A e \in Effects : tasks[e] = RecoveredTasks(r)[e] \/ (e[1] = r /\ tasks[e].state = "Ready")
        BY <3>1, AdvancedIs
      <4> HIDE DEF tasks
      <4>2. QED
        BY Zenon, <3>1, <4>1, <2>DrivenDoubt DEF TasksOf
    <3>4. run[r].state \in Drivable /\ run[r].state # "OutcomeUnknown"
      BY Zenon, <3>1, <2>DrivenDoubt
    <3>5. \A w \in Wakeups : [rec EXCEPT !.wakeup = w] \in Record /\ [rec EXCEPT !.wakeup = w].state = "Running"
                             /\ Keeps([rec EXCEPT !.wakeup = w], run[r])
      <4> HIDE DEF rec
      <4>1. SUFFICES ASSUME NEW w \in Wakeups
                     PROVE  [rec EXCEPT !.wakeup = w] \in Record /\ [rec EXCEPT !.wakeup = w].state = "Running"
                            /\ Keeps([rec EXCEPT !.wakeup = w], run[r])
        OBVIOUS
      <4>2. [rec EXCEPT !.wakeup = w] \in Record /\ [rec EXCEPT !.wakeup = w].state = "Running"
        BY Zenon, <3>2, WokenRecord
      <4>3. Keeps([rec EXCEPT !.wakeup = w], rec)
        BY Zenon, <3>2, <1>KeepsAll
      <4>4. QED
        BY Zenon, <3>2, <4>2, <4>3, <1>KeepsTrans
    <3>6. /\ mark_retry_exhausted(r, rec, tasks) \in Record
          /\ mark_retry_exhausted(r, rec, tasks).state \in {"OutcomeUnknown", "Failed"}
          /\ mark_retry_exhausted(r, rec, tasks).reason = "RetryExhausted"
          /\ Keeps(mark_retry_exhausted(r, rec, tasks), run[r])
      <4> HIDE DEF rec, tasks
      <4>1. QED
        BY Zenon, <3>2, ExhaustedRecord, <1>KeepsAll, <1>KeepsTrans
    <3>7. \/ Save(r, mark_retry_exhausted(r, rec, tasks))
          \/ \E w \in Wakeups : Save(r, [rec EXCEPT !.wakeup = w])
          \/ SaveRecovered(r) /\ over = {} /\ due = {}
      <4>1. CASE over # {}
        BY Zenon, <4>1 DEF drive
      <4>2. CASE over = {} /\ due # {}
        BY Zenon, <4>2 DEF drive, Wakeups
      <4>3. CASE over = {} /\ due = {} /\ Retrying(r, RecoveredTasks(r)) # {} /\ rec.wakeup # "later"
        BY Zenon, <4>3 DEF drive, Wakeups
      <4>4. CASE over = {} /\ due = {} /\ ~(Retrying(r, RecoveredTasks(r)) # {} /\ rec.wakeup # "later")
        BY Zenon, <4>4 DEF drive
      <4>5. QED
        BY Zenon, <4>1, <4>2, <4>3, <4>4
    <3>8. CASE Save(r, mark_retry_exhausted(r, rec, tasks))
      <4> HIDE DEF rec, tasks
      <4>1. QED
        BY Zenon, <3>3, <3>4, <3>6, <3>8, <1>DrivableStep DEF Save
    <3>9. CASE \E w \in Wakeups : Save(r, [rec EXCEPT !.wakeup = w])
      <4> HIDE DEF rec, tasks
      <4>1. QED
        BY Zenon, <3>3, <3>4, <3>5, <3>9, <1>DrivableStep DEF Save
    <3>10. CASE SaveRecovered(r) /\ over = {} /\ due = {}
      <4>1. CASE HasInterrupted(r)
        <5>1. Save(r, Recovered(r))
          BY Zenon, <3>10, <4>1 DEF SaveRecovered
        <5>2. /\ Recovered(r) \in Record /\ Keeps(Recovered(r), run[r])
              /\ Recovered(r).state \notin {"Absent", "Cancelled", "OutcomeUnknown"}
          BY Zenon, <3>1, RecoveredRecord, <1>RecoveredKeeps DEF Drivable
        <5>3. QED
          BY Zenon, <3>3, <3>4, <5>1, <5>2, <1>DrivableStep DEF Save
      <4>2. CASE ~HasInterrupted(r)
        <5>1. UNCHANGED run
          BY Zenon, <3>10, <4>2 DEF SaveRecovered, NoSave
        <5>2. due \cup over = {}
          BY Zenon, <3>10
        <5>3. task' = task
          <6>1. Advanced(r, due, over) = RecoveredTasks(r)
            BY <3>1, <5>2, AdvancedIs
          <6>2. RecoveredTasks(r) = task
            BY Zenon, <4>2, RecoveredRecord
          <6>3. QED
            BY Zenon, <3>1, <6>1, <6>2
        <5>4. QED
          BY Zenon, <5>1, <5>3, <1>StillStep
      <4>3. QED
        BY Zenon, <4>1, <4>2
    <3>11. QED
      BY Zenon, <3>7, <3>8, <3>9, <3>10
  <2> SUFFICES ASSUME NEW r \in Runs, DriveStep(r) PROVE HostStep
    BY Zenon
  <2>1. CASE drive_cancelled(r)
    <3>1. run[r].state \notin Settled
      BY Zenon, <2>1 DEF drive_cancelled, Settled
    <3>2. QED
      BY Zenon, <2>1, <3>1, <1>CancelRequestHost DEF drive_cancelled
  <2>2. QED
    BY Zenon, <2>1, <2>DriveStoppedHost, <2>DriveSuspendedHost, <2>DriveHost DEF DriveStep
(* Attempts and results.                                                   *)

(* The host thread prepares the attempt it has just dispatched. *)
<1>PrepareHost.
  ASSUME ~Embedded, IInv, RunsInv, Prepared
  PROVE  \A e \in Effects : \A n : PrepareStep(e, n) => HostStep
  <2> USE <1>PrepareHost
  <2>PrepareRegisteredHost.
    ASSUME IInv, RunsInv, NEW e \in Effects, NEW n, prepare_registered(e, n)
    PROVE  HostStep
    <3> USE <2>PrepareRegisteredHost
    <3> DEFINE t == In(start_execution(task[e]), "Invoking")
    <3>1. e[1] \in Runs /\ run[e[1]] \in Record /\ task[e] \in Task /\ "Invoking" \in TaskStates
      BY Zenon, EffectRun, RunTyped, TaskTyped DEF TaskStates
    <3>2. t \in Task /\ t.state = "Invoking"
      BY Zenon, <3>1, StartTask, InTask
    <3>3. /\ task' = [task EXCEPT ![e] = t] /\ task[e].state = "InFlight"
          /\ Commit(Write(e[1], run[e[1]]), {})
      BY Zenon DEF prepare_registered, Save
    <3> HIDE DEF t
    <3>4. /\ task'[e] = t
          /\ \A f \in Effects \ {e} : task'[f] = task[f]
          /\ \A f \in Effects : f[1] # e[1] => task'[f] = task[f]
      BY Zenon, <3>2, <3>3, OneTask
    <3>5. task[e].state # "Uncertain" /\ task'[e].state # "Uncertain"
      BY Zenon, <3>2, <3>3, <3>4
    <3>6. \A f \in TasksOf(e[1]) : f = e \/ task'[f] = task[f]
      BY Zenon, <3>4 DEF TasksOf
    <3>7. Fits(e[1], run[e[1]])
      BY Zenon, <3>1, <3>5, <3>6, <1>SameFits
    <3>8. QED
      BY Zenon, <3>1, <3>3, <3>4, <3>7, <1>OneStep
  (* The daemon refuses only what it has just dispatched for a running run. *)
  <2>RefuseHost.
    ASSUME IInv, RunsInv, NEW e \in Effects, run[e[1]].state = "Running", NEW n,
           NEW rec \in Record, Keeps(rec, run[e[1]]), rec.state \notin {"Absent", "Cancelled", "OutcomeUnknown"},
           Refuse(e, n, rec)
    PROVE  HostStep
    <3> USE <2>RefuseHost
    <3> DEFINE t == Unexecuted(task[e])
    <3>1. e[1] \in Runs /\ t \in Task /\ t.state = "Ready"
      BY Zenon, EffectRun, TaskTyped, UnexecutedTask
    <3>2. task' = [task EXCEPT ![e] = t] /\ Commit(Write(e[1], rec), Woken(e, n))
      BY Zenon DEF Refuse
    <3> HIDE DEF t
    <3>3. /\ task'[e] = t
          /\ \A f \in Effects \ {e} : task'[f] = task[f]
          /\ \A f \in Effects : f[1] # e[1] => task'[f] = task[f]
      BY Zenon, <3>1, <3>2, OneTask
    <3>4. \A f \in TasksOf(e[1]) : task'[f].state # "Uncertain"
      BY Zenon, <3>1, <3>3, <1>NoDoubt DEF TasksOf
    <3>5. QED
      BY Zenon, <3>1, <3>2, <3>3, <3>4, <1>DrivableStep DEF Drivable
  <2>PrepareUnresolvedHost.
    ASSUME ~Embedded, IInv, RunsInv, Prepared, NEW e \in Effects, NEW n, prepare_unresolved(e, n)
    PROVE  HostStep
    <3> USE <2>PrepareUnresolvedHost
    <3>1. run[e[1]].state = "Running"
      BY Zenon DEF prepare_unresolved, Prepares, Prepared
    <3>2. /\ Suspended(run[e[1]], "NeedsInput") \in Record
          /\ Suspended(run[e[1]], "NeedsInput").state = "NeedsInput"
          /\ Keeps(Suspended(run[e[1]], "NeedsInput"), run[e[1]])
      BY Zenon, EffectRun, RunTyped, SuspendedRecord, <1>KeepsAll, "NeedsInput" \in RunStates DEF RunStates
    <3>3. QED
      BY Zenon, <3>1, <3>2, <2>RefuseHost DEF prepare_unresolved
  <2>RejectDispatchHost.
    ASSUME ~Embedded, IInv, RunsInv, Prepared, NEW e \in Effects, NEW n, NEW reason, reject_dispatch(e, n, reason)
    PROVE  HostStep
    <3> USE <2>RejectDispatchHost
    <3>1. run[e[1]].state = "Running" /\ reason \in Reasons
      BY Zenon DEF reject_dispatch, Prepares, Prepared, RejectReasons
    <3>2. /\ Rejected(run[e[1]], reason) \in Record
          /\ Rejected(run[e[1]], reason).state \notin {"Absent", "Cancelled", "OutcomeUnknown"}
          /\ Keeps(Rejected(run[e[1]], reason), run[e[1]])
      BY Zenon, <3>1, EffectRun, RunTyped, RejectedRecord, FailureState, <1>KeepsAll
    <3>3. QED
      BY Zenon, <3>1, <3>2, <2>RefuseHost DEF reject_dispatch
  <2> SUFFICES ASSUME NEW e \in Effects, NEW n, PrepareStep(e, n) PROVE HostStep
    BY Zenon
  <2>1. QED
    BY Zenon, <2>PrepareRegisteredHost, <2>PrepareUnresolvedHost, <2>RejectDispatchHost DEF PrepareStep
(* A handler's result is reported. *)
<1>ResultHost.
  ASSUME IInv, RunsInv
  PROVE  \A e \in Effects : \A n : ResultStep(e, n) => HostStep
  <2> USE <1>ResultHost
  (* The states of a run for which a result is accepted. *)
  <2>OwnedState.
    ASSUME IInv, NEW e \in Effects, NEW n, owned_attempt(e, n)
    PROVE  run[e[1]].state \in Drivable \cup {"OutcomeUnknown"} \/ Exhausted(run[e[1]])
    <3> USE <2>OwnedState
    <3>1. run[e[1]].state \in RunStates
      BY ZenonT(60), EffectRun, RunTyped DEF Record
    <3>2. QED
      BY Zenon, <3>1 DEF owned_attempt, RunStates, Inactive, Drivable
  (* A result that is applied must fit; one that is not changes no run. *)
  <2>SettleHost.
    ASSUME IInv, RunsInv, NEW e \in Effects, NEW n, NEW t \in Task, NEW rec \in Record, Settle(e, n, t, rec),
           Keeps(rec, run[e[1]]),
           owned_attempt(e, n) /\ task' = [task EXCEPT ![e] = t] => Fits(e[1], rec)
    PROVE  HostStep
    <3> USE <2>SettleHost
    <3>1. e[1] \in Runs
      BY Zenon, EffectRun
    <3>2. CASE owned_attempt(e, n)
      <4>1. task' = [task EXCEPT ![e] = t] /\ Commit(Write(e[1], rec), Woken(e, n))
        BY Zenon, <3>2 DEF Settle
      <4>2. Fits(e[1], rec)
        BY Zenon, <3>2, <4>1
      <4>3. \A f \in Effects : f[1] # e[1] => task'[f] = task[f]
        BY Zenon, <4>1, OneTask
      <4>4. LinksOf(rec) = LinksOf(run[e[1]])
        BY Zenon, <3>1, <1>KeepsLinks
      <4>5. QED
        BY Zenon, <3>1, <4>1, <4>2, <4>3, <4>4, <1>OneStep
    <3>3. CASE ~owned_attempt(e, n)
      <4> DEFINE writes == <<>>
      <4>1. task' = task /\ Commit(writes, Woken(e, n))
        BY Zenon, <3>3 DEF Settle
      <4>2. DOMAIN writes = {}
        BY SMT
      <4> HIDE DEF writes
      <4>3. QED
        BY Zenon, <4>1, <4>2, <1>CommitStep
    <3>4. QED
      BY Zenon, <3>2, <3>3
  <2>CompleteHost. ASSUME IInv, RunsInv, NEW e \in Effects, NEW n, complete(e, n) PROVE HostStep
    <3> USE <2>CompleteHost
    <3> DEFINE r     == e[1]
               t     == In(mark_execution(task[e]), "Done")
               rec   == run[r]
               ended == ~has_unresolved_effect(r, [task EXCEPT ![e] = t])
               after == CASE rec.state = "OutcomeUnknown" /\ ended /\ rec.reason = "RetryExhausted" ->
                               [rec EXCEPT !.state = "Failed", !.wakeup = None]
                          [] rec.state = "OutcomeUnknown" /\ ended /\ rec.reason # "RetryExhausted" ->
                               [rec EXCEPT !.state = "Running", !.wakeup = "now"]
                          [] rec.state = "OutcomeUnknown" /\ ~ended -> [rec EXCEPT !.wakeup = None]
                          [] OTHER -> [rec EXCEPT !.wakeup = "now"]
    <3>1. Settle(e, n, t, after)
      BY Zenon DEF complete
    <3>2. r \in Runs /\ rec \in Record
      BY Zenon, EffectRun, RunTyped
    <3>3. t \in Task /\ t.state = "Done"
      BY Zenon, MarkedTask, "Done" \in TaskStates DEF TaskStates
    <3>4. rec.audit \in Nat
      BY ZenonT(60), <3>2 DEF Record
    <3>5. ASSUME owned_attempt(e, n), task' = [task EXCEPT ![e] = t]
          PROVE  /\ task[e].state # "Uncertain" /\ task'[e].state # "Uncertain"
                 /\ \A f \in TasksOf(r) : f = e \/ task'[f] = task[f]
                 /\ ended => \A f \in TasksOf(r) : task'[f].state # "Uncertain"
                 /\ ended /\ (\E f \in TasksOf(r) : task[f].state = "Uncertain") => FALSE
      <4>1. task[e].state \in Live
        BY Zenon, <3>5, OwnedRun
      <4>2. task[e].state # "Uncertain"
        BY Zenon, <4>1 DEF Live
      <4>3. task'[e] = t /\ \A f \in Effects \ {e} : task'[f] = task[f]
        BY Zenon, <3>3, <3>5, OneTask
      <4>4. ended => \A f \in TasksOf(r) : task'[f].state # "Uncertain"
        BY Zenon, <3>5 DEF has_unresolved_effect
      <4> HIDE DEF t, ended
      <4>5. QED
        BY Zenon, <3>3, <4>2, <4>3, <4>4 DEF TasksOf
    <3> HIDE DEF t, ended
    <3>6. CASE rec.state = "OutcomeUnknown" /\ ended /\ rec.reason = "RetryExhausted"
      <4> DEFINE new == [rec EXCEPT !.state = "Failed", !.wakeup = None]
      <4>1. after = new
        BY Zenon, <3>6
      <4>2. new \in Record /\ new.state = "Failed" /\ Keeps(new, rec)
        BY ZenonT(60), <3>2 DEF Record, RunStates, Wakeups, Keeps
      <4> HIDE DEF new
      <4>3. new.audit >= rec.audit
        BY Zenon, <3>2, <4>2, <1>KeepsLinks
      <4>4. owned_attempt(e, n) /\ task' = [task EXCEPT ![e] = t] => Fits(r, new)
        BY Zenon, <3>5, <3>6, <4>2, <4>3 DEF Fits, StateMove
      <4>5. QED
        BY Zenon, <3>1, <3>3, <4>1, <4>2, <4>4, <2>SettleHost
    <3>7. CASE rec.state = "OutcomeUnknown" /\ ended /\ rec.reason # "RetryExhausted"
      <4> DEFINE new == [rec EXCEPT !.state = "Running", !.wakeup = "now"]
      <4>1. after = new
        BY Zenon, <3>7
      <4>2. new \in Record /\ new.state = "Running" /\ Keeps(new, rec)
        BY ZenonT(60), <3>2 DEF Record, RunStates, Wakeups, Keeps
      <4> HIDE DEF new
      <4>3. new.audit >= rec.audit /\ new.audit = rec.audit
        BY Zenon, <3>2, <4>2, <1>KeepsLinks DEF Keeps
      <4>4. ASSUME owned_attempt(e, n), task' = [task EXCEPT ![e] = t]
            PROVE  Fits(r, new)
        <5>1. rec.audit > 0
          BY Zenon, <3>2, <3>5, <3>7, <4>4 DEF RunsInv, DoubtInv
        <5>2. QED
          BY Zenon, <3>5, <3>7, <4>2, <4>3, <4>4, <5>1 DEF Fits, StateMove
      <4>5. QED
        BY Zenon, <3>1, <3>3, <4>1, <4>2, <4>4, <2>SettleHost
    <3>8. CASE ~(rec.state = "OutcomeUnknown" /\ ended)
      <4>1. PICK w \in Wakeups \cup {None} : after = [rec EXCEPT !.wakeup = w]
        BY Zenon, <3>8 DEF Wakeups
      <4> DEFINE new == [rec EXCEPT !.wakeup = w]
      <4>2. new \in Record /\ Alike(new, rec) /\ Keeps(new, rec)
        BY ZenonT(60), <3>2 DEF Record, Alike, Keeps
      <4>3. after = new
        BY Zenon, <4>1
      <4> HIDE DEF new
      <4>4. ASSUME owned_attempt(e, n), task' = [task EXCEPT ![e] = t] PROVE Fits(r, new)
        <5>1. /\ task[e].state # "Uncertain" /\ task'[e].state # "Uncertain"
              /\ \A f \in TasksOf(r) : f = e \/ task'[f] = task[f]
          BY Zenon, <3>5, <4>4
        <5>2. new.state = run[r].state /\ new.reason = run[r].reason /\ new.audit = run[r].audit
          BY Zenon, <4>2 DEF Alike, Keeps
        <5>3. QED
          BY Zenon, <3>2, <5>1, <5>2, <1>SameFits
      <4>5. QED
        BY Zenon, <3>1, <3>3, <4>2, <4>3, <4>4, <2>SettleHost
    <3>9. QED
      BY Zenon, <3>6, <3>7, <3>8
  <2>FailHost. ASSUME IInv, RunsInv, NEW e \in Effects, NEW n, NEW failure, fail(e, n, failure) PROVE HostStep
    <3> USE <2>FailHost
    <3> DEFINE r   == e[1]
               u   == mark_execution(task[e])
               rec == run[r]
    <3>1. r \in Runs /\ rec \in Record /\ rec.audit \in Nat
      BY ZenonT(60), EffectRun, RunTyped DEF Record
    <3>2. \A s \in {"Ready", "Retrying", "Uncertain"} : In(u, s) \in Task /\ In(u, s).state = s
      BY Zenon, MarkedTask, {"Ready", "Retrying", "Uncertain"} \subseteq TaskStates DEF TaskStates
    <3> HIDE DEF u
    <3>3. ASSUME NEW s \in {"Ready", "Retrying", "Uncertain"}, owned_attempt(e, n), task' = [task EXCEPT ![e] = In(u, s)]
          PROVE  /\ task[e].state # "Uncertain" /\ task'[e].state = s
                 /\ \A f \in TasksOf(r) : f = e \/ task'[f] = task[f]
                 /\ e \in TasksOf(r)
                 /\ rec.state \in Drivable \cup {"OutcomeUnknown"} \/ Exhausted(rec)
      <4>1. task[e].state \in Live
        BY Zenon, <3>3, OwnedRun
      <4>2. task[e].state # "Uncertain"
        BY Zenon, <4>1 DEF Live
      <4>3. task'[e] = In(u, s) /\ \A f \in Effects \ {e} : task'[f] = task[f]
        BY Zenon, <3>2, <3>3, OneTask
      <4>4. QED
        BY Zenon, <3>2, <3>3, <4>2, <4>3, <2>OwnedState DEF TasksOf
    <3>4. CASE \E w \in Wakeups : Settle(e, n, In(u, "Retrying"), [rec EXCEPT !.wakeup = w])
      <4>1. PICK w \in Wakeups : Settle(e, n, In(u, "Retrying"), [rec EXCEPT !.wakeup = w])
        BY Zenon, <3>4
      <4> DEFINE new == [rec EXCEPT !.wakeup = w]
      <4>2. new \in Record /\ Alike(new, rec) /\ Keeps(new, rec)
        BY ZenonT(60), <3>1 DEF Record, Alike, Keeps
      <4> HIDE DEF new
      <4>3. ASSUME owned_attempt(e, n), task' = [task EXCEPT ![e] = In(u, "Retrying")] PROVE Fits(r, new)
        <5>1. /\ task[e].state # "Uncertain" /\ task'[e].state # "Uncertain"
              /\ \A f \in TasksOf(r) : f = e \/ task'[f] = task[f]
          BY Zenon, <3>3, <4>3
        <5>2. new.state = run[r].state /\ new.reason = run[r].reason /\ new.audit = run[r].audit
          BY Zenon, <4>2 DEF Alike, Keeps
        <5>3. QED
          BY Zenon, <3>1, <5>1, <5>2, <1>SameFits
      <4>4. QED
        BY Zenon, <3>2, <4>1, <4>2, <4>3, <2>SettleHost DEF new
    <3>5. CASE Settle(e, n, In(u, "Uncertain"), Suspended(rec, "OutcomeUnknown"))
      <4> DEFINE new == Suspended(rec, "OutcomeUnknown")
      <4>1. new \in Record /\ new.state = "OutcomeUnknown" /\ Keeps(new, rec)
        BY Zenon, <3>1, SuspendedRecord, <1>KeepsAll, "OutcomeUnknown" \in RunStates DEF RunStates
      <4>2. Settle(e, n, In(u, "Uncertain"), new)
        BY Zenon, <3>5
      <4> HIDE DEF new
      <4>3. new.audit >= rec.audit
        BY Zenon, <3>1, <4>1, <1>KeepsLinks
      <4>4. owned_attempt(e, n) /\ task' = [task EXCEPT ![e] = In(u, "Uncertain")] => Fits(r, new)
        BY Zenon, <3>1, <3>3, <4>1, <4>3 DEF Fits, StateMove
      <4>5. QED
        BY Zenon, <3>2, <4>1, <4>2, <4>4, <2>SettleHost
    <3>6. CASE Settle(e, n, In(u, "Ready"), mark_retry_exhausted(r, rec, [task EXCEPT ![e] = In(u, "Ready")]))
      <4> DEFINE tasks == [task EXCEPT ![e] = In(u, "Ready")]
                 new == mark_retry_exhausted(r, rec, tasks)
      <4>1. /\ new \in Record /\ new.reason = "RetryExhausted" /\ Keeps(new, rec)
            /\ new.state = IF has_unresolved_effect(r, tasks) THEN "OutcomeUnknown" ELSE "Failed"
        BY Zenon, <3>1, ExhaustedRecord, <1>KeepsAll
      <4>2. Settle(e, n, In(u, "Ready"), new)
        BY Zenon, <3>6
      <4> HIDE DEF new
      <4>3. new.audit >= rec.audit
        BY Zenon, <3>1, <4>1, <1>KeepsLinks
      <4>4. ASSUME owned_attempt(e, n), task' = tasks PROVE Fits(r, new)
        <5>1. \A f \in TasksOf(r) : task'[f].state = "Uncertain" => new.state = "OutcomeUnknown"
          BY Zenon, <4>1, <4>4 DEF has_unresolved_effect
        <5>2. rec.state \in Drivable \cup {"OutcomeUnknown"} \/ Exhausted(rec)
          BY Zenon, <3>3, <4>4
        <5> HIDE DEF tasks
        <5>3. new.state \in {"OutcomeUnknown", "Failed"}
          BY Zenon, <4>1
        <5>4. QED
          BY Zenon, <4>1, <4>3, <5>1, <5>2, <5>3 DEF Fits, StateMove
      <4>5. QED
        BY Zenon, <3>2, <4>1, <4>2, <4>4, <2>SettleHost
    <3>7. QED
      BY Zenon, <3>4, <3>5, <3>6 DEF fail, u, Wakeups
  <2> SUFFICES ASSUME NEW e \in Effects, NEW n, ResultStep(e, n) PROVE HostStep
    BY Zenon
  <2>1. QED
    BY Zenon, <2>CompleteHost, <2>FailHost DEF ResultStep
<1>ReconcileHost.
  ASSUME IInv, RunsInv, NEW e \in Effects, NEW n, NEW observed \in BOOLEAN, reconcile(e, n, observed)
  PROVE  HostStep
  <2> USE <1>ReconcileHost
  <2> DEFINE r     == e[1]
             s     == IF observed THEN "Done" ELSE "Ready"
             t     == In(RecoveredTask(e), s)
             tasks == [RecoveredTasks(r) EXCEPT ![e] = t]
             state == CASE has_unresolved_effect(r, tasks) -> "OutcomeUnknown"
                        [] ~has_unresolved_effect(r, tasks) /\ run[r].reason = "RetryExhausted" -> "Failed"
                        [] OTHER -> "Running"
             wake  == IF state = "Failed" THEN None ELSE "now"
             rec   == [run[r] EXCEPT !.state = state, !.audit = run[r].audit + 1, !.wakeup = wake]
  <2>1. run[r].state = "OutcomeUnknown" /\ task' = tasks /\ Commit(Write(r, rec), {})
    BY Zenon DEF reconcile, MayReconcile, Save
  <2>2. r \in Runs /\ run[r] \in Record
    BY Zenon, EffectRun, RunTyped
  <2>3. run[r].audit \in Nat
    BY ZenonT(60), <2>2 DEF Record
  <2>4. run[r].audit + 1 \in Nat /\ run[r].audit + 1 >= run[r].audit /\ run[r].audit + 1 > 0
    BY <2>3
  <2>5. /\ state \in {"OutcomeUnknown", "Failed", "Running"}
        /\ has_unresolved_effect(r, tasks) => state = "OutcomeUnknown"
    BY Zenon
  <2>6. state \in RunStates /\ wake \in Wakeups \cup {None}
    BY Zenon, <2>5 DEF RunStates, Wakeups
  <2>7. /\ RecoveredTasks(r) \in [Effects -> Task]
        /\ \A f \in Effects : f[1] # r => RecoveredTasks(r)[f] = task[f]
    BY Zenon, <2>2, RecoveredTasksAre
  <2>8. \A f \in Effects : f[1] # r => tasks[f] = task[f]
    BY Zenon, <2>7
  <2>9. \A f \in TasksOf(r) : task'[f].state = "Uncertain" => state = "OutcomeUnknown"
    BY Zenon, <2>1, <2>5 DEF has_unresolved_effect
  <2> HIDE DEF state, wake, tasks
  <2>10. /\ rec \in Record /\ rec.state = state /\ rec.audit = run[r].audit + 1
         /\ rec.children = run[r].children /\ rec.next = run[r].next
    BY ZenonT(60), <2>2, <2>4, <2>6 DEF Record
  <2> HIDE DEF rec
  <2>11. LinksOf(rec) = LinksOf(run[r]) /\ rec.audit >= run[r].audit /\ rec.audit > 0
    BY Zenon, <2>4, <2>10 DEF LinksOf
  <2>12. Fits(r, rec)
    BY Zenon, <2>1, <2>5, <2>9, <2>10, <2>11 DEF Fits, StateMove
  <2>13. QED
    BY Zenon, <2>1, <2>2, <2>8, <2>10, <2>11, <2>12, <1>OneStep
(* Every step of the daemon.                                               *)
<1>Steps. ASSUME ~Embedded, IInv, HostInv, Next PROVE HostStep
  <2> USE <1>Steps
  <2>1. RunsInv /\ WalkFenced /\ Prepared
    BY Zenon DEF HostInv, MemoryInv
  <2>2. CASE open \/ cancel_descend \/ cancel_finish
    BY Zenon, <2>1, <2>2, <1>StillStep, <1>CancelDescendHost, <1>CancelFinishHost DEF open
  <2>3. CASE \E r \in Runs : start(r) \/ signal(r) \/ resume(r) \/ reconcile_refused(r)
    BY Zenon, <2>1, <2>3, <1>StartHost, <1>SignalHost, <1>ResumeHost, <1>ReconcileRefusedHost
  <2>4. CASE \E r \in Runs : cancel(r)
    BY Zenon, <2>1, <2>4, <1>CancelRequestHost DEF cancel
  <2>5. CASE \E r \in Runs : DriveStep(r) \/ TurnStep(r)
    BY Zenon, <2>1, <2>5, <1>DriveStepHost, <1>TurnHost
  <2>6. CASE \E e \in Effects : \E n : PrepareStep(e, n) \/ ResultStep(e, n)
    BY Zenon, <2>1, <2>6, <1>PrepareHost, <1>ResultHost
  <2>7. CASE \E e \in Effects : \E n : \E observed \in BOOLEAN : reconcile(e, n, observed)
    BY Zenon, <2>1, <2>7, <1>ReconcileHost
  <2>8. QED
    BY Zenon, <2>2, <2>3, <2>4, <2>5, <2>6, <2>7 DEF Next
<1> QED
  BY Zenon, <1>Steps, <1>StillStep DEF vars, HostInv

----------------------------------------------------------------------------
(* What the host thread has in memory.                                     *)

(* What the proofs take from the library of finite sets; it is proved      *)
(* before the theorems (LibraryFacts).                                     *)
Library ==
    /\ IsFiniteSet({}) /\ Cardinality({}) = 0
    /\ \A S : IsFiniteSet(S) => Cardinality(S) \in Nat
    /\ \A S, x : IsFiniteSet(S) =>
         /\ IsFiniteSet(S \cup {x})
         /\ Cardinality(S \cup {x}) \in {Cardinality(S), Cardinality(S) + 1}
    /\ \A S : IsFiniteSet(S) => \A T \in SUBSET S : IsFiniteSet(T) /\ Cardinality(T) <= Cardinality(S)

(* The host thread's memory agrees with the runs and the tasks after every step. *)
LEMMA StepMemory == ASSUME Library, ~Embedded, IInv, MemoryInv, [Next]_vars PROVE MemoryInv'
(* An attempt waits to start only from its dispatch on. *)
<1>EffectAttempt.
  ASSUME NEW e \in Effects, EffectStep(e)
  PROVE  \/ task'[e].attempt = task[e].attempt /\ (task'[e].state = "InFlight" => task[e].state = "InFlight")
         \/ task'[e].attempt = task[e].attempt + 1
  BY Zenon, <1>EffectAttempt DEF EffectStep, Life!Next, Life!vars, Life!create, Life!dispatch, Life!invoke,
         Life!settle, Life!doubt, Life!repeat, Life!elapse, Life!disprove, Life!Move, Life!Live
<1>StartedKept.
  ASSUME IInv, Good, Started, threads' \subseteq threads
  PROVE  Started'
  <2> USE <1>StartedKept
  <2>1. ASSUME NEW d \in threads
        PROVE  d[2] <= task'[d[1]].attempt /\ (d[2] = task'[d[1]].attempt => task'[d[1]].state # "InFlight")
    <3>1. d[1] \in Effects /\ d[2] \in Nat
      BY DEF IInv, TypeOK
    <3>2. PICK e \in Effects, n \in Nat : e = d[1] /\ n = d[2]
      BY Zenon, <3>1
    <3>3. task[e].attempt \in Nat
      BY Zenon, TaskTyped DEF Task
    <3>4. n <= task[e].attempt /\ (n = task[e].attempt => task[e].state # "InFlight")
      BY Zenon, <3>2 DEF Started
    <3>5. \/ task'[e].attempt = task[e].attempt /\ (task'[e].state = "InFlight" => task[e].state = "InFlight")
          \/ task'[e].attempt = task[e].attempt + 1
      BY Zenon, <1>EffectAttempt DEF Good
    <3>6. n <= task'[e].attempt /\ (n = task'[e].attempt => task'[e].state # "InFlight")
      BY <3>2, <3>3, <3>4, <3>5
    <3>7. QED
      BY Zenon, <3>2, <3>6
  <2>2. QED
    BY Zenon, <2>1 DEF Started
(* The stack of the walk is left alone, or emptied. *)
<1>WalkKept.
  ASSUME IInv, Good, WalkFenced, stack' = stack
  PROVE  WalkFenced'
  <2> USE <1>WalkKept
  <2>1. stack \in Seq(Runs)
    BY Zenon DEF IInv, TypeOK
  <2>2. \A i \in DOMAIN stack : stack[i] \in Runs
    BY <2>1
  <2>3. QED
    BY Zenon, <2>2 DEF WalkFenced, Good, FenceStep
<1>NextMemory.
  ASSUME ~Embedded, IInv, Good, MemoryInv, Next PROVE MemoryInv'
(* Neither slots nor handlers change. *)
  <2> USE <1>NextMemory
  <2>QuietStep.
    ASSUME IInv, Good, MemoryInv, UNCHANGED <<dispatched, threads>>, phase # "prepare", phase' # "prepare",
           WalkFenced'
    PROVE  MemoryInv'
    <3> USE <2>QuietStep
    <3>1. Started'
      BY Zenon, <1>StartedKept DEF MemoryInv
    <3>2. Slots'
      BY Zenon DEF MemoryInv, Slots
    <3>3. QED
      BY Zenon, <3>1, <3>2 DEF MemoryInv, Prepared
  <2>OpenMemory. ASSUME IInv, Good, MemoryInv, open PROVE MemoryInv'
    <3> USE <2>OpenMemory
    <3>1. stack' = <<>> /\ threads' = {} /\ dispatched' = {} /\ phase' = "idle"
      BY Zenon DEF open
    <3>2. WalkFenced'
      BY <3>1 DEF WalkFenced
    <3>3. IsFiniteSet({}) /\ Cardinality({}) = 0
      BY Zenon DEF Library
    <3>4. 0 <= DispatchLimit
      BY ConstantsAssumption
    <3>5. Slots'
      BY Zenon, <3>1, <3>3, <3>4 DEF Slots
    <3>6. QED
      BY Zenon, <3>1, <3>2, <3>5 DEF MemoryInv, Prepared, Started
  <2>CancelRequestMemory.
    ASSUME IInv, Good, MemoryInv, NEW r \in Runs, phase # "prepare", cancel_request(r)
    PROVE  MemoryInv'
    <3> USE <2>CancelRequestMemory
    <3> DEFINE rec == [run[r] EXCEPT !.state = "CancelRequested", !.wakeup = "now"]
    <3>1. stack \in Seq(Runs) /\ stack' = Append(stack, r)
      BY Zenon DEF IInv, TypeOK, cancel_request
    <3>2. run'[r].state = "CancelRequested"
      <4>1. rec \in Record /\ rec.state = "CancelRequested"
        BY ZenonT(60), RunTyped DEF Record, Wakeups, RunStates
      <4>2. Save(r, rec)
        BY Zenon DEF cancel_request
      <4> HIDE DEF rec
      <4>3. QED
        BY Zenon, <4>1, <4>2, SaveRuns, IInvParts DEF RunsOK
    <3>3. \A i \in DOMAIN Append(stack, r) : Append(stack, r)[i] = r \/ (i \in DOMAIN stack /\ Append(stack, r)[i] = stack[i])
      BY <3>1
    <3>4. \A i \in DOMAIN stack : stack[i] \in Runs
      BY <3>1
    <3>5. \A i \in DOMAIN stack : run'[stack[i]].state \in Fence
      BY Zenon, <3>4 DEF MemoryInv, WalkFenced, Good, FenceStep
    <3>6. WalkFenced'
      BY Zenon, <3>1, <3>2, <3>3, <3>5 DEF WalkFenced, Fence
    <3>7. QED
      BY Zenon, <3>6, <2>QuietStep DEF cancel_request
  <2>CancelFinishMemory. ASSUME IInv, Good, MemoryInv, cancel_finish PROVE MemoryInv'
    <3> USE <2>CancelFinishMemory
    <3>1. stack \in Seq(Runs) /\ stack' = SubSeq(stack, 1, Len(stack) - 1) /\ Len(stack) \in Nat \ {0}
      BY Zenon, TopRun DEF IInv, TypeOK, cancel_finish
    <3>2. \A i \in DOMAIN SubSeq(stack, 1, Len(stack) - 1) :
             i \in DOMAIN stack /\ SubSeq(stack, 1, Len(stack) - 1)[i] = stack[i]
      BY <3>1
    <3>3. \A i \in DOMAIN stack : stack[i] \in Runs
      BY <3>1
    <3>4. \A i \in DOMAIN stack : run'[stack[i]].state \in Fence
      BY Zenon, <3>3 DEF MemoryInv, WalkFenced, Good, FenceStep
    <3>5. WalkFenced'
      BY Zenon, <3>1, <3>2, <3>4 DEF WalkFenced
    <3>6. QED
      BY Zenon, <3>5, <2>QuietStep DEF cancel_finish
  (* A handler that executes is not waiting to start, so that drive gives    *)
  (* back no slot of an executing handler.                                   *)
  <2>NoneUnstarted.
    ASSUME IInv, MemoryInv, phase # "prepare", NEW r
    PROVE  Unstarted(r) = {}
    BY Zenon, <2>NoneUnstarted DEF MemoryInv, Slots, Started, Unstarted
  (* A dispatch leaves the run running and the attempt in flight. *)
  <2>DispatchedRun.
    ASSUME IInv, NEW r \in Runs, NEW e \in TasksOf(r), drive_dispatch(r, e)
    PROVE  /\ run'[r].state = "Running"
           /\ task'[e].state = "InFlight" /\ task'[e].attempt = Candidate(e).attempt + 1
    <3> USE <2>DispatchedRun
    <3> DEFINE n == Candidate(e).attempt + 1
               t == [Candidate(e) EXCEPT !.state = "InFlight", !.attempt = n, !.owner = epoch]
               wake == IF ReadyTasks(r) # {e} THEN "now" ELSE WaitWakeup(r)
               rec == [Pending(r) EXCEPT !.wakeup = wake]
    <3>1. /\ InLoop(r) /\ Ongoing(r) /\ FirstReady(r, e)
          /\ task' = [Evaluated(r) EXCEPT ![e] = t] /\ Save(r, rec)
      BY Zenon, DispatchesIs DEF drive_dispatch, Save
    <3>2. e \in Effects /\ Candidate(e) \in Task /\ Evaluated(r) \in [Effects -> Task]
      BY Zenon, <3>1, CandidateIs, EvaluatedIs, LoopRun
    <3>3. t.state = "InFlight" /\ t.attempt = n
      BY Zenon, <3>2 DEF Task
    <3>4. wake \in Wakeups \cup {None}
      BY Zenon, WaitWakeupType DEF Wakeups
    <3> HIDE DEF t, wake
    <3>5. rec \in Record /\ rec.state = "Running"
      BY Zenon, <3>4, PendingRecord, WokenRecord
    <3> HIDE DEF rec
    <3>6. RunsOK
      BY Zenon, IInvParts
    <3>7. run'[r].state = rec.state
      BY Zenon, <3>1, <3>5, <3>6, SaveRuns DEF RunsOK
    <3>8. task'[e] = t
      BY Zenon, <3>1, <3>2
    <3>9. QED
      BY Zenon, <3>3, <3>5, <3>7, <3>8
  <2>DispatchMemory.
    ASSUME ~Embedded, IInv, Good, MemoryInv, NEW r \in Runs, NEW e \in TasksOf(r), drive_dispatch(r, e)
    PROVE  MemoryInv'
    <3> USE <2>DispatchMemory
    <3> DEFINE n == Candidate(e).attempt + 1
    <3>1. /\ phase = "drive" /\ ~Full /\ UNCHANGED <<threads, stack>>
          /\ dispatched' = dispatched \cup {<<e, n>>} /\ phase' = "prepare" /\ driven' = e
      BY Zenon DEF drive_dispatch, Dispatches, Evaluates, Turn, InLoop
    <3>2. /\ run'[r].state = "Running" /\ task'[e].state = "InFlight" /\ task'[e].attempt = n
      BY Zenon, <2>DispatchedRun
    <3>3. e \in Effects /\ e[1] = r
      BY Zenon DEF TasksOf
    <3> HIDE DEF n
    <3>4. dispatched = threads /\ IsFiniteSet(dispatched) /\ Cardinality(dispatched) \in Nat
      BY Zenon, <3>1 DEF Library, MemoryInv, Slots
    <3>5. DispatchLimit \in Nat
      BY ConstantsAssumption
    <3>6. Cardinality(dispatched) + 1 <= DispatchLimit
      BY <3>1, <3>4, <3>5 DEF Full
    <3>7. /\ IsFiniteSet(dispatched \cup {<<e, n>>})
          /\ Cardinality(dispatched \cup {<<e, n>>}) \in {Cardinality(dispatched), Cardinality(dispatched) + 1}
      BY Zenon, <3>4 DEF Library
    <3>8. Cardinality(dispatched \cup {<<e, n>>}) <= DispatchLimit
      BY <3>4, <3>5, <3>6, <3>7
    <3>9. Slots'
      BY Zenon, <3>1, <3>2, <3>4, <3>7, <3>8 DEF Slots
    <3>10. Prepared'
      BY Zenon, <3>1, <3>2, <3>3 DEF Prepared
    <3>11. WalkFenced' /\ Started'
      BY Zenon, <3>1, <1>WalkKept, <1>StartedKept DEF MemoryInv
    <3>12. QED
      BY Zenon, <3>9, <3>10, <3>11 DEF MemoryInv
  <2>TurnMemory. ASSUME ~Embedded, IInv, Good, MemoryInv, NEW r \in Runs, TurnStep(r) PROVE MemoryInv'
    <3> USE <2>TurnMemory
    <3>1. phase = "drive" /\ driven = r
      BY Zenon DEF TurnStep, drive_value, drive_progressed, drive_return, drive_propagate, drive_cancel,
            drive_continue, drive_refused, drive_fault, drive_wait, drive_park, drive_unimplemented,
            drive_exhausted, drive_dispatch, drive_spent, Dispatches, Evaluates, Turn, InLoop
    <3>2. CASE \E e \in TasksOf(r) : drive_dispatch(r, e)
      BY Zenon, <3>2, <2>DispatchMemory
    <3>3. CASE drive_cancel(r)
      BY Zenon, <3>1, <3>3, <2>CancelRequestMemory DEF drive_cancel
    <3>4. CASE drive_value(r)
      <4>1. UNCHANGED <<dispatched, threads, phase, stack>>
        BY Zenon, <3>4 DEF drive_value
      <4>2. QED
        BY Zenon, <3>1, <4>1, <1>WalkKept, <2>QuietStep DEF MemoryInv
    <3>5. CASE \/ drive_progressed(r) \/ drive_return(r) \/ drive_propagate(r) \/ drive_continue(r)
               \/ drive_refused(r) \/ drive_wait(r) \/ drive_park(r) \/ drive_unimplemented(r)
               \/ \E e \in TasksOf(r) : drive_exhausted(r, e) \/ drive_spent(r, e)
               \/ \E fault \in {"nondeterminism", "panic", "malformed"} : drive_fault(r, fault)
      <4>1. BackToIdle /\ (UNCHANGED dispatched \/ dispatched' = dispatched \ Unstarted(r))
        BY Zenon, <3>5 DEF drive_progressed, drive_return, drive_propagate, drive_continue, drive_refused,
              drive_wait, drive_park, drive_unimplemented, drive_exhausted, drive_spent, drive_fault, drive_error
      <4>2. Unstarted(r) = {}
        BY Zenon, <3>1, <2>NoneUnstarted
      <4>3. UNCHANGED dispatched
        BY Zenon, <4>1, <4>2
      <4>4. QED
        BY Zenon, <3>1, <4>1, <4>3, <1>WalkKept, <2>QuietStep DEF MemoryInv, BackToIdle
    <3>6. QED
      BY Zenon, <3>2, <3>3, <3>4, <3>5 DEF TurnStep
  <2>IdleMemoryStep. ASSUME IInv, Good, MemoryInv, phase = "idle", UNCHANGED memory PROVE MemoryInv'
    <3> USE <2>IdleMemoryStep
    <3>1. UNCHANGED <<dispatched, threads, phase, stack>>
      BY Zenon DEF memory
    <3>2. QED
      BY Zenon, <3>1, <1>WalkKept, <2>QuietStep DEF MemoryInv
  <2>DriveMemory. ASSUME IInv, Good, MemoryInv, NEW r \in Runs, DriveStep(r) PROVE MemoryInv'
    <3> USE <2>DriveMemory
    <3>1. phase = "idle"
      BY Zenon DEF DriveStep, drive_cancelled, drive_stopped, drive_suspended, drive, MayDrive
    <3>2. CASE drive_cancelled(r)
      BY Zenon, <3>1, <3>2, <2>CancelRequestMemory DEF drive_cancelled
    <3>3. CASE drive_stopped(r) \/ \E state \in {"NeedsInput", "NeedsImplementation"} : drive_suspended(r, state)
      BY Zenon, <3>1, <3>3, <2>IdleMemoryStep DEF drive_stopped, drive_suspended
    <3>4. ASSUME NEW due, NEW over, NEW fired, drive(r, due, over, fired) PROVE MemoryInv'
      <4>1. UNCHANGED memory \/ enter_loop(r, fired)
        <5>1. CASE over # {}
          BY Zenon, <3>4, <5>1 DEF drive
        <5>2. CASE over = {} /\ due # {}
          BY Zenon, <3>4, <5>2 DEF drive
        <5>3. CASE over = {} /\ due = {} /\ Retrying(r, RecoveredTasks(r)) # {} /\ Driven(Recovered(r)).wakeup # "later"
          BY Zenon, <3>4, <5>3 DEF drive
        <5>4. CASE over = {} /\ due = {} /\ ~(Retrying(r, RecoveredTasks(r)) # {} /\ Driven(Recovered(r)).wakeup # "later")
          BY Zenon, <3>4, <5>4 DEF drive
        <5>5. QED
          BY Zenon, <5>1, <5>2, <5>3, <5>4
      <4>2. CASE enter_loop(r, fired)
        BY Zenon, <3>1, <4>2, <1>WalkKept, <2>QuietStep DEF MemoryInv, enter_loop
      <4>3. QED
        BY Zenon, <3>1, <4>1, <4>2, <2>IdleMemoryStep
    <3>5. QED
      BY Zenon, <3>2, <3>3, <3>4 DEF DriveStep
  <2>PrepareMemory. ASSUME ~Embedded, IInv, Good, MemoryInv, NEW e \in Effects, NEW n, PrepareStep(e, n) PROVE MemoryInv'
    <3> USE <2>PrepareMemory
    <3>1. phase = "prepare" /\ driven = e /\ n = task[e].attempt
      BY Zenon DEF PrepareStep, prepare_registered, prepare_unresolved, reject_dispatch, Prepares
    <3>2. /\ dispatched = threads \cup {<<e, n>>} /\ IsFiniteSet(dispatched)
          /\ Cardinality(dispatched) <= DispatchLimit /\ task[e].state = "InFlight"
      BY Zenon, <3>1 DEF MemoryInv, Slots, Prepared
    <3>3. CASE prepare_registered(e, n)
      <4>1. /\ threads' = threads \cup {<<e, n>>} /\ phase' = "idle" /\ UNCHANGED <<dispatched, stack>>
            /\ task' = [task EXCEPT ![e] = In(start_execution(task[e]), "Invoking")]
        BY Zenon, <3>3 DEF prepare_registered
      <4>2. Slots'
        BY Zenon, <3>2, <4>1 DEF Slots
      <4>3. Prepared' /\ WalkFenced'
        BY Zenon, <4>1, <1>WalkKept DEF Prepared, MemoryInv
      <4>4. task'[e].attempt = n /\ task'[e].state = "Invoking"
        <5>1. In(start_execution(task[e]), "Invoking").attempt = n /\ In(start_execution(task[e]), "Invoking").state = "Invoking"
          <6>1. "Invoking" \in TaskStates /\ task[e] \in Task
            BY Zenon, TaskTyped DEF TaskStates
          <6>2. start_execution(task[e]) \in Task /\ start_execution(task[e]).attempt = n
            BY Zenon, <3>1, <6>1, StartTask
          <6>3. QED
            BY Zenon, <6>1, <6>2, InTask
        <5>2. QED
          BY Zenon, <4>1, <5>1 DEF IInv, TypeOK
      <4>5. ASSUME NEW d \in threads'
            PROVE  d[2] <= task'[d[1]].attempt /\ (d[2] = task'[d[1]].attempt => task'[d[1]].state # "InFlight")
        <5>1. CASE d = <<e, n>>
          <6>1. n \in Nat
            BY Zenon, <3>1, TaskTyped DEF Task
          <6>2. QED
            BY <4>4, <5>1, <6>1
        <5>2. CASE d \in threads
          <6>1. d[1] \in Effects /\ d[2] \in Nat
            BY <5>2 DEF IInv, TypeOK
          <6>2. PICK f \in Effects, m \in Nat : f = d[1] /\ m = d[2]
            BY Zenon, <6>1
          <6>3. task[f].attempt \in Nat
            BY Zenon, TaskTyped DEF Task
          <6>4. m <= task[f].attempt /\ (m = task[f].attempt => task[f].state # "InFlight")
            BY Zenon, <5>2, <6>2 DEF MemoryInv, Started
          <6>5. \/ task'[f].attempt = task[f].attempt /\ (task'[f].state = "InFlight" => task[f].state = "InFlight")
                \/ task'[f].attempt = task[f].attempt + 1
            BY Zenon, <1>EffectAttempt DEF Good
          <6>6. m <= task'[f].attempt /\ (m = task'[f].attempt => task'[f].state # "InFlight")
            BY <6>2, <6>3, <6>4, <6>5
          <6>7. QED
            BY Zenon, <6>2, <6>6
        <5>3. QED
          BY Zenon, <4>1, <5>1, <5>2
      <4>6. QED
        BY Zenon, <4>2, <4>3, <4>5 DEF MemoryInv, Started
    <3>4. CASE \E rec : Refuse(e, n, rec)
      <4>1. /\ dispatched' = dispatched \ {<<e, n>>} /\ phase' = "idle" /\ UNCHANGED <<threads, stack>>
        BY Zenon, <3>4 DEF Refuse, release_dispatch, BackToIdle
      <4>2. <<e, n>> \notin threads
        <5>1. ASSUME <<e, n>> \in threads PROVE FALSE
          <6>1. PICK d \in threads : d = <<e, n>>
            BY Zenon, <5>1
          <6>2. d[1] = e /\ d[2] = n
            BY <6>1
          <6>3. QED
            BY Zenon, <3>1, <3>2, <6>2 DEF MemoryInv, Started
        <5>2. QED
          BY Zenon, <5>1
      <4>3. dispatched' = threads
        BY Zenon, <3>2, <4>1, <4>2
      <4>4. IsFiniteSet(dispatched') /\ Cardinality(dispatched') <= DispatchLimit
        <5>1. PICK S : S = dispatched'
          BY Zenon
        <5>2. S \in SUBSET dispatched
          BY Zenon, <4>1, <5>1
        <5>3. IsFiniteSet(S) /\ Cardinality(S) <= Cardinality(dispatched)
          BY Zenon, <3>2, <5>2 DEF Library
        <5>4. Cardinality(S) \in Nat /\ Cardinality(dispatched) \in Nat /\ DispatchLimit \in Nat
          BY <3>2, <5>3, ConstantsAssumption DEF Library
        <5>5. Cardinality(S) <= DispatchLimit
          BY <3>2, <5>3, <5>4
        <5>6. QED
          BY Zenon, <5>1, <5>3, <5>5
      <4>5. Slots'
        BY Zenon, <4>1, <4>3, <4>4 DEF Slots
      <4>6. Prepared' /\ WalkFenced' /\ Started'
        BY Zenon, <4>1, <1>WalkKept, <1>StartedKept DEF Prepared, MemoryInv
      <4>7. QED
        BY Zenon, <4>5, <4>6 DEF MemoryInv
    <3>5. QED
      BY Zenon, <3>3, <3>4 DEF PrepareStep, prepare_unresolved, reject_dispatch
  <2>ResultMemory. ASSUME IInv, Good, MemoryInv, NEW e \in Effects, NEW n, ResultStep(e, n) PROVE MemoryInv'
    <3> USE <2>ResultMemory
    <3>1. phase = "idle" /\ \E t, rec : Settle(e, n, t, rec)
      BY Zenon DEF ResultStep, complete, fail, Arrives
    <3>2. /\ dispatched' = dispatched \ {<<e, n>>} /\ threads' = threads \ {<<e, n>>}
          /\ UNCHANGED <<phase, stack>>
      BY Zenon, <3>1 DEF Settle, release_dispatch
    <3>3. dispatched = threads /\ IsFiniteSet(dispatched) /\ Cardinality(dispatched) <= DispatchLimit
      BY Zenon, <3>1 DEF MemoryInv, Slots
    <3>4. IsFiniteSet(dispatched') /\ Cardinality(dispatched') <= DispatchLimit
      <4>1. PICK S : S = dispatched'
        BY Zenon
      <4>2. S \in SUBSET dispatched
        BY Zenon, <3>2, <4>1
      <4>3. IsFiniteSet(S) /\ Cardinality(S) <= Cardinality(dispatched)
        BY Zenon, <3>3, <4>2 DEF Library
      <4>4. Cardinality(S) \in Nat /\ Cardinality(dispatched) \in Nat /\ DispatchLimit \in Nat
        <5>1. Cardinality(S) \in Nat /\ Cardinality(dispatched) \in Nat
          BY Zenon, <3>3, <4>3 DEF Library
        <5>2. DispatchLimit \in Nat
          BY ConstantsAssumption
        <5>3. QED
          BY Zenon, <5>1, <5>2
      <4>5. Cardinality(S) <= DispatchLimit
        BY <3>3, <4>3, <4>4
      <4>6. QED
        BY Zenon, <4>1, <4>3, <4>5
    <3>5. Slots'
      BY Zenon, <3>1, <3>2, <3>3, <3>4 DEF Slots
    <3>6. Prepared' /\ WalkFenced' /\ Started'
      BY Zenon, <3>1, <3>2, <1>WalkKept, <1>StartedKept DEF Prepared, MemoryInv
    <3>7. QED
      BY Zenon, <3>5, <3>6 DEF MemoryInv
  <2>1. CASE open \/ cancel_finish
    BY Zenon, <2>1, <2>OpenMemory, <2>CancelFinishMemory
  <2>2. CASE cancel_descend
    <3>1. \E r \in Runs : cancel_request(r) /\ phase = "cancel"
      BY Zenon, <2>2, TopRun, BelowRuns DEF cancel_descend
    <3>2. QED
      BY Zenon, <3>1, <2>CancelRequestMemory
  <2>3. CASE \E r \in Runs : start(r) \/ signal(r) \/ resume(r) \/ reconcile_refused(r)
    <3>1. phase = "idle" /\ UNCHANGED memory
      BY Zenon, <2>3 DEF start, signal, resume, reconcile_refused, MayReconcile
    <3>2. QED
      BY Zenon, <3>1, <2>IdleMemoryStep
  <2>4. CASE \E r \in Runs : cancel(r)
    BY Zenon, <2>4, <2>CancelRequestMemory DEF cancel
  <2>5. CASE \E r \in Runs : DriveStep(r) \/ TurnStep(r)
    BY Zenon, <2>5, <2>DriveMemory, <2>TurnMemory
  <2>6. CASE \E e \in Effects : \E n : PrepareStep(e, n) \/ ResultStep(e, n)
    BY Zenon, <2>6, <2>PrepareMemory, <2>ResultMemory
  <2>7. CASE \E e \in Effects : \E n : \E observed \in BOOLEAN : reconcile(e, n, observed)
    <3>1. phase = "idle" /\ UNCHANGED memory
      BY Zenon, <2>7 DEF reconcile, MayReconcile
    <3>2. QED
      BY Zenon, <3>1, <2>IdleMemoryStep
  <2>8. QED
    BY Zenon, <2>1, <2>2, <2>3, <2>4, <2>5, <2>6, <2>7 DEF Next
<1>1. Good
  BY Zenon, StepGood
<1>2. CASE UNCHANGED vars
  <2>1. UNCHANGED <<run, task>> /\ UNCHANGED <<dispatched, threads, phase, driven, stack>>
    BY Zenon, <1>2 DEF vars, memory
  <2>2. WalkFenced' /\ Started'
    BY Zenon, <1>1, <2>1, <1>WalkKept, <1>StartedKept DEF MemoryInv
  <2>3. Slots' /\ Prepared'
    BY Zenon, <2>1 DEF MemoryInv, Slots, Prepared
  <2>4. QED
    BY Zenon, <2>2, <2>3 DEF MemoryInv
<1>3. QED
  BY Zenon, <1>1, <1>2, <1>NextMemory

(* The invariant holds in the beginning, ... *)
LEMMA InitHost == ASSUME Library, Init PROVE HostInv
<1>1. new_run(None) \in Record
  BY Zenon, NewRecord
<1> DEFINE rec == [new_run(None) EXCEPT !.state = "Absent", !.wakeup = None]
<1>2. rec.state = "Absent" /\ rec.children = new_run(None).children /\ rec.next = new_run(None).next
  BY ZenonT(60), <1>1 DEF Record
<1>3. \A r \in Runs : run[r] = rec
  BY Zenon DEF Init
<1> HIDE DEF rec
<1>4. rec.children = <<>> /\ rec.next = None
  BY Zenon, <1>2 DEF new_run
<1>5. LinksOf(rec) = {}
  BY <1>4 DEF LinksOf
<1>6. NoTask.state = "Absent"
  BY Zenon DEF NoTask
<1>7. UncertainIsReported
  BY Zenon, <1>6 DEF Init, UncertainIsReported
<1>8. DoubtInv /\ LinksExist /\ CancelCoversTree
  BY Zenon, <1>2, <1>3, <1>5 DEF DoubtInv, LinksExist, CancelCoversTree
<1>9. stack = <<>> /\ threads = {} /\ dispatched = {} /\ phase = "idle"
  BY Zenon DEF Init
<1>10. WalkFenced
  BY <1>9 DEF WalkFenced
<1>11. IsFiniteSet({}) /\ Cardinality({}) = 0
  BY Zenon DEF Library
<1>12. 0 <= DispatchLimit
  BY ConstantsAssumption
<1>13. Slots /\ Prepared /\ Started
  BY Zenon, <1>9, <1>11, <1>12 DEF Slots, Prepared, Started
<1>14. QED
  BY Zenon, <1>7, <1>8, <1>10, <1>13 DEF HostInv, MemoryInv, RunsInv

(* ... and every step of the daemon keeps it. *)
LEMMA StepHost ==
  ASSUME Library, ~Embedded, IInv, HostInv, [Next]_vars PROVE HostStep /\ HostInv'
<1>1. MemoryInv'
  BY Zenon, StepMemory DEF HostInv
<1>2. HostStep
  BY Zenon, NextHost
<1>3. RunsInv'
  BY Zenon, <1>2, StepGood, HostStepRuns DEF HostInv
<1>4. QED
  BY Zenon, <1>1, <1>2, <1>3 DEF HostInv

----------------------------------------------------------------------------
(* The facts of the library, and what follows for every behaviour.         *)

INSTANCE FiniteSetTheorems

(* What was taken from the library is true. *)
LEMMA LibraryFacts == Library
<1>1. IsFiniteSet({}) /\ Cardinality({}) = 0
  BY Zenon, FS_EmptySet
<1>2. ASSUME NEW S, IsFiniteSet(S) PROVE Cardinality(S) \in Nat
  BY Zenon, <1>2, FS_CardinalityType
<1>3. ASSUME NEW S, NEW x, IsFiniteSet(S)
      PROVE  /\ IsFiniteSet(S \cup {x})
             /\ Cardinality(S \cup {x}) \in {Cardinality(S), Cardinality(S) + 1}
  BY Zenon, <1>3, FS_AddElement
<1>4. ASSUME NEW S, IsFiniteSet(S), NEW T \in SUBSET S
      PROVE  IsFiniteSet(T) /\ Cardinality(T) <= Cardinality(S)
  BY Zenon, <1>4, FS_Subset
<1>5. QED
  BY Zenon, <1>1, <1>2, <1>3, <1>4 DEF Library

(* So it always holds under the daemon. *)
LEMMA HostInductive == ASSUME ~Embedded PROVE Spec => []HostInv /\ [][HostStep]_vars
<1>1. Init => HostInv
  BY Zenon, LibraryFacts, InitHost
<1>2. IInv /\ HostInv /\ [Next]_vars => HostInv' /\ HostStep
  BY Zenon, LibraryFacts, StepHost
<1>3. QED
  BY <1>1, <1>2, Inductive, PTL DEF Spec

(* Under the daemon an uncertain effect is always reported: recover, fail  *)
(* and mark_retry_exhausted leave its run OutcomeUnknown, and nothing but  *)
(* a reconciliation of all its uncertain effects moves the run on.         *)
THEOREM UncertaintyIsReported == ASSUME ~Embedded PROVE Spec => []UncertainIsReported
<1>1. HostInv => UncertainIsReported
  BY Zenon DEF HostInv, RunsInv
<1>2. QED
  BY <1>1, HostInductive, PTL

(* Under the daemon the slots of dispatch_limit are, between calls, those  *)
(* of the executing handlers, and there are never more handlers than       *)
(* slots: release_dispatch neither loses a slot nor gives one back twice.  *)
THEOREM SlotsAreOfHandlers == ASSUME ~Embedded PROVE Spec => []SlotsAreHandlers
<1>1. HostInv => SlotsAreHandlers
  <2>1. SUFFICES ASSUME HostInv PROVE SlotsAreHandlers
    BY Zenon
  <2>2. IsFiniteSet(dispatched) /\ Cardinality(dispatched) <= DispatchLimit /\ threads \in SUBSET dispatched
    BY Zenon, <2>1 DEF HostInv, MemoryInv, Slots
  <2>3. IsFiniteSet(threads) /\ Cardinality(threads) <= Cardinality(dispatched)
    BY Zenon, <2>2, LibraryFacts DEF Library
  <2>4. Cardinality(threads) \in Nat /\ Cardinality(dispatched) \in Nat /\ DispatchLimit \in Nat
    <3>1. Cardinality(threads) \in Nat /\ Cardinality(dispatched) \in Nat
      BY Zenon, <2>2, <2>3, LibraryFacts DEF Library
    <3>2. DispatchLimit \in Nat
      BY ConstantsAssumption
    <3>3. QED
      BY Zenon, <3>1, <3>2
  <2>5. Cardinality(threads) <= DispatchLimit
    BY <2>2, <2>3, <2>4
  <2>6. phase = "idle" => dispatched = threads
    BY Zenon, <2>1 DEF HostInv, MemoryInv, Slots
  <2>7. QED
    BY Zenon, <2>5, <2>6 DEF SlotsAreHandlers
<1>2. QED
  BY <1>1, HostInductive, PTL

(* Under the daemon a run is Cancelled only once the walk of cancel has    *)
(* found every child and successor settled, and they stay so, unless an    *)
(* operator reconciles one; crashes in the middle of the walk included.    *)
THEOREM CancellationCoversTree == ASSUME ~Embedded PROVE Spec => []CancelCoversTree
<1>1. HostInv => CancelCoversTree
  BY Zenon DEF HostInv, RunsInv
<1>2. QED
  BY <1>1, HostInductive, PTL

(* Under the daemon the end of a run is final, against drives, late        *)
(* results, reconciliations, resume, cancel and runs that derive its id.   *)
THEOREM EndsAreFinal == ASSUME ~Embedded PROVE Spec => EndIsFinal
<1>1. [HostStep]_vars =>
        [\A r \in Runs :
         /\ run[r].state \in Ended /\ ~Exhausted(run[r]) => run'[r].state = run[r].state
         /\ Exhausted(run[r]) => run'[r].state \in {"Failed", "OutcomeUnknown"}
         /\ run[r].state = "ContinuedAsNew" =>
              run'[r].state \in {"ContinuedAsNew", "CancelRequested"}]_vars
  BY Zenon DEF HostStep, StateMove, Ended, Exhausted, Drivable, Fence
<1>2. QED
  BY <1>1, HostInductive, PTL DEF EndIsFinal

============================================================================
