---------------------------- MODULE EngineProofs ----------------------------
(* Proofs about module Engine, for any workflows, bounds and hosts.        *)
EXTENDS Engine, TLAPS

(* Every effect belongs to a run. *)
LEMMA EffectRun == ASSUME NEW e \in Effects PROVE e[1] \in Runs
  BY DEF Effects

(* What the task transformers keep and set. *)
LEMMA InTask ==
  ASSUME NEW t \in Task, NEW s \in TaskStates
  PROVE  In(t, s) \in Task /\ In(t, s).state = s /\ In(t, s).attempt = t.attempt
  BY Zenon DEF In, Task

LEMMA InferTask ==
  ASSUME NEW t \in Task
  PROVE  /\ infer_prior_execution(t) \in Task
         /\ infer_prior_execution(t).state = t.state
         /\ infer_prior_execution(t).attempt = t.attempt
  BY Zenon DEF infer_prior_execution, Task

LEMMA StartTask ==
  ASSUME NEW t \in Task
  PROVE  /\ start_execution(t) \in Task
         /\ start_execution(t).state = t.state
         /\ start_execution(t).attempt = t.attempt
<1>1. CASE t.charged = t.attempt
  BY Zenon, <1>1 DEF start_execution, Task
<1>2. CASE t.charged # t.attempt
  <2>1. start_execution(t) = [state |-> t.state, attempt |-> t.attempt, owner |-> t.owner,
                              exec |-> t.exec + 1, charged |-> t.attempt, known |-> "unknown"]
    BY Zenon, <1>2 DEF start_execution, Task
  <2>2. QED
    BY <2>1 DEF Task
<1>3. QED
  BY Zenon, <1>1, <1>2

LEMMA MarkTask ==
  ASSUME NEW t \in Task
  PROVE  /\ mark_execution(t) \in Task
         /\ mark_execution(t).state = t.state
         /\ mark_execution(t).attempt = t.attempt
  BY Zenon, InferTask, StartTask DEF mark_execution

LEMMA UnexecutedTask ==
  ASSUME NEW t \in Task
  PROVE  /\ Unexecuted(t) \in Task
         /\ Unexecuted(t).state = "Ready"
         /\ Unexecuted(t).attempt = t.attempt
  BY Zenon DEF Unexecuted, Task, TaskStates

(* What the record transformers keep and set. *)
LEMMA DrivenRecord ==
  ASSUME NEW rec \in Record
  PROVE  Driven(rec) \in Record /\ Driven(rec).state = "Running"
  BY ZenonT(60) DEF Driven, Record, RunStates

LEMMA SuspendedRecord ==
  ASSUME NEW rec \in Record, NEW s \in RunStates
  PROVE  Suspended(rec, s) \in Record /\ Suspended(rec, s).state = s
  BY ZenonT(60) DEF Suspended, Record

LEMMA FailureState ==
  ASSUME NEW x \in Reasons
  PROVE  failure_state(x) \in {"Failed", "NeedsImplementation", "NeedsInput"}
  BY Zenon DEF failure_state, Reasons

LEMMA RejectedRecord ==
  ASSUME NEW rec \in Record, NEW x \in Reasons
  PROVE  Rejected(rec, x) \in Record /\ Rejected(rec, x).state = failure_state(x)
<1>1. failure_state(x) \in RunStates
  BY Zenon, FailureState DEF RunStates
<1>2. QED
  BY ZenonT(60), <1>1 DEF Rejected, Record

LEMMA ExhaustedRecord ==
  ASSUME NEW r, NEW rec \in Record, NEW tasks
  PROVE  /\ mark_retry_exhausted(r, rec, tasks) \in Record
         /\ mark_retry_exhausted(r, rec, tasks).state =
              IF has_unresolved_effect(r, tasks) THEN "OutcomeUnknown" ELSE "Failed"
<1> DEFINE st == IF has_unresolved_effect(r, tasks) THEN "OutcomeUnknown" ELSE "Failed"
<1>1. st \in RunStates
  BY Zenon DEF RunStates
<1>2. "RetryExhausted" \in Reasons
  BY Zenon DEF Reasons
<1>3. mark_retry_exhausted(r, rec, tasks) =
        [rec EXCEPT !.reason = "RetryExhausted", !.wakeup = None, !.state = st]
  BY Zenon DEF mark_retry_exhausted
<1> HIDE DEF st
<1>4. /\ mark_retry_exhausted(r, rec, tasks) \in Record
      /\ mark_retry_exhausted(r, rec, tasks).state = st
  BY ZenonT(60), <1>1, <1>2, <1>3 DEF Record
<1>5. QED
  BY Zenon, <1>4 DEF st

LEMMA NewRecord ==
  ASSUME NEW p \in Runs \cup {None}
  PROVE  new_run(p) \in Record /\ new_run(p).state = "Running" /\ new_run(p).wakeup = "now"
  BY DEF new_run, Record, RunStates, Wakeups

LEMMA WokenRecord ==
  ASSUME NEW rec \in Record, NEW w \in Wakeups \cup {None}
  PROVE  /\ [rec EXCEPT !.wakeup = w] \in Record
         /\ [rec EXCEPT !.wakeup = w].state = rec.state
         /\ [rec EXCEPT !.wakeup = w].reason = rec.reason
  BY ZenonT(60) DEF Record

(* A commit writes the given records, and otherwise changes no more than   *)
(* wakeups.                                                                *)
LEMMA CommitRuns ==
  ASSUME run \in [Runs -> Record], column \in [Runs -> Wakeups \cup {None}],
         NEW writes, DOMAIN writes \subseteq Runs,
         \A q \in DOMAIN writes : writes[q] \in Record,
         NEW woken, Commit(writes, woken)
  PROVE  /\ run' \in [Runs -> Record]
         /\ column' \in [Runs -> Wakeups \cup {None}]
         /\ \A q \in DOMAIN writes : run'[q].state = writes[q].state
         /\ \A q \in Runs \ DOMAIN writes : run'[q].state = run[q].state /\ run'[q].reason = run[q].reason
<1> DEFINE new  == [q \in Runs |-> IF q \in DOMAIN writes THEN writes[q] ELSE run[q]]
           wake == {q \in woken : new[q].state = "Running"}
           due  == {new[q].parent : q \in {w \in DOMAIN writes : writes[w].state \in Ended}}
<1>1. \A q \in Runs : new[q] \in Record
  BY Zenon
<1>2. run' = [q \in Runs |-> IF q \in wake THEN [new[q] EXCEPT !.wakeup = "now"] ELSE new[q]]
  BY Zenon DEF Commit
<1>3. column' = [q \in Runs |->
               IF q \in wake \/ (q \in due /\ Scheduled(new[q])) THEN "now"
               ELSE IF q \in DOMAIN writes THEN writes[q].wakeup ELSE column[q]]
  BY Zenon DEF Commit
<1> HIDE DEF wake, due
<1>4. \A q \in DOMAIN writes : writes[q].wakeup \in Wakeups \cup {None}
  BY ZenonT(60) DEF Record
<1>5. column' \in [Runs -> Wakeups \cup {None}]
  BY Zenon, <1>3, <1>4 DEF Wakeups
<1> HIDE DEF new
<1>6. \A q \in Runs : /\ [new[q] EXCEPT !.wakeup = "now"] \in Record
                      /\ [new[q] EXCEPT !.wakeup = "now"].state = new[q].state
                      /\ [new[q] EXCEPT !.wakeup = "now"].reason = new[q].reason
  BY Zenon, <1>1, WokenRecord, "now" \in Wakeups \cup {None} DEF Wakeups
<1>7. run' \in [Runs -> Record]
  BY Zenon, <1>1, <1>2, <1>6
<1>8. \A q \in Runs : run'[q].state = new[q].state /\ run'[q].reason = new[q].reason
  BY Zenon, <1>2, <1>6
<1>9. QED
  BY Zenon, <1>5, <1>7, <1>8 DEF new

LEMMA SaveRuns ==
  ASSUME run \in [Runs -> Record], column \in [Runs -> Wakeups \cup {None}],
         NEW r \in Runs, NEW rec \in Record, Save(r, rec)
  PROVE  /\ run' \in [Runs -> Record]
         /\ column' \in [Runs -> Wakeups \cup {None}]
         /\ run'[r].state = rec.state
         /\ \A q \in Runs \ {r} : run'[q].state = run[q].state /\ run'[q].reason = run[q].reason
  BY CommitRuns DEF Save, Write

----------------------------------------------------------------------------
(* The inductive invariant.                                                *)

(* At most the current attempt of an unsafe effect may have run, and none  *)
(* when the effect can be dispatched.                                      *)
UnsafeAttempts ==
    \A e \in Effects : Unsafe(e) =>
      /\ maybe[e] \subseteq {task[e].attempt}
      /\ task[e].state \in {"Absent", "Ready"} => maybe[e] = {}
      /\ task[e].state # "Retrying"

(* A task that does not exist has had no attempt. *)
AbsentTasks == \A e \in Effects : task[e].state = "Absent" => task[e].attempt = 0

(* The run in drive's loop is one that drive accepts: nothing else changes *)
(* it before the loop is left.                                             *)
LoopDrivable == phase = "drive" => driven \in Runs /\ run[driven].state \in Drivable

WalkBegun == phase = "cancel" => stack # <<>>

IInv == TypeOK /\ UnsafeAttempts /\ AbsentTasks /\ LoopDrivable /\ WalkBegun /\ UnknownHasCause

(* The parts of TypeOK that steps treat alike. *)
RunsOK == run \in [Runs -> Record] /\ column \in [Runs -> Wakeups \cup {None}]

EffectStep(e) == [Life(e)!Next]_(Life(e)!vars)

Fence == {"CancelRequested", "Cancelled"}

FenceStep ==
    \A r \in Runs : run[r].state \in Fence =>
      run'[r].state \in Fence /\ \A e \in TasksOf(r) : task'[e] = task[e]

(* What is left of TypeOK besides the runs and the tasks. *)
MemoryOK ==
    /\ epoch \in 1..MaxEpoch
    /\ dispatched \subseteq Effects \X Nat
    /\ parked \subseteq Runs
    /\ threads \subseteq Effects \X Nat
    /\ phase \in {"idle", "drive", "prepare", "cancel"}
    /\ driven \in Runs \cup Effects \cup {None}
    /\ loop \in Loop
    /\ stack \in Seq(Runs)
    /\ maybe \in [Effects -> SUBSET Nat]
    /\ invoked \in [Effects -> Nat]
    /\ WalkBegun

TasksOK == task \in [Effects -> Task]

(* What every step of the engine does. *)
Good ==
    /\ RunsOK' /\ TasksOK' /\ MemoryOK' /\ UnknownHasCause' /\ LoopDrivable'
    /\ FenceStep
    /\ \A e \in Effects : EffectStep(e)

LEMMA GoodKeepsIInv == ASSUME IInv, Good PROVE IInv'
(* A step of the protocol keeps what it promises about unsafe effects. *)
<1>EffectStepSafe.
  ASSUME UnsafeAttempts, \A e \in Effects : EffectStep(e)
  PROVE  UnsafeAttempts'
  <2> USE <1>EffectStepSafe
  <2> SUFFICES ASSUME NEW e \in Effects, Unsafe(e)
               PROVE  /\ maybe'[e] \subseteq {task'[e].attempt}
                      /\ task'[e].state \in {"Absent", "Ready"} => maybe'[e] = {}
                      /\ task'[e].state # "Retrying"
    BY Zenon DEF UnsafeAttempts, Unsafe
  <2>1. EffectStep(e)
    BY Zenon
  <2>2. QED
    BY Zenon, <2>1 DEF UnsafeAttempts, EffectStep, Life!Next, Life!vars, Life!create, Life!dispatch,
                Life!invoke, Life!settle, Life!doubt, Life!repeat, Life!elapse, Life!disprove,
                Life!Move, Life!Live
<1>EffectStepAbsent.
  ASSUME AbsentTasks, \A e \in Effects : EffectStep(e)
  PROVE  AbsentTasks'
  BY Zenon, <1>EffectStepAbsent DEF AbsentTasks, EffectStep, Life!Next, Life!vars, Life!create, Life!dispatch, Life!invoke,
         Life!settle, Life!doubt, Life!repeat, Life!elapse, Life!disprove, Life!Move, Life!Live
<1>1. UnsafeAttempts' /\ AbsentTasks'
  BY Zenon, <1>EffectStepSafe, <1>EffectStepAbsent DEF IInv, Good
<1>2. TypeOK'
  BY Zenon DEF Good, RunsOK, TasksOK, MemoryOK, TypeOK
<1>3. QED
  BY Zenon, <1>1, <1>2 DEF IInv, Good, MemoryOK

LEMMA IInvParts ==
  ASSUME IInv
  PROVE  RunsOK /\ TasksOK /\ MemoryOK /\ UnknownHasCause /\ LoopDrivable /\ AbsentTasks
  BY Zenon DEF IInv, TypeOK, RunsOK, TasksOK, MemoryOK

LEMMA RunTyped == ASSUME IInv, NEW r \in Runs PROVE run[r] \in Record
  BY Zenon DEF IInv, TypeOK

LEMMA TaskTyped == ASSUME IInv, NEW e \in Effects PROVE task[e] \in Task
  BY Zenon DEF IInv, TypeOK

----------------------------------------------------------------------------
(* What the operators of the engine give: recovery, evaluation, dispatch.  *)

(* Appending to a sequence and taking a part of it give sequences: the walk *)
(* of a cancellation and a run's children.                                 *)
LEMMA AppendSeq ==
  ASSUME NEW S, NEW seq \in Seq(S), NEW elt \in S
  PROVE  Append(seq, elt) \in Seq(S) /\ Append(seq, elt) # <<>>
<1>1. Append(seq, elt) \in Seq(S)
  OBVIOUS
<1>2. Len(Append(seq, elt)) = Len(seq) + 1 /\ Len(seq) \in Nat
  OBVIOUS
<1>3. QED
  BY <1>1, <1>2

LEMMA SubSeqSeq ==
  ASSUME NEW S, NEW seq, NEW m \in Int, NEW n \in Int, \A i \in m..n : seq[i] \in S
  PROVE  /\ SubSeq(seq, m, n) \in Seq(S)
         /\ Len(SubSeq(seq, m, n)) = IF m <= n THEN n - m + 1 ELSE 0
  OBVIOUS

(* The walk of a cancellation stays among the runs. *)
LEMMA BelowRuns ==
  ASSUME IInv, NEW r \in Runs, NEW i \in DOMAIN Below(r)
  PROVE  Below(r)[i] \in Runs
<1>1. run[r].children \in Seq(Runs) /\ run[r].next \in Runs \cup {None}
  BY ZenonT(60), RunTyped DEF Record
<1>2. Below(r) \in Seq(Runs)
  BY <1>1 DEF Below
<1>3. QED
  BY <1>2

LEMMA TopRun == ASSUME IInv, phase = "cancel" PROVE Top \in Runs /\ Len(stack) \in Nat \ {0}
<1>1. stack \in Seq(Runs) /\ stack # <<>>
  BY Zenon DEF IInv, TypeOK, WalkBegun
<1>2. QED
  BY <1>1 DEF Top

(* recover touches only interrupted attempts, and none of a fenced run.    *)
LEMMA RecoveredTaskIs ==
  ASSUME IInv, NEW e \in Effects
  PROVE  /\ RecoveredTask(e) \in Task
         /\ RecoveredTask(e).attempt = task[e].attempt
         /\ ~Interrupted(e) => RecoveredTask(e) = task[e]
         /\ Interrupted(e) => /\ task[e].state \in Live
                              /\ Unsafe(e) => RecoveredTask(e).state = "Uncertain"
                              /\ ~Unsafe(e) => RecoveredTask(e).state = "Ready"
<1>1. task[e] \in Task
  BY Zenon DEF IInv, TypeOK
<1>2. "Uncertain" \in TaskStates /\ "Ready" \in TaskStates
  BY Zenon DEF TaskStates
<1>3. CASE Interrupted(e) /\ Unsafe(e)
  <2>1. RecoveredTask(e) = In(task[e], "Uncertain")
    BY Zenon, <1>3 DEF RecoveredTask
  <2>2. task[e].state \in Live
    BY Zenon, <1>3 DEF Interrupted
  <2>3. QED
    BY <1>1, <1>2, <1>3, <2>1, <2>2, InTask
<1>4. CASE Interrupted(e) /\ ~Unsafe(e)
  <2>1. RecoveredTask(e) = In(task[e], "Ready")
    BY Zenon, <1>4 DEF RecoveredTask
  <2>2. task[e].state \in Live
    BY Zenon, <1>4 DEF Interrupted
  <2>3. QED
    BY <1>1, <1>2, <1>4, <2>1, <2>2, InTask
<1>5. CASE ~Interrupted(e)
  BY Zenon, <1>1, <1>5 DEF RecoveredTask
<1>6. QED
  BY Zenon, <1>3, <1>4, <1>5

LEMMA RecoveredTasksAre ==
  ASSUME IInv, NEW r \in Runs
  PROVE  /\ RecoveredTasks(r) \in [Effects -> Task]
         /\ \A e \in Effects : RecoveredTasks(r)[e] = IF e[1] = r THEN RecoveredTask(e) ELSE task[e]
         /\ \A e \in Effects : RecoveredTasks(r)[e].attempt = task[e].attempt
<1>1. \A e \in Effects : task[e] \in Task
  BY Zenon DEF IInv, TypeOK
<1>2. QED
  BY Zenon, <1>1, RecoveredTaskIs DEF RecoveredTasks

LEMMA RecoveredRecord ==
  ASSUME IInv, NEW r \in Runs
  PROVE  /\ Recovered(r) \in Record
         /\ Recovered(r).state \in {run[r].state, "OutcomeUnknown"}
         /\ Recovered(r).state = "OutcomeUnknown" => has_unresolved_effect(r, RecoveredTasks(r))
         /\ run[r].state \in Fence => ~HasInterrupted(r) /\ Recovered(r) = run[r]
         /\ ~HasInterrupted(r) => Recovered(r) = run[r] /\ RecoveredTasks(r) = task
<1>1. run[r] \in Record
  BY Zenon, RunTyped
<1> DEFINE doubt == \E e \in TasksOf(r) : Interrupted(e) /\ Unsafe(e)
           state == IF doubt THEN "OutcomeUnknown" ELSE run[r].state
           wake  == IF state = "Running" THEN "now" ELSE None
<1>2. state \in RunStates /\ wake \in Wakeups \cup {None} /\ state \in {run[r].state, "OutcomeUnknown"}
  BY ZenonT(60), <1>1 DEF Record, RunStates, Wakeups
<1>3. Recovered(r) = IF HasInterrupted(r) THEN [run[r] EXCEPT !.state = state, !.wakeup = wake]
                     ELSE run[r]
  BY Zenon DEF Recovered
<1>4. doubt => has_unresolved_effect(r, RecoveredTasks(r))
  BY Zenon, RecoveredTaskIs, RecoveredTasksAre DEF has_unresolved_effect, TasksOf
<1>5. run[r].state = "OutcomeUnknown" => has_unresolved_effect(r, RecoveredTasks(r))
  BY RecoveredTaskIs, RecoveredTasksAre, IInvParts
     DEF has_unresolved_effect, TasksOf, UnknownHasCause, Live
<1>6. state = "OutcomeUnknown" => doubt \/ run[r].state = "OutcomeUnknown"
  BY Zenon
<1>7. run[r].state \in Fence => ~HasInterrupted(r)
  BY Zenon DEF HasInterrupted, Interrupted, Exhausted, Fence, Inactive, TasksOf
<1>8. ~HasInterrupted(r) => RecoveredTasks(r) = task
  <2>1. ASSUME ~HasInterrupted(r), NEW e \in Effects
        PROVE  RecoveredTasks(r)[e] = task[e]
    BY <2>1, RecoveredTasksAre, RecoveredTaskIs DEF HasInterrupted, TasksOf
  <2>2. task \in [Effects -> Task] /\ RecoveredTasks(r) \in [Effects -> Task]
    BY Zenon, RecoveredTasksAre DEF IInv, TypeOK
  <2>3. QED
    BY <2>1, <2>2
<1> HIDE DEF state, wake, doubt
<1>9. /\ [run[r] EXCEPT !.state = state, !.wakeup = wake] \in Record
      /\ [run[r] EXCEPT !.state = state, !.wakeup = wake].state = state
  BY ZenonT(60), <1>1, <1>2 DEF Record
<1>10. QED
  BY Zenon, <1>1, <1>2, <1>3, <1>4, <1>5, <1>6, <1>7, <1>8, <1>9

LEMMA DrivableRecovered ==
  ASSUME IInv, NEW r \in Runs, Recovered(r).state \in Drivable
  PROVE  run[r].state \notin Fence /\ run[r].state \in Drivable
  BY Zenon, RecoveredRecord DEF Drivable, Fence

(* advance_retries turns only expired tasks ready. *)
LEMMA AdvancedIs ==
  ASSUME IInv, NEW r \in Runs, NEW due, NEW over, due \cup over \subseteq Retrying(r, RecoveredTasks(r))
  PROVE  /\ Advanced(r, due, over) \in [Effects -> Task]
         /\ \A e \in Effects :
              \/ Advanced(r, due, over)[e] = RecoveredTasks(r)[e]
              \/ /\ e[1] = r /\ task[e].state = "Retrying"
                 /\ Advanced(r, due, over)[e].state = "Ready"
                 /\ Advanced(r, due, over)[e].attempt = task[e].attempt
         /\ due \cup over = {} => Advanced(r, due, over) = RecoveredTasks(r)
<1> DEFINE stop  == IF over = {} THEN Len(Program[r]) + 1 ELSE Min({e[2] : e \in over})
           ready == {e \in due : e[2] < stop} \cup {e \in over : e[2] = stop}
<1>1. Advanced(r, due, over) = [e \in Effects |-> IF e \in ready THEN In(RecoveredTasks(r)[e], "Ready")
                                                  ELSE RecoveredTasks(r)[e]]
  BY Zenon DEF Advanced
<1>2. ready \subseteq Retrying(r, RecoveredTasks(r)) /\ (due \cup over = {} => ready = {})
  BY Zenon
<1> HIDE DEF ready
<1>3. \A e \in Effects : /\ RecoveredTasks(r)[e] \in Task
                         /\ RecoveredTasks(r)[e].attempt = task[e].attempt
                         /\ In(RecoveredTasks(r)[e], "Ready") \in Task
                         /\ In(RecoveredTasks(r)[e], "Ready").state = "Ready"
                         /\ In(RecoveredTasks(r)[e], "Ready").attempt = task[e].attempt
  BY RecoveredTasksAre, InTask, "Ready" \in TaskStates DEF TaskStates
<1>4. \A e \in ready : e \in Effects /\ e[1] = r /\ task[e].state = "Retrying"
  <2>1. ASSUME NEW e \in ready
        PROVE  e \in Effects /\ e[1] = r /\ task[e].state = "Retrying"
    <3>1. e \in Effects /\ e[1] = r /\ RecoveredTasks(r)[e].state = "Retrying"
      BY Zenon, <1>2 DEF Retrying, TasksOf
    <3>2. RecoveredTask(e).state = "Retrying"
      BY Zenon, <3>1, RecoveredTasksAre
    <3>3. QED
      BY Zenon, <3>1, <3>2, RecoveredTaskIs
  <2>2. QED
    BY Zenon, <2>1
<1>5. RecoveredTasks(r) \in [Effects -> Task]
  BY Zenon, RecoveredTasksAre
<1>6. QED
  BY Zenon, <1>1, <1>2, <1>3, <1>4, <1>5

LEMMA LoopRun ==
  ASSUME IInv, NEW r \in Runs, InLoop(r)
  PROVE  run[r].state \in Drivable /\ run[r].state \notin Fence /\ run[r].state # "OutcomeUnknown"
  BY Zenon DEF IInv, LoopDrivable, InLoop, Drivable, Fence

LEMMA EvaluatedIs ==
  ASSUME IInv, NEW r \in Runs, Ongoing(r)
  PROVE  /\ Evaluated(r) \in [Effects -> Task]
         /\ \A e \in Effects : e[1] # r => Evaluated(r)[e] = task[e]
         /\ \A e \in Effects :
              \/ Evaluated(r)[e] = task[e]
              \/ task[e].state = "Absent" /\ Evaluated(r)[e].state = "Ready"
         /\ \A e \in Effects : Evaluated(r)[e].attempt = task[e].attempt
<1> DEFINE e == <<r, run[r].pc + 1>>
           t == [NoTask EXCEPT !.state = "Ready", !.owner = epoch]
<1>1. task \in [Effects -> Task] /\ epoch \in Nat
  BY ConstantsAssumption DEF IInv, TypeOK
<1>2. t \in Task /\ t.state = "Ready" /\ t.attempt = 0
  BY Zenon, <1>1 DEF NoTask, Task, TaskStates
<1>3. task[e].state = "Absent" /\ e \in Effects => task[e].attempt = 0
  BY Zenon DEF IInv, AbsentTasks
<1>4. CASE Cmd(r).op = "activity" /\ task[e].state = "Absent"
  <2>1. Evaluated(r) = [task EXCEPT ![e] = t]
    BY Zenon, <1>4 DEF Evaluated
  <2>2. run[r].pc \in Nat /\ Len(Program[r]) \in Nat /\ DOMAIN Program[r] = 1..Len(Program[r])
    BY ZenonT(60), RunTyped, ProgramAssumption DEF Record
  <2>3. run[r].pc + 1 \in DOMAIN Program[r]
    BY <2>2 DEF Ongoing
  <2>4. e \in Effects
    BY <1>4, <2>3 DEF Effects, Cmd
  <2> HIDE DEF t
  <2>5. e[1] = r
    BY Zenon
  <2> HIDE DEF e
  <2>6. QED
    BY Zenon, <1>1, <1>2, <1>3, <1>4, <2>1, <2>4, <2>5
<1>5. CASE ~(Cmd(r).op = "activity" /\ task[e].state = "Absent")
  BY Zenon, <1>1, <1>5 DEF Evaluated
<1>6. QED
  BY Zenon, <1>4, <1>5

LEMMA WaitWakeupType == ASSUME NEW r PROVE WaitWakeup(r) \in Wakeups \cup {None}
  BY Zenon DEF WaitWakeup, Wakeups

LEMMA PendingRecord ==
  ASSUME IInv, NEW r \in Runs
  PROVE  Pending(r) \in Record /\ Pending(r).state = "Running" /\ Pending(r).parent = run[r].parent
<1>1. Driven(run[r]) \in Record /\ Driven(run[r]).state = "Running"
  BY Zenon, RunTyped, DrivenRecord
<1>2. Driven(run[r]).parent = run[r].parent
  BY ZenonT(60), RunTyped DEF Driven, Record
<1>3. WaitWakeup(r) \in Wakeups \cup {None}
  BY Zenon, WaitWakeupType
<1>4. QED
  BY ZenonT(60), <1>1, <1>2, <1>3 DEF Pending, Record

LEMMA CmdRun ==
  ASSUME IInv, NEW r \in Runs, Ongoing(r), Cmd(r).op \in {"child", "continue"}
  PROVE  Cmd(r).run \in Runs
<1>1. run[r].pc \in Nat /\ Len(Program[r]) \in Nat /\ DOMAIN Program[r] = 1..Len(Program[r])
  BY ZenonT(60), RunTyped, ProgramAssumption DEF Record
<1>2. run[r].pc + 1 \in DOMAIN Program[r]
  BY <1>1 DEF Ongoing
<1>3. QED
  BY Zenon, <1>2, ProgramAssumption DEF Cmd

LEMMA DispatchesIs ==
  ASSUME NEW r, Dispatches(r)
  PROVE  InLoop(r) /\ Ongoing(r)
  BY Zenon DEF Dispatches, Evaluates, Turn

(* The task that is about to be dispatched. *)
LEMMA CandidateIs ==
  ASSUME IInv, NEW r \in Runs, Ongoing(r), NEW e \in TasksOf(r), FirstReady(r, e)
  PROVE  /\ e \in Effects /\ e[1] = r
         /\ Candidate(e) \in Task
         /\ Candidate(e).state = "Ready"
         /\ Candidate(e).attempt = task[e].attempt
         /\ task[e].state \in {"Absent", "Ready"}
<1>1. e \in Effects /\ e[1] = r /\ Evaluated(r)[e].state = "Ready"
  BY Zenon DEF TasksOf, FirstReady, ReadyTasks
<1>2. Evaluated(r)[e] \in Task /\ Evaluated(r)[e].attempt = task[e].attempt
  BY Zenon, <1>1, EvaluatedIs
<1>3. task[e].state \in {"Absent", "Ready"}
  BY Zenon, <1>1, EvaluatedIs
<1>4. QED
  BY Zenon, <1>1, <1>2, <1>3, InferTask DEF Candidate

LEMMA OneTask ==
  ASSUME IInv, NEW e \in Effects, NEW t \in Task, task' = [task EXCEPT ![e] = t]
  PROVE  /\ TasksOK' /\ task'[e] = t
         /\ \A f \in Effects \ {e} : task'[f] = task[f]
         /\ \A f \in Effects : f[1] # e[1] => task'[f] = task[f]
  BY Zenon DEF IInv, TypeOK, TasksOK

(* A result is not accepted for a fenced run. *)
LEMMA OwnedRun ==
  ASSUME NEW e \in Effects, NEW n, owned_attempt(e, n)
  PROVE  run[e[1]].state \notin Fence /\ task[e].attempt = n /\ task[e].state \in Live
  BY Zenon DEF owned_attempt, owned_task, Exhausted, Fence, Inactive

LEMMA MarkedTask ==
  ASSUME IInv, NEW e \in Effects, NEW s \in TaskStates
  PROVE  /\ In(mark_execution(task[e]), s) \in Task
         /\ In(mark_execution(task[e]), s).state = s
         /\ In(mark_execution(task[e]), s).attempt = task[e].attempt
<1>1. task[e] \in Task
  BY Zenon DEF IInv, TypeOK
<1>2. QED
  BY Zenon, <1>1, MarkTask, InTask

----------------------------------------------------------------------------
(* Every step of the engine is a good one.  The first steps of the proof   *)
(* are what several actions share; then there is one for each action.      *)
LEMMA StepGood == ASSUME IInv, [Next]_vars PROVE Good
(* An effect that is left alone, or whose task moves on by itself. *)
<1>KeptEffect.
  ASSUME NEW e \in Effects, task'[e] = task[e], maybe'[e] = maybe[e]
  PROVE  EffectStep(e)
  BY Zenon, <1>KeptEffect DEF EffectStep, Life!vars
<1>MovedEffect.
  ASSUME NEW e \in Effects, maybe'[e] = maybe[e], task'[e].attempt = task[e].attempt,
         \/ task'[e].state = task[e].state
         \/ task[e].state = "Absent" /\ task'[e].state = "Ready"
         \/ task[e].state = "InFlight" /\ task'[e].state = "Invoking"
         \/ task[e].state \in Live \cup {"Uncertain"} /\ task'[e].state = "Done"
         \/ task[e].state \in Live /\ task'[e].state = "Uncertain"
         \/ ~Unsafe(e) /\ task[e].state \in Live /\ task'[e].state \in {"Ready", "Retrying"}
         \/ task[e].state = "Retrying" /\ task'[e].state = "Ready"
  PROVE  EffectStep(e)
  BY Zenon, <1>MovedEffect DEF EffectStep, Life!vars, Life!Next, Life!create, Life!invoke, Life!settle, Life!doubt,
         Life!repeat, Life!elapse, Life!Move, Life!Live, Live
<1>DisprovedEffect.
  ASSUME NEW e \in Effects, task[e].state \in Live \cup {"Uncertain"}, task'[e].state = "Ready",
         task'[e].attempt = task[e].attempt, maybe'[e] = maybe[e] \ {task[e].attempt}
  PROVE  EffectStep(e)
  BY Zenon, <1>DisprovedEffect DEF EffectStep, Life!Next, Life!disprove, Life!Live, Live
<1>DispatchedEffect.
  ASSUME NEW e \in Effects, task[e].state \in {"Absent", "Ready"}, task'[e].state = "InFlight",
         task'[e].attempt = task[e].attempt + 1, maybe'[e] = maybe[e] \cup {task[e].attempt + 1}
  PROVE  EffectStep(e)
  BY Zenon, <1>DispatchedEffect DEF EffectStep, Life!Next, Life!dispatch
(* A step that writes one run and changes only tasks of that run. *)
<1>LocalStep.
  ASSUME RunsOK, UnknownHasCause, NEW r \in Runs, NEW rec \in Record, NEW woken,
         Commit(Write(r, rec), woken),
         \A e \in Effects : e[1] # r => task'[e] = task[e],
         rec.state = "OutcomeUnknown" => has_unresolved_effect(r, task'),
         run[r].state \in Fence => rec.state \in Fence /\ \A e \in TasksOf(r) : task'[e] = task[e]
  PROVE  RunsOK' /\ UnknownHasCause' /\ FenceStep /\ run'[r].state = rec.state
  <2> USE <1>LocalStep
  <2>1. /\ run' \in [Runs -> Record]
        /\ column' \in [Runs -> Wakeups \cup {None}]
        /\ run'[r].state = rec.state
        /\ \A q \in Runs \ {r} : run'[q].state = run[q].state
    BY CommitRuns DEF Write, RunsOK
  <2>2. ASSUME NEW q \in Runs, run'[q].state = "OutcomeUnknown"
        PROVE  has_unresolved_effect(q, task')
    <3>1. CASE q = r
      BY Zenon, <2>1, <2>2, <3>1
    <3>2. CASE q # r
      <4>1. run[q].state = "OutcomeUnknown"
        BY Zenon, <2>1, <2>2, <3>2
      <4>2. has_unresolved_effect(q, task)
        BY Zenon, <4>1 DEF UnknownHasCause
      <4>3. \A e \in TasksOf(q) : task'[e] = task[e]
        BY Zenon, <3>2 DEF TasksOf
      <4>4. QED
        BY Zenon, <4>2, <4>3 DEF has_unresolved_effect
    <3>3. QED
      BY Zenon, <3>1, <3>2
  <2>3. UnknownHasCause'
    BY Zenon, <2>2 DEF UnknownHasCause, has_unresolved_effect, TasksOf, Unsafe
  <2>4. FenceStep
    BY Zenon, <2>1 DEF FenceStep, TasksOf
  <2>5. QED
    BY Zenon, <2>1, <2>3, <2>4 DEF RunsOK
<1>KeptTasks.
  ASSUME TasksOK, UNCHANGED <<task, maybe>>
  PROVE  TasksOK' /\ \A e \in Effects : EffectStep(e)
  BY Zenon, <1>KeptTasks, <1>KeptEffect DEF TasksOK
<1>KeptMemory.
  ASSUME MemoryOK, UNCHANGED <<epoch, memory, history>>
  PROVE  MemoryOK'
  BY Zenon, <1>KeptMemory DEF MemoryOK, memory, history, WalkBegun
(* One run is written and nothing else persisted changes. *)
<1>OneRun.
  ASSUME IInv, NEW r \in Runs, NEW rec \in Record, NEW woken, Commit(Write(r, rec), woken),
         UNCHANGED <<task, maybe>>,
         rec.state = "OutcomeUnknown" => run[r].state = "OutcomeUnknown",
         run[r].state \in Fence => rec.state \in Fence
  PROVE  /\ RunsOK' /\ TasksOK' /\ UnknownHasCause' /\ FenceStep
         /\ \A e \in Effects : EffectStep(e)
         /\ run'[r].state = rec.state
  <2> USE <1>OneRun
  <2>1. rec.state = "OutcomeUnknown" => has_unresolved_effect(r, task')
    BY Zenon DEF IInv, UnknownHasCause
  <2>2. RunsOK' /\ UnknownHasCause' /\ FenceStep /\ run'[r].state = rec.state
    BY Zenon, <2>1, <1>LocalStep, IInvParts
  <2>3. QED
    BY Zenon, <2>2, <1>KeptTasks, IInvParts
<1>MaybeTyped. ASSUME IInv PROVE maybe \in [Effects -> SUBSET Nat]
  BY Zenon, <1>MaybeTyped DEF IInv, TypeOK
<1>OpenGood. ASSUME IInv, open PROVE Good
  <2> USE <1>OpenGood
  <2>1. TasksOK' /\ \A e \in Effects : EffectStep(e)
    BY Zenon, <1>KeptTasks, IInvParts DEF open, history
  <2>2. RunsOK'
    BY Zenon, IInvParts DEF RunsOK, open, Wakeups
  <2>3. MemoryOK'
    <3>1. epoch' = epoch + 1 /\ epoch < MaxEpoch /\ epoch \in 1..MaxEpoch
      BY Zenon DEF open, IInv, TypeOK
    <3>2. MaxEpoch \in Nat
      BY Zenon, ConstantsAssumption
    <3>3. epoch' \in 1..MaxEpoch
      BY <3>1, <3>2
    <3>4. NoLoop \in Loop
      BY DEF NoLoop, Loop
    <3>5. <<>> \in Seq(Runs)
      OBVIOUS
    <3>6. dispatched' = {} /\ parked' = {} /\ threads' = {} /\ phase' = "idle" /\ driven' = None
      BY Zenon DEF open
    <3>7. loop' \in Loop /\ stack' \in Seq(Runs)
      BY Zenon, <3>4, <3>5 DEF open
    <3>8. maybe' \in [Effects -> SUBSET Nat] /\ invoked' \in [Effects -> Nat]
      BY Zenon DEF open, history, IInv, TypeOK
    <3>9. WalkBegun'
      BY <3>6 DEF WalkBegun
    <3>10. QED
      BY Zenon, <3>3, <3>6, <3>7, <3>8, <3>9 DEF MemoryOK
  <2>4. UnknownHasCause' /\ LoopDrivable' /\ FenceStep
    BY Zenon, IInvParts DEF UnknownHasCause, has_unresolved_effect, LoopDrivable, FenceStep, open, TasksOf, Unsafe
  <2>5. QED
    BY Zenon, <2>1, <2>2, <2>3, <2>4 DEF Good
<1>StartGood. ASSUME IInv, NEW r \in Runs, start(r) PROVE Good
  <2> USE <1>StartGood
  <2>1. new_run(None) \in Record /\ new_run(None).state = "Running"
    BY Zenon, NewRecord
  <2>2. Commit(Write(r, new_run(None)), {}) /\ UNCHANGED <<task, maybe>> /\ run[r].state \notin Fence
    BY Zenon DEF start, Save, history, Fence
  <2>3. MemoryOK' /\ LoopDrivable'
    BY Zenon, <1>KeptMemory, IInvParts DEF start, memory, LoopDrivable
  <2>4. QED
    BY Zenon, <2>1, <2>2, <2>3, <1>OneRun DEF Good
<1>SignalGood. ASSUME IInv, NEW r \in Runs, signal(r) PROVE Good
  <2> USE <1>SignalGood
  <2> DEFINE rec == [run[r] EXCEPT !.sent = run[r].sent + 1, !.wakeup = "now"]
  <2>1. run[r] \in Record /\ run[r].sent + 1 \in Nat /\ "now" \in Wakeups
    BY RunTyped DEF Record, Wakeups
  <2>2. rec \in Record /\ rec.state = run[r].state
    BY ZenonT(60), <2>1 DEF Record
  <2>3. Commit(Write(r, rec), {}) /\ UNCHANGED <<task, maybe>>
    BY Zenon DEF signal, Save, history
  <2>4. MemoryOK' /\ LoopDrivable'
    BY Zenon, <1>KeptMemory, IInvParts DEF signal, memory, LoopDrivable
  <2> HIDE DEF rec
  <2>5. QED
    BY Zenon, <2>2, <2>3, <2>4, <1>OneRun DEF Good
<1>CancelRequestGood. ASSUME IInv, NEW r \in Runs, cancel_request(r) PROVE Good
  <2> USE <1>CancelRequestGood
  <2> DEFINE rec == [run[r] EXCEPT !.state = "CancelRequested", !.wakeup = "now"]
  <2>1. rec \in Record /\ rec.state = "CancelRequested"
    BY ZenonT(60), RunTyped DEF Record, Wakeups, RunStates
  <2>2. Commit(Write(r, rec), {}) /\ UNCHANGED <<task, maybe>>
    BY Zenon DEF cancel_request, Save, history
  <2>3. MemoryOK' /\ LoopDrivable'
    <3>1. stack \in Seq(Runs)
      BY Zenon DEF IInv, TypeOK
    <3>2. Append(stack, r) \in Seq(Runs) /\ Append(stack, r) # <<>>
      BY Zenon, <3>1, AppendSeq
    <3>3. QED
      BY Zenon, <3>2, IInvParts DEF cancel_request, MemoryOK, WalkBegun, NoLoop, Loop, history, LoopDrivable
  <2> HIDE DEF rec
  <2>4. QED
    BY Zenon, <2>1, <2>2, <2>3, <1>OneRun DEF Good, Fence
<1>CancelDescendGood. ASSUME IInv, cancel_descend PROVE Good
  BY Zenon, <1>CancelDescendGood, BelowRuns, TopRun, <1>CancelRequestGood DEF cancel_descend
<1>CancelFinishGood. ASSUME IInv, cancel_finish PROVE Good
  <2> USE <1>CancelFinishGood
  <2>1. Top \in Runs /\ Len(stack) \in Nat \ {0} /\ stack \in Seq(Runs)
    BY Zenon, TopRun DEF cancel_finish, IInv, TypeOK
  <2> DEFINE rec == [run[Top] EXCEPT !.state = "Cancelled"]
  <2>2. rec \in Record /\ rec.state = "Cancelled"
    BY ZenonT(60), RunTyped, <2>1 DEF Record, RunStates
  <2>3. Commit(Write(Top, rec), {}) /\ UNCHANGED <<task, maybe>>
    BY Zenon DEF cancel_finish, Save, history
  <2>4. MemoryOK' /\ LoopDrivable'
    <3>1. SubSeq(stack, 1, Len(stack) - 1) \in Seq(Runs)
      BY <2>1, SubSeqSeq
    <3>2. Len(stack) # 1 => SubSeq(stack, 1, Len(stack) - 1) # <<>>
      <4>1. Len(stack) - 1 \in Int /\ 1 \in Int /\ \A i \in 1..(Len(stack) - 1) : stack[i] \in Runs
        BY <2>1
      <4>2. Len(SubSeq(stack, 1, Len(stack) - 1)) =
              IF 1 <= Len(stack) - 1 THEN Len(stack) - 1 - 1 + 1 ELSE 0
        BY <4>1, SubSeqSeq
      <4>3. Len(<<>>) = 0
        BY Zenon
      <4> DEFINE n == Len(stack)
                 m == Len(SubSeq(stack, 1, Len(stack) - 1))
      <4>4. n \in Nat \ {0} /\ m = IF 1 <= n - 1 THEN n - 1 - 1 + 1 ELSE 0
        BY Zenon, <2>1, <4>2
      <4> HIDE DEF n, m
      <4>5. n # 1 => m # 0
        BY <4>4
      <4>6. Len(stack) # 1 => Len(SubSeq(stack, 1, Len(stack) - 1)) # 0
        BY Zenon, <4>5 DEF n, m
      <4>7. QED
        BY Zenon, <4>3, <4>6
    <3>3. QED
      BY Zenon, <3>1, <3>2, IInvParts DEF cancel_finish, MemoryOK, WalkBegun, history, LoopDrivable
  <2> HIDE DEF rec
  <2>5. QED
    BY Zenon, <2>1, <2>2, <2>3, <2>4, <1>OneRun DEF Good, Fence
(* Recovery alone is a good step for the effects. *)
<1>RecoveredEffects.
  ASSUME IInv, NEW r \in Runs, task' = RecoveredTasks(r), UNCHANGED maybe
  PROVE  /\ TasksOK'
         /\ \A e \in Effects : EffectStep(e)
         /\ \A e \in Effects : e[1] # r => task'[e] = task[e]
  <2> USE <1>RecoveredEffects
  <2>1. TasksOK'
    BY Zenon, RecoveredTasksAre DEF TasksOK
  <2>2. \A e \in Effects : e[1] # r => task'[e] = task[e]
    BY Zenon, RecoveredTasksAre
  <2>3. ASSUME NEW e \in Effects PROVE EffectStep(e)
    <3>1. task'[e].attempt = task[e].attempt /\ maybe'[e] = maybe[e]
      BY Zenon, RecoveredTasksAre
    <3>2. \/ task'[e].state = task[e].state
          \/ task[e].state \in Live /\ task'[e].state = "Uncertain"
          \/ ~Unsafe(e) /\ task[e].state \in Live /\ task'[e].state \in {"Ready", "Retrying"}
      BY Zenon, RecoveredTasksAre, RecoveredTaskIs
    <3>3. QED
      BY Zenon, <3>1, <3>2, <1>MovedEffect
  <2>4. QED
    BY Zenon, <2>1, <2>2, <2>3
(* recover followed by a save of the run. *)
<1>RecoveredSaved.
  ASSUME IInv, NEW r \in Runs, NEW rec \in Record, Save(r, rec),
         task' = RecoveredTasks(r), UNCHANGED maybe,
         run[r].state \in Fence => rec.state \in Fence,
         rec.state = "OutcomeUnknown" => Recovered(r).state = "OutcomeUnknown"
  PROVE  /\ RunsOK' /\ TasksOK' /\ UnknownHasCause' /\ FenceStep
         /\ \A e \in Effects : EffectStep(e)
         /\ run'[r].state = rec.state
  <2> USE <1>RecoveredSaved
  <2>1. Commit(Write(r, rec), {})
    BY Zenon DEF Save
  <2>2. \A e \in Effects : e[1] # r => task'[e] = task[e]
    BY Zenon, <1>RecoveredEffects
  <2>3. rec.state = "OutcomeUnknown" => has_unresolved_effect(r, task')
    BY Zenon, RecoveredRecord
  <2>4. run[r].state \in Fence => rec.state \in Fence /\ \A e \in TasksOf(r) : task'[e] = task[e]
    BY Zenon, RecoveredRecord
  <2>5. RunsOK' /\ UnknownHasCause' /\ FenceStep /\ run'[r].state = rec.state
    BY Zenon, <2>1, <2>2, <2>3, <2>4, <1>LocalStep, IInvParts
  <2>6. QED
    BY Zenon, <2>5, <1>RecoveredEffects
<1>RecoverGood.
  ASSUME IInv, NEW r \in Runs, phase = "idle", Save(r, Recovered(r)), task' = RecoveredTasks(r),
         UNCHANGED <<epoch, memory, history>>
  PROVE  Good
  <2> USE <1>RecoverGood
  <2>1. MemoryOK' /\ LoopDrivable'
    BY Zenon, <1>KeptMemory, IInvParts DEF memory, LoopDrivable
  <2>2. Recovered(r) \in Record /\ (run[r].state \in Fence => Recovered(r).state \in Fence)
    BY Zenon, RecoveredRecord
  <2>3. UNCHANGED maybe
    BY Zenon DEF history
  <2>4. QED
    BY Zenon, <2>1, <2>2, <2>3, <1>RecoveredSaved DEF Good
<1>ResumeGood. ASSUME IInv, NEW r \in Runs, resume(r) PROVE Good
  <2> USE <1>ResumeGood
  <2>1. CASE /\ run[r].state \in {"NeedsInput", "NeedsImplementation"}
             /\ Save(r, [run[r] EXCEPT !.state = "Running", !.wakeup = "now"])
             /\ UNCHANGED task
    <3> DEFINE rec == [run[r] EXCEPT !.state = "Running", !.wakeup = "now"]
    <3>1. rec \in Record /\ rec.state = "Running"
      BY ZenonT(60), RunTyped DEF Record, RunStates, Wakeups
    <3>2. Commit(Write(r, rec), {}) /\ UNCHANGED <<task, maybe>> /\ run[r].state \notin Fence
      BY Zenon, <2>1 DEF resume, Save, history, Fence
    <3>3. MemoryOK' /\ LoopDrivable'
      BY Zenon, <1>KeptMemory, IInvParts DEF resume, memory, LoopDrivable
    <3> HIDE DEF rec
    <3>4. QED
      BY Zenon, <3>1, <3>2, <3>3, <1>OneRun DEF Good
  <2>2. CASE Save(r, Recovered(r)) /\ task' = RecoveredTasks(r)
    BY Zenon, <2>2, <1>RecoverGood DEF resume
  <2>3. QED
    BY Zenon, <2>1, <2>2 DEF resume
<1>ReconcileRefusedGood. ASSUME IInv, NEW r \in Runs, reconcile_refused(r) PROVE Good
  BY Zenon, <1>ReconcileRefusedGood, <1>RecoverGood DEF reconcile_refused, MayReconcile
<1>DriveStoppedGood. ASSUME IInv, NEW r \in Runs, drive_stopped(r) PROVE Good
  BY Zenon, <1>DriveStoppedGood, <1>RecoverGood DEF drive_stopped, MayDrive
<1>DriveSuspendedGood.
  ASSUME IInv, NEW r \in Runs, NEW state, drive_suspended(r, state)
  PROVE  Good
  <2> USE <1>DriveSuspendedGood
  <2>1. state \in {"NeedsInput", "NeedsImplementation"} /\ state \in RunStates
    BY Zenon DEF drive_suspended, RunStates
  <2>2. Suspended(Recovered(r), state) \in Record /\ Suspended(Recovered(r), state).state = state
    BY Zenon, <2>1, RecoveredRecord, SuspendedRecord
  <2>3. run[r].state \notin Fence
    BY Zenon, DrivableRecovered DEF drive_suspended
  <2>4. /\ Save(r, Suspended(Recovered(r), state)) /\ task' = RecoveredTasks(r) /\ UNCHANGED maybe
    BY Zenon DEF drive_suspended, history
  <2>5. MemoryOK' /\ LoopDrivable'
    BY Zenon, <1>KeptMemory, IInvParts DEF drive_suspended, MayDrive, memory, LoopDrivable
  <2>6. QED
    BY Zenon, <2>1, <2>2, <2>3, <2>4, <2>5, <1>RecoveredSaved DEF Good
<1>AdvancedEffects.
  ASSUME IInv, NEW r \in Runs, NEW due, NEW over, due \cup over \subseteq Retrying(r, RecoveredTasks(r)),
         task' = Advanced(r, due, over), UNCHANGED maybe
  PROVE  /\ TasksOK'
         /\ \A e \in Effects : EffectStep(e)
         /\ \A e \in Effects : e[1] # r => task'[e] = task[e]
  <2> USE <1>AdvancedEffects
  <2>1. TasksOK'
    BY Zenon, AdvancedIs DEF TasksOK
  <2>2. \A e \in Effects : e[1] # r => task'[e] = task[e]
    BY AdvancedIs, RecoveredTasksAre
  <2>3. ASSUME NEW e \in Effects PROVE EffectStep(e)
    <3>1. task'[e].attempt = task[e].attempt /\ maybe'[e] = maybe[e]
      BY SMTT(30), AdvancedIs, RecoveredTasksAre
    <3>2. \/ task'[e].state = task[e].state
          \/ task[e].state \in Live /\ task'[e].state = "Uncertain"
          \/ ~Unsafe(e) /\ task[e].state \in Live /\ task'[e].state \in {"Ready", "Retrying"}
          \/ task[e].state = "Retrying" /\ task'[e].state = "Ready"
      BY AdvancedIs, RecoveredTasksAre, RecoveredTaskIs
    <3>3. QED
      BY Zenon, <3>1, <3>2, <1>MovedEffect
  <2>4. QED
    BY Zenon, <2>1, <2>2, <2>3
(* The run stays as it is while tasks of it change. *)
<1>UnsavedStep.
  ASSUME IInv, NEW r \in Runs, NoSave, run[r].state \in Drivable,
         \A e \in Effects : e[1] # r => task'[e] = task[e]
  PROVE  RunsOK' /\ UnknownHasCause' /\ FenceStep /\ run'[r].state = run[r].state
  <2> USE <1>UnsavedStep
  <2>1. run' = run /\ column' = column
    BY Zenon DEF NoSave
  <2>2. ASSUME NEW q \in Runs, run'[q].state = "OutcomeUnknown"
        PROVE  has_unresolved_effect(q, task')
    <3>1. q # r /\ has_unresolved_effect(q, task)
      BY Zenon, <2>1, <2>2, IInvParts DEF Drivable, UnknownHasCause
    <3>2. \A e \in TasksOf(q) : task'[e] = task[e]
      BY Zenon, <3>1 DEF TasksOf
    <3>3. QED
      BY Zenon, <3>1, <3>2 DEF has_unresolved_effect
  <2>3. UnknownHasCause'
    BY Zenon, <2>2 DEF UnknownHasCause, has_unresolved_effect, TasksOf, Unsafe
  <2>4. FenceStep
    BY Zenon, <2>1 DEF FenceStep, TasksOf, Drivable, Fence
  <2>5. QED
    BY Zenon, <2>1, <2>3, <2>4, IInvParts DEF RunsOK
<1>EnterLoopMemory.
  ASSUME IInv, NEW r \in Runs, NEW fired \in BOOLEAN, enter_loop(r, fired), UNCHANGED <<epoch, history>>
  PROVE  MemoryOK' /\ phase' = "drive" /\ driven' = r
  <2> USE <1>EnterLoopMemory
  <2>1. [left |-> DriveBound, wrote |-> FALSE, fired |-> fired] \in Loop
    BY Zenon, ConstantsAssumption DEF Loop
  <2>2. QED
    BY Zenon, <2>1, IInvParts DEF enter_loop, MemoryOK, WalkBegun, history
<1>DriveGood.
  ASSUME IInv, NEW r \in Runs, NEW due, NEW over, NEW fired \in BOOLEAN, drive(r, due, over, fired)
  PROVE  Good
  <2> USE <1>DriveGood
  <2> DEFINE rec == Driven(Recovered(r))
  <2>1. /\ Recovered(r).state \in Drivable
        /\ due \cup over \subseteq Retrying(r, RecoveredTasks(r))
        /\ task' = Advanced(r, due, over)
        /\ UNCHANGED maybe /\ UNCHANGED <<epoch, history>>
        /\ phase = "idle"
    BY Zenon DEF drive, history, MayDrive
  <2>2. TasksOK' /\ (\A e \in Effects : EffectStep(e)) /\ \A e \in Effects : e[1] # r => task'[e] = task[e]
    BY Zenon, <2>1, <1>AdvancedEffects
  <2>3. run[r].state \notin Fence /\ run[r].state \in Drivable
    BY Zenon, <2>1, DrivableRecovered
  <2>4. rec \in Record /\ rec.state = "Running"
    BY Zenon, RecoveredRecord, DrivenRecord
  <2>5. ASSUME NEW new \in Record, Save(r, new),
               new.state = "OutcomeUnknown" => has_unresolved_effect(r, task')
        PROVE  RunsOK' /\ UnknownHasCause' /\ FenceStep /\ run'[r].state = new.state
    BY Zenon, <2>2, <2>3, <2>5, <1>LocalStep, IInvParts DEF Save
  <2>6. CASE over # {}
    <3> DEFINE new == mark_retry_exhausted(r, rec, Advanced(r, due, over))
    <3>1. new \in Record /\ (new.state = "OutcomeUnknown" => has_unresolved_effect(r, task'))
      BY Zenon, <2>1, <2>4, ExhaustedRecord
    <3>2. Save(r, new) /\ UNCHANGED memory
      BY Zenon, <2>6 DEF drive
    <3>3. RunsOK' /\ UnknownHasCause' /\ FenceStep
      BY Zenon, <2>5, <3>1, <3>2
    <3>4. MemoryOK' /\ LoopDrivable'
      BY Zenon, <2>1, <3>2, <1>KeptMemory, IInvParts DEF memory, LoopDrivable
    <3>5. QED
      BY Zenon, <2>2, <3>3, <3>4 DEF Good
  <2>7. CASE over = {} /\ due # {}
    <3> DEFINE new == [rec EXCEPT !.wakeup = "now"]
    <3>1. new \in Record /\ new.state = "Running"
      BY Zenon, <2>4, WokenRecord DEF Wakeups
    <3>2. Save(r, new) /\ enter_loop(r, fired)
      BY Zenon, <2>7 DEF drive
    <3> HIDE DEF new, rec
    <3>3. RunsOK' /\ UnknownHasCause' /\ FenceStep /\ run'[r].state = "Running"
      BY Zenon, <2>5, <3>1, <3>2
    <3>4. MemoryOK' /\ phase' = "drive" /\ driven' = r
      BY Zenon, <2>1, <3>2, <1>EnterLoopMemory
    <3>5. QED
      BY Zenon, <2>2, <3>3, <3>4 DEF Good, LoopDrivable, Drivable
  <2>8. CASE over = {} /\ due = {} /\ Retrying(r, RecoveredTasks(r)) # {} /\ rec.wakeup # "later"
    <3> DEFINE new == [rec EXCEPT !.wakeup = "later"]
    <3>1. new \in Record /\ new.state = "Running"
      BY Zenon, <2>4, WokenRecord DEF Wakeups
    <3>2. Save(r, new) /\ enter_loop(r, fired)
      BY Zenon, <2>8 DEF drive
    <3> HIDE DEF new, rec
    <3>3. RunsOK' /\ UnknownHasCause' /\ FenceStep /\ run'[r].state = "Running"
      BY Zenon, <2>5, <3>1, <3>2
    <3>4. MemoryOK' /\ phase' = "drive" /\ driven' = r
      BY Zenon, <2>1, <3>2, <1>EnterLoopMemory
    <3>5. QED
      BY Zenon, <2>2, <3>3, <3>4 DEF Good, LoopDrivable, Drivable
  <2>9. CASE over = {} /\ due = {} /\ ~(Retrying(r, RecoveredTasks(r)) # {} /\ rec.wakeup # "later")
    <3>1. SaveRecovered(r) /\ enter_loop(r, fired)
      BY Zenon, <2>9 DEF drive
    <3> HIDE DEF rec
    <3>2. MemoryOK' /\ phase' = "drive" /\ driven' = r
      BY Zenon, <2>1, <3>1, <1>EnterLoopMemory
    <3>3. CASE HasInterrupted(r)
      <4>1. Save(r, Recovered(r)) /\ Recovered(r) \in Record /\ Recovered(r).state # "OutcomeUnknown"
        BY Zenon, <2>1, <3>1, <3>3, RecoveredRecord DEF SaveRecovered, Drivable
      <4>2. RunsOK' /\ UnknownHasCause' /\ FenceStep /\ run'[r].state = Recovered(r).state
        BY Zenon, <2>5, <4>1
      <4>3. QED
        BY Zenon, <2>1, <2>2, <3>2, <4>2 DEF Good, LoopDrivable
    <3>4. CASE ~HasInterrupted(r)
      <4>1. NoSave
        BY Zenon, <3>1, <3>4 DEF SaveRecovered
      <4>2. RunsOK' /\ UnknownHasCause' /\ FenceStep /\ run'[r].state = run[r].state
        BY Zenon, <2>2, <2>3, <4>1, <1>UnsavedStep
      <4>3. QED
        BY Zenon, <2>2, <2>3, <3>2, <4>2 DEF Good, LoopDrivable
    <3>5. QED
      BY Zenon, <3>3, <3>4
  <2>10. QED
    BY Zenon, <2>6, <2>7, <2>8, <2>9
<1>DriveStepGood. ASSUME IInv, NEW r \in Runs, DriveStep(r) PROVE Good
  BY Zenon, <1>DriveStepGood, <1>DriveStoppedGood, <1>DriveSuspendedGood, <1>DriveGood, <1>CancelRequestGood DEF DriveStep, drive_cancelled
<1>IdleMemory.
  ASSUME IInv, BackToIdle, UNCHANGED <<epoch, history>>,
         dispatched' \subseteq dispatched, parked' \subseteq Runs
  PROVE  MemoryOK' /\ LoopDrivable'
  BY Zenon, <1>IdleMemory, IInvParts DEF BackToIdle, MemoryOK, WalkBegun, NoLoop, Loop, history, LoopDrivable
<1>EvaluatedEffects.
  ASSUME IInv, NEW r \in Runs, Ongoing(r), task' = Evaluated(r), UNCHANGED maybe
  PROVE  /\ TasksOK'
         /\ \A e \in Effects : EffectStep(e)
         /\ \A e \in Effects : e[1] # r => task'[e] = task[e]
  <2> USE <1>EvaluatedEffects
  <2>1. TasksOK' /\ \A e \in Effects : e[1] # r => task'[e] = task[e]
    BY Zenon, EvaluatedIs DEF TasksOK
  <2>2. ASSUME NEW e \in Effects PROVE EffectStep(e)
    <3>1. task'[e].attempt = task[e].attempt /\ maybe'[e] = maybe[e]
      BY Zenon, EvaluatedIs
    <3>2. \/ task'[e].state = task[e].state
          \/ task[e].state = "Absent" /\ task'[e].state = "Ready"
      BY Zenon, EvaluatedIs
    <3>3. QED
      BY Zenon, <3>1, <3>2, <1>MovedEffect
  <2>3. QED
    BY Zenon, <2>1, <2>2
(* A turn that saves the run. *)
<1>TurnSaved.
  ASSUME IInv, NEW r \in Runs, InLoop(r), NEW rec \in Record, rec.state # "OutcomeUnknown",
         NEW woken, Commit(Write(r, rec), woken), UNCHANGED maybe,
         task' = task \/ (Ongoing(r) /\ task' = Evaluated(r))
  PROVE  /\ RunsOK' /\ TasksOK' /\ UnknownHasCause' /\ FenceStep
         /\ \A e \in Effects : EffectStep(e)
         /\ run'[r].state = rec.state
  <2> USE <1>TurnSaved
  <2>1. TasksOK' /\ (\A e \in Effects : EffectStep(e)) /\ \A e \in Effects : e[1] # r => task'[e] = task[e]
    BY Zenon, <1>EvaluatedEffects, <1>KeptTasks, IInvParts
  <2>2. RunsOK' /\ UnknownHasCause' /\ FenceStep /\ run'[r].state = rec.state
    BY Zenon, <2>1, LoopRun, <1>LocalStep, IInvParts
  <2>3. QED
    BY Zenon, <2>1, <2>2
(* A turn that saves the run and creates another one. *)
<1>TurnCreated.
  ASSUME IInv, NEW r \in Runs, InLoop(r), Ongoing(r), NEW s \in Runs, Vacant(s),
         NEW writes, DOMAIN writes = {r, s}, writes[r] \in Record, writes[s] \in Record,
         writes[r].state # "OutcomeUnknown", writes[s].state # "OutcomeUnknown",
         Commit(writes, {}), UNCHANGED maybe, task' = task \/ task' = Evaluated(r)
  PROVE  /\ RunsOK' /\ TasksOK' /\ UnknownHasCause' /\ FenceStep
         /\ \A e \in Effects : EffectStep(e)
         /\ run'[r].state = writes[r].state
  <2> USE <1>TurnCreated
  <2>1. TasksOK' /\ (\A e \in Effects : EffectStep(e)) /\ \A e \in Effects : e[1] # r => task'[e] = task[e]
    BY Zenon, <1>EvaluatedEffects, <1>KeptTasks, IInvParts
  <2>2. /\ RunsOK'
        /\ run'[r].state = writes[r].state
        /\ run'[s].state = writes[s].state
        /\ \A q \in Runs \ {r, s} : run'[q].state = run[q].state
    BY Zenon, CommitRuns, IInvParts DEF RunsOK
  <2>3. ASSUME NEW q \in Runs, run'[q].state = "OutcomeUnknown"
        PROVE  has_unresolved_effect(q, task')
    <3>1. q # r /\ q # s /\ run[q].state = "OutcomeUnknown"
      BY Zenon, <2>2, <2>3
    <3>2. has_unresolved_effect(q, task)
      BY Zenon, <3>1, IInvParts DEF UnknownHasCause
    <3>3. \A e \in TasksOf(q) : task'[e] = task[e]
      BY Zenon, <2>1, <3>1 DEF TasksOf
    <3>4. QED
      BY Zenon, <3>2, <3>3 DEF has_unresolved_effect
  <2>4. UnknownHasCause'
    BY Zenon, <2>3 DEF UnknownHasCause, has_unresolved_effect, TasksOf, Unsafe
  <2>5. FenceStep
    BY Zenon, <2>1, <2>2, LoopRun DEF FenceStep, TasksOf, Vacant, Fence
  <2>6. QED
    BY Zenon, <2>1, <2>2, <2>4, <2>5
<1>DriveValueGood. ASSUME IInv, NEW r \in Runs, drive_value(r) PROVE Good
  <2> USE <1>DriveValueGood
  <2> DEFINE signal_ == Cmd(r).op = "signal" \/ (Cmd(r).op = "select" /\ Chosen(r).kind = "signal")
             taken_ == IF signal_ THEN run[r].taken + 1 ELSE run[r].taken
             kids == IF Cmd(r).op = "child" THEN Append(run[r].children, Cmd(r).run) ELSE run[r].children
             rec == [Driven(run[r]) EXCEPT !.pc = run[r].pc + 1, !.issued = 0, !.wakeup = "now",
                                           !.taken = taken_, !.children = kids]
  <2>1. InLoop(r) /\ Ongoing(r) /\ evaluate(r) = "value" /\ loop.left > 0
    BY Zenon DEF drive_value, Evaluates, Turn
  <2>2. run[r] \in Record /\ Driven(run[r]) \in Record /\ Driven(run[r]).state = "Running"
    BY Zenon, RunTyped, DrivenRecord
  <2>3. /\ taken_ \in Nat
        /\ run[r].pc + 1 \in Nat
        /\ "now" \in Wakeups \cup {None}
    <3>1. run[r].taken \in Nat /\ run[r].pc \in Nat
      BY ZenonT(60), <2>2 DEF Record
    <3>2. taken_ \in Nat /\ run[r].pc + 1 \in Nat
      BY <3>1
    <3>3. QED
      BY Zenon, <3>2 DEF Wakeups
  <2>4. kids \in Seq(Runs)
    <3>1. run[r].children \in Seq(Runs)
      BY ZenonT(60), <2>2 DEF Record
    <3>2. CASE Cmd(r).op = "child"
      BY Zenon, <2>1, <3>1, <3>2, CmdRun, AppendSeq
    <3>3. CASE Cmd(r).op # "child"
      BY Zenon, <3>1, <3>3
    <3>4. QED
      BY Zenon, <3>2, <3>3
  <2> HIDE DEF taken_, kids
  <2>5. rec \in Record /\ rec.state = "Running"
    BY ZenonT(60), <2>2, <2>3, <2>4 DEF Record
  <2>6. /\ Commit(IF Cmd(r).op = "child" THEN [q \in {r, Cmd(r).run} |-> IF q = r THEN rec ELSE new_run(r)]
                  ELSE Write(r, rec), {})
        /\ task' = Evaluated(r)
        /\ UNCHANGED maybe
    BY Zenon DEF drive_value, history, taken_, kids
  <2> HIDE DEF rec
  <2>7. /\ RunsOK' /\ TasksOK' /\ UnknownHasCause' /\ FenceStep
        /\ \A e \in Effects : EffectStep(e)
        /\ run'[r].state = "Running"
    <3>1. CASE Cmd(r).op = "child"
      <4> DEFINE s == Cmd(r).run
                 writes == [q \in {r, s} |-> IF q = r THEN rec ELSE new_run(r)]
      <4>1. Vacant(s)
        BY Zenon, <2>1, <3>1 DEF evaluate
      <4>2. s \in Runs
        BY Zenon, <2>1, <3>1, CmdRun
      <4>3. new_run(r) \in Record /\ new_run(r).state = "Running"
        BY Zenon, NewRecord
      <4>4. /\ DOMAIN writes = {r, s} /\ writes[r] = rec /\ writes[s] \in Record
            /\ writes[s].state = "Running"
        BY Zenon, <2>5, <4>3
      <4>5. Commit(writes, {})
        BY Zenon, <2>6, <3>1
      <4> HIDE DEF writes, s
      <4>6. QED
        BY Zenon, <2>1, <2>5, <2>6, <4>1, <4>2, <4>4, <4>5, <1>TurnCreated
    <3>2. CASE Cmd(r).op # "child"
      <4>1. Commit(Write(r, rec), {})
        BY Zenon, <2>6, <3>2
      <4>2. QED
        BY Zenon, <2>1, <2>5, <2>6, <4>1, <1>TurnSaved
    <3>3. QED
      BY Zenon, <3>1, <3>2
  <2>8. [left |-> loop.left - 1, wrote |-> loop.wrote \/ run[r].issued = 0, fired |-> loop.fired] \in Loop
    BY <2>1 DEF IInv, TypeOK, Loop
  <2>9. MemoryOK'
    BY Zenon, <2>8, IInvParts DEF drive_value, MemoryOK, WalkBegun, history
  <2>10. LoopDrivable'
    BY Zenon, <2>1, <2>7 DEF drive_value, LoopDrivable, InLoop, Drivable
  <2>11. QED
    BY Zenon, <2>7, <2>9, <2>10 DEF Good
(* A turn that saves the run once and leaves the loop. *)
<1>LeaveGood.
  ASSUME IInv, NEW r \in Runs, InLoop(r), NEW rec \in Record, rec.state # "OutcomeUnknown",
         NEW woken, Commit(Write(r, rec), woken),
         task' = task \/ (Ongoing(r) /\ task' = Evaluated(r)),
         BackToIdle, UNCHANGED <<epoch, history>>,
         dispatched' \subseteq dispatched, parked' \subseteq Runs
  PROVE  Good
  <2> USE <1>LeaveGood
  <2>1. UNCHANGED maybe
    BY Zenon DEF history
  <2>2. QED
    BY Zenon, <2>1, <1>TurnSaved, <1>IdleMemory DEF Good
<1>ParkedRuns. ASSUME IInv PROVE parked \subseteq Runs
  BY Zenon, <1>ParkedRuns DEF IInv, TypeOK
<1>DriveProgressedGood. ASSUME IInv, NEW r \in Runs, drive_progressed(r) PROVE Good
  <2> USE <1>DriveProgressedGood
  <2>1. [run[r] EXCEPT !.wakeup = "now"] \in Record /\ [run[r] EXCEPT !.wakeup = "now"].state = run[r].state
    BY Zenon, RunTyped, WokenRecord DEF Wakeups
  <2>2. QED
    BY Zenon, <2>1, LoopRun, <1>LeaveGood, <1>ParkedRuns DEF drive_progressed, Save
<1>DriveReturnGood. ASSUME IInv, NEW r \in Runs, drive_return(r) PROVE Good
  <2> USE <1>DriveReturnGood
  <2> DEFINE state == IF JoinChildren(r) = "joined" THEN "Completed" ELSE "Nondeterminism"
             rec == Suspended(Driven(run[r]), state)
  <2>1. state \in RunStates /\ state # "OutcomeUnknown"
    BY Zenon DEF RunStates
  <2>2. rec \in Record /\ rec.state = state
    BY Zenon, <2>1, RunTyped, DrivenRecord, SuspendedRecord
  <2>3. Commit(Write(r, rec), {})
    BY Zenon DEF drive_return, Save
  <2> HIDE DEF rec, state
  <2>4. QED
    BY Zenon, <2>1, <2>2, <2>3, <1>LeaveGood, <1>ParkedRuns DEF drive_return, Turn
<1>PropagateSaves.
  ASSUME IInv, NEW r \in Runs, NEW state \in {"Failed", "Nondeterminism"},
         NEW reason \in Reasons \cup {None}, Propagate(r, state, reason)
  PROVE  \E rec \in Record : rec.state # "OutcomeUnknown" /\ Commit(Write(r, rec), {})
  <2> USE <1>PropagateSaves
  <2> DEFINE wake == IF Retrying(r, task) # {} THEN "later" ELSE None
             rec == [Pending(r) EXCEPT !.state = state, !.reason = reason, !.wakeup = wake]
  <2>1. Pending(r) \in Record /\ wake \in Wakeups \cup {None} /\ state \in RunStates
    BY Zenon, PendingRecord DEF Wakeups, RunStates
  <2>2. Commit(Write(r, rec), {})
    BY Zenon DEF Propagate, Save
  <2> HIDE DEF wake
  <2>3. rec \in Record /\ rec.state = state
    BY ZenonT(60), <2>1 DEF Record
  <2> HIDE DEF rec
  <2>4. QED
    BY Zenon, <2>2, <2>3
<1>DrivePropagateGood. ASSUME IInv, NEW r \in Runs, drive_propagate(r) PROVE Good
  <2> USE <1>DrivePropagateGood
  <2>1. \E state \in {"Failed", "Nondeterminism"}, reason \in Reasons \cup {None} :
           Propagate(r, state, reason)
    <3>1. \A child \in Runs : run[child].reason \in Reasons \cup {None}
      BY ZenonT(60), RunTyped DEF Record
    <3>2. QED
      BY Zenon, <3>1 DEF drive_propagate
  <2>2. PICK rec \in Record : rec.state # "OutcomeUnknown" /\ Commit(Write(r, rec), {})
    BY Zenon, <2>1, <1>PropagateSaves
  <2>3. QED
    BY Zenon, <2>2, <1>LeaveGood, <1>ParkedRuns DEF drive_propagate, Turn
<1>DriveContinueGood. ASSUME IInv, NEW r \in Runs, drive_continue(r) PROVE Good
  <2> USE <1>DriveContinueGood
  <2> DEFINE s == Cmd(r).run
             rec == [Pending(r) EXCEPT !.state = "ContinuedAsNew", !.next = s]
             writes == [q \in {r, s} |-> IF q = s THEN new_run(run[r].parent) ELSE rec]
  <2>1. InLoop(r) /\ Ongoing(r) /\ Cmd(r).op = "continue" /\ evaluate(r) = "ContinuedAsNew"
    BY Zenon DEF drive_continue, Evaluates, Turn
  <2>2. s \in Runs
    BY Zenon, <2>1, CmdRun
  <2>3. JoinChildren(r) \in {"joined", "Limit", "Nondeterminism"}
    BY Zenon DEF JoinChildren
  <2>4. Vacant(s)
    BY Zenon, <2>1, <2>3 DEF evaluate
  <2>5. rec \in Record /\ rec.state = "ContinuedAsNew"
    <3>1. Pending(r) \in Record /\ "ContinuedAsNew" \in RunStates
      BY Zenon, PendingRecord DEF RunStates
    <3> HIDE DEF s
    <3>2. QED
      BY ZenonT(60), <2>2, <3>1 DEF Record
  <2>6. new_run(run[r].parent) \in Record /\ new_run(run[r].parent).state = "Running"
    <3>1. run[r].parent \in Runs \cup {None}
      BY ZenonT(60), RunTyped DEF Record
    <3>2. QED
      BY Zenon, <3>1, NewRecord
  <2>7. r # s
    BY Zenon, <2>1, <2>4, LoopRun DEF Vacant, Drivable
  <2>8. Commit(writes, {}) /\ task' = task /\ UNCHANGED maybe
    BY Zenon DEF drive_continue, history
  <2> HIDE DEF rec, s
  <2>9. DOMAIN writes = {r, s} /\ writes[r] = rec /\ writes[s] = new_run(run[r].parent)
    BY Zenon, <2>7
  <2> HIDE DEF writes
  <2>10. RunsOK' /\ TasksOK' /\ UnknownHasCause' /\ FenceStep /\ \A e \in Effects : EffectStep(e)
    BY Zenon, <2>1, <2>2, <2>4, <2>5, <2>6, <2>8, <2>9, <1>TurnCreated
  <2>11. MemoryOK' /\ LoopDrivable'
    BY Zenon, <1>IdleMemory, <1>ParkedRuns DEF drive_continue
  <2>12. QED
    BY Zenon, <2>10, <2>11 DEF Good
<1>DriveErrorGood.
  ASSUME IInv, NEW r \in Runs, InLoop(r), NEW reason \in Reasons, drive_error(r, reason)
  PROVE  Good
  <2> USE <1>DriveErrorGood
  <2>1. CASE Embedded
    <3>1. NoSave /\ UNCHANGED <<task, maybe>>
      BY Zenon, <2>1 DEF drive_error, history
    <3>2. RunsOK' /\ UnknownHasCause' /\ FenceStep
      BY Zenon, <3>1, LoopRun, <1>UnsavedStep
    <3>3. TasksOK' /\ \A e \in Effects : EffectStep(e)
      BY Zenon, <3>1, <1>KeptTasks, IInvParts
    <3>4. MemoryOK' /\ LoopDrivable'
      BY Zenon, <1>IdleMemory, <1>ParkedRuns DEF drive_error
    <3>5. QED
      BY Zenon, <3>2, <3>3, <3>4 DEF Good
  <2>2. CASE ~Embedded
    <3>1. Rejected(run[r], reason) \in Record /\ Rejected(run[r], reason).state # "OutcomeUnknown"
      BY Zenon, RunTyped, RejectedRecord, FailureState
    <3>2. QED
      BY Zenon, <2>2, <3>1, <1>LeaveGood, <1>ParkedRuns DEF drive_error, Save
  <2>3. QED
    BY Zenon, <2>1, <2>2
<1>DriveRefusedGood. ASSUME IInv, NEW r \in Runs, drive_refused(r) PROVE Good
  <2> USE <1>DriveRefusedGood
  <2>1. \E reason \in {"InvalidCommand", "ResourceLimit"} : InLoop(r) /\ drive_error(r, reason)
    BY Zenon DEF drive_refused, Turn, Evaluates
  <2>2. QED
    BY Zenon, <2>1, <1>DriveErrorGood DEF Reasons
<1>DriveFaultGood. ASSUME IInv, NEW r \in Runs, NEW fault, drive_fault(r, fault) PROVE Good
  <2> USE <1>DriveFaultGood
  <2>1. Rejected(run[r], "InvalidCommand") \in Record /\ Rejected(run[r], "InvalidCommand").state # "OutcomeUnknown"
    BY Zenon, RunTyped, RejectedRecord, FailureState, "InvalidCommand" \in Reasons DEF Reasons
  <2>2. /\ Suspended(Driven(run[r]), "Nondeterminism") \in Record
        /\ Suspended(Driven(run[r]), "Nondeterminism").state # "OutcomeUnknown"
    BY Zenon, RunTyped, DrivenRecord, SuspendedRecord, "Nondeterminism" \in RunStates DEF RunStates
  <2>3. PICK rec \in Record : /\ rec.state # "OutcomeUnknown"
                              /\ \E woken : Commit(Write(r, rec), woken)
                              /\ dispatched' \subseteq dispatched
                              /\ parked' \subseteq parked
    BY Zenon, <2>1, <2>2 DEF drive_fault, Save
  <2>4. QED
    BY Zenon, <2>3, <1>LeaveGood, <1>ParkedRuns DEF drive_fault, Turn
<1>DriveWaitGood. ASSUME IInv, NEW r \in Runs, drive_wait(r) PROVE Good
  <2> USE <1>DriveWaitGood
  <2>1. InLoop(r) /\ Ongoing(r) /\ UNCHANGED <<task, maybe>>
    BY Zenon DEF drive_wait, Evaluates, Turn, history
  <2>2. CASE Save(r, Pending(r))
    <3>1. Pending(r) \in Record /\ Pending(r).state # "OutcomeUnknown"
      BY Zenon, PendingRecord
    <3>2. QED
      BY Zenon, <2>1, <2>2, <3>1, <1>LeaveGood, <1>ParkedRuns DEF drive_wait, Save
  <2>3. CASE NoSave
    <3>1. RunsOK' /\ UnknownHasCause' /\ FenceStep
      BY Zenon, <2>1, <2>3, LoopRun, <1>UnsavedStep
    <3>2. TasksOK' /\ \A e \in Effects : EffectStep(e)
      BY Zenon, <2>1, <1>KeptTasks, IInvParts
    <3>3. MemoryOK' /\ LoopDrivable'
      BY Zenon, <1>IdleMemory, <1>ParkedRuns DEF drive_wait
    <3>4. QED
      BY Zenon, <3>1, <3>2, <3>3 DEF Good
  <2>4. QED
    BY Zenon, <2>2, <2>3 DEF drive_wait
<1>DriveParkGood. ASSUME IInv, NEW r \in Runs, drive_park(r) PROVE Good
  <2> USE <1>DriveParkGood
  <2>1. InLoop(r) /\ Ongoing(r)
    BY Zenon DEF drive_park, Evaluates, Turn
  <2>2. CASE drive_error(r, "ResourceLimit")
    BY Zenon, <2>1, <2>2, <1>DriveErrorGood DEF Reasons
  <2>3. CASE /\ parked' = parked \cup {r}
             /\ Save(r, Pending(r))
             /\ task' = Evaluated(r)
             /\ BackToIdle
             /\ UNCHANGED <<epoch, dispatched, history>>
    <3>1. Pending(r) \in Record /\ Pending(r).state # "OutcomeUnknown"
      BY Zenon, PendingRecord
    <3>2. QED
      BY Zenon, <2>1, <2>3, <3>1, <1>LeaveGood, <1>ParkedRuns DEF Save
  <2>4. QED
    BY Zenon, <2>2, <2>3 DEF drive_park
<1>DriveUnimplementedGood. ASSUME IInv, NEW r \in Runs, drive_unimplemented(r) PROVE Good
  <2> USE <1>DriveUnimplementedGood
  <2>1. InLoop(r) /\ Ongoing(r)
    BY Zenon, DispatchesIs DEF drive_unimplemented
  <2>2. /\ Suspended(Pending(r), "NeedsImplementation") \in Record
        /\ Suspended(Pending(r), "NeedsImplementation").state # "OutcomeUnknown"
    BY Zenon, PendingRecord, SuspendedRecord, "NeedsImplementation" \in RunStates DEF RunStates
  <2>3. QED
    BY Zenon, <2>1, <2>2, <1>LeaveGood, <1>ParkedRuns DEF drive_unimplemented, Save
<1>DriveExhaustedGood. ASSUME IInv, NEW r \in Runs, NEW e \in TasksOf(r), drive_exhausted(r, e) PROVE Good
  <2> USE <1>DriveExhaustedGood
  <2> DEFINE tasks == [Evaluated(r) EXCEPT ![e] = Candidate(e)]
             rec == mark_retry_exhausted(r, Pending(r), tasks)
  <2>1. InLoop(r) /\ Ongoing(r) /\ FirstReady(r, e)
    BY Zenon, DispatchesIs DEF drive_exhausted
  <2>2. /\ e \in Effects /\ e[1] = r
        /\ Candidate(e) \in Task
        /\ Candidate(e).state = "Ready"
        /\ Candidate(e).attempt = task[e].attempt
        /\ task[e].state \in {"Absent", "Ready"}
    BY Zenon, <2>1, CandidateIs
  <2>3. /\ Evaluated(r) \in [Effects -> Task]
        /\ \A f \in Effects : f[1] # r => Evaluated(r)[f] = task[f]
        /\ \A f \in Effects :
             \/ Evaluated(r)[f] = task[f]
             \/ task[f].state = "Absent" /\ Evaluated(r)[f].state = "Ready"
        /\ \A f \in Effects : Evaluated(r)[f].attempt = task[f].attempt
    BY Zenon, <2>1, EvaluatedIs
  <2>4. task' = tasks /\ Save(r, rec) /\ UNCHANGED maybe
    BY Zenon DEF drive_exhausted, history
  <2>5. tasks \in [Effects -> Task] /\ tasks[e] = Candidate(e)
        /\ \A f \in Effects \ {e} : tasks[f] = Evaluated(r)[f]
    BY Zenon, <2>1, <2>2, <2>3
  <2>6. rec \in Record /\ (rec.state = "OutcomeUnknown" => has_unresolved_effect(r, tasks))
    BY Zenon, PendingRecord, ExhaustedRecord
  <2> HIDE DEF tasks, rec
  <2>7. \A f \in Effects : f[1] # r => task'[f] = task[f]
    BY Zenon, <2>1, <2>2, <2>3, <2>4, <2>5
  <2>8. RunsOK' /\ UnknownHasCause' /\ FenceStep
    BY Zenon, <2>1, <2>4, <2>6, <2>7, LoopRun, <1>LocalStep, IInvParts DEF Save
  <2>9. ASSUME NEW f \in Effects PROVE EffectStep(f)
    <3>1. /\ maybe'[f] = maybe[f] /\ task'[f].attempt = task[f].attempt
          /\ \/ task'[f].state = task[f].state
             \/ task[f].state = "Absent" /\ task'[f].state = "Ready"
      BY Zenon, <2>1, <2>2, <2>3, <2>4, <2>5
    <3>2. QED
      BY Zenon, <3>1, <1>MovedEffect
  <2>10. TasksOK'
    BY Zenon, <2>4, <2>5 DEF TasksOK
  <2>11. MemoryOK' /\ LoopDrivable'
    BY Zenon, <1>IdleMemory, <1>ParkedRuns DEF drive_exhausted
  <2>12. QED
    BY Zenon, <2>8, <2>9, <2>10, <2>11 DEF Good
<1>DriveDispatchGood. ASSUME IInv, NEW r \in Runs, NEW e \in TasksOf(r), drive_dispatch(r, e) PROVE Good
  <2> USE <1>DriveDispatchGood
  <2> DEFINE n == Candidate(e).attempt + 1
             t == [Candidate(e) EXCEPT !.state = "InFlight", !.attempt = n, !.owner = epoch]
             tasks == [Evaluated(r) EXCEPT ![e] = t]
             wake == IF ReadyTasks(r) # {e} THEN "now" ELSE WaitWakeup(r)
             rec == [Pending(r) EXCEPT !.wakeup = wake]
  <2>1. InLoop(r) /\ Ongoing(r) /\ FirstReady(r, e)
    BY Zenon, DispatchesIs DEF drive_dispatch
  <2>2. /\ e \in Effects /\ e[1] = r
        /\ Candidate(e) \in Task
        /\ Candidate(e).attempt = task[e].attempt
        /\ task[e].state \in {"Absent", "Ready"}
    BY Zenon, <2>1, CandidateIs
  <2>3. /\ Evaluated(r) \in [Effects -> Task]
        /\ \A f \in Effects : f[1] # r => Evaluated(r)[f] = task[f]
        /\ \A f \in Effects :
             \/ Evaluated(r)[f] = task[f]
             \/ task[f].state = "Absent" /\ Evaluated(r)[f].state = "Ready"
        /\ \A f \in Effects : Evaluated(r)[f].attempt = task[f].attempt
    BY Zenon, <2>1, EvaluatedIs
  <2>4. n \in Nat /\ epoch \in Nat /\ n = task[e].attempt + 1
    <3>1. epoch \in Nat
      BY ConstantsAssumption DEF IInv, TypeOK
    <3>2. Candidate(e).attempt \in Nat
      BY Zenon, <2>2 DEF Task
    <3>3. QED
      BY <2>2, <3>1, <3>2
  <2>5. /\ task' = tasks /\ Save(r, rec)
        /\ maybe' = [maybe EXCEPT ![e] = maybe[e] \cup {n}]
        /\ dispatched' = dispatched \cup {<<e, n>>}
    BY Zenon DEF drive_dispatch
  <2>6. rec \in Record /\ rec.state # "OutcomeUnknown"
    <3>1. wake \in Wakeups \cup {None}
      BY Zenon, WaitWakeupType DEF Wakeups
    <3> HIDE DEF wake
    <3>2. QED
      BY Zenon, <3>1, PendingRecord, WokenRecord
  <2> HIDE DEF n
  <2>7. t \in Task /\ t.state = "InFlight" /\ t.attempt = n
    BY Zenon, <2>2, <2>4 DEF Task, TaskStates
  <2> HIDE DEF t, rec
  <2>8. tasks \in [Effects -> Task] /\ tasks[e] = t
        /\ \A f \in Effects \ {e} : tasks[f] = Evaluated(r)[f]
    BY Zenon, <2>1, <2>2, <2>7, <2>3
  <2> HIDE DEF tasks
  <2>9. \A f \in Effects : f[1] # r => task'[f] = task[f]
    BY Zenon, <2>1, <2>2, <2>3, <2>5, <2>8
  <2>10. RunsOK' /\ UnknownHasCause' /\ FenceStep
    BY Zenon, <2>1, <2>5, <2>6, <2>9, LoopRun, <1>LocalStep, IInvParts DEF Save
  <2>11. maybe \in [Effects -> SUBSET Nat]
    BY Zenon, <1>MaybeTyped
  <2>12. ASSUME NEW f \in Effects PROVE EffectStep(f)
    <3>1. CASE f = e
      <4>1. /\ task'[e].state = "InFlight" /\ task'[e].attempt = task[e].attempt + 1
            /\ maybe'[e] = maybe[e] \cup {task[e].attempt + 1}
        BY Zenon, <2>2, <2>4, <2>5, <2>7, <2>8, <2>11
      <4>2. QED
        BY Zenon, <2>2, <3>1, <4>1, <1>DispatchedEffect
    <3>2. CASE f # e
      <4>1. /\ maybe'[f] = maybe[f] /\ task'[f].attempt = task[f].attempt
            /\ \/ task'[f].state = task[f].state
               \/ task[f].state = "Absent" /\ task'[f].state = "Ready"
        BY Zenon, <2>1, <2>3, <2>5, <2>8, <2>11, <3>2
      <4>2. QED
        BY Zenon, <4>1, <1>MovedEffect
    <3>3. QED
      BY Zenon, <3>1, <3>2
  <2>13. TasksOK'
    BY Zenon, <2>5, <2>8 DEF TasksOK
  <2>14. MemoryOK' /\ LoopDrivable'
    <3>1. maybe' \in [Effects -> SUBSET Nat] /\ dispatched' \subseteq Effects \X Nat
      BY SMTT(30), <2>2, <2>4, <2>5, <2>11 DEF IInv, TypeOK
    <3>2. QED
      BY Zenon, <2>2, <3>1, IInvParts DEF drive_dispatch, MemoryOK, WalkBegun, NoLoop, Loop, LoopDrivable
  <2>15. QED
    BY Zenon, <2>10, <2>12, <2>13, <2>14 DEF Good
<1>TurnStepGood. ASSUME IInv, NEW r \in Runs, TurnStep(r) PROVE Good
  <2> USE <1>TurnStepGood
  <2>1. CASE \E e \in TasksOf(r) : drive_spent(r, e)
    BY Zenon, <2>1, DispatchesIs, <1>DriveErrorGood DEF drive_spent, Reasons
  <2>2. CASE drive_cancel(r)
    BY Zenon, <2>2, <1>CancelRequestGood DEF drive_cancel
  <2>3. CASE \E e \in TasksOf(r) : drive_exhausted(r, e) \/ drive_dispatch(r, e)
    BY Zenon, <2>3, <1>DriveExhaustedGood, <1>DriveDispatchGood
  <2>4. CASE \/ drive_value(r) \/ drive_progressed(r) \/ drive_return(r) \/ drive_propagate(r)
             \/ drive_continue(r)
    BY Zenon, <2>4, <1>DriveValueGood, <1>DriveProgressedGood, <1>DriveReturnGood, <1>DrivePropagateGood, <1>DriveContinueGood
  <2>5. CASE \/ drive_refused(r)
             \/ \E fault \in {"nondeterminism", "panic", "malformed"} : drive_fault(r, fault)
             \/ drive_wait(r) \/ drive_park(r) \/ drive_unimplemented(r)
    BY Zenon, <2>5, <1>DriveRefusedGood, <1>DriveFaultGood, <1>DriveWaitGood, <1>DriveParkGood, <1>DriveUnimplementedGood
  <2>6. QED
    BY Zenon, <2>1, <2>2, <2>3, <2>4, <2>5 DEF TurnStep
(* An invoking attempt is as unresolved as one in flight. *)
<1>PrepareRegisteredGood. ASSUME IInv, NEW e \in Effects, NEW n \in Nat, prepare_registered(e, n) PROVE Good
  <2> USE <1>PrepareRegisteredGood
  <2> DEFINE t == In(start_execution(task[e]), "Invoking")
             r == e[1]
  <2>1. task[e] \in Task /\ r \in Runs /\ run[r] \in Record
    BY Zenon, EffectRun, RunTyped, TaskTyped
  <2>2. t \in Task /\ t.state = "Invoking" /\ t.attempt = task[e].attempt
    <3>1. "Invoking" \in TaskStates
      BY Zenon DEF TaskStates
    <3>2. QED
      BY Zenon, <2>1, <3>1, StartTask, InTask
  <2>3. task' = [task EXCEPT ![e] = t] /\ Save(r, run[r]) /\ UNCHANGED maybe /\ task[e].state = "InFlight"
    BY Zenon DEF prepare_registered
  <2> HIDE DEF t
  <2>4. /\ TasksOK' /\ task'[e] = t
        /\ \A f \in Effects \ {e} : task'[f] = task[f]
        /\ \A f \in Effects : f[1] # r => task'[f] = task[f]
    BY Zenon, <2>2, <2>3, OneTask
  <2>5. run[r].state \notin Fence
    BY Zenon, OwnedRun DEF prepare_registered
  <2>6. run[r].state = "OutcomeUnknown" => has_unresolved_effect(r, task')
    BY SMTT(30), <2>1, <2>2, <2>3, <2>4, IInvParts DEF UnknownHasCause, has_unresolved_effect, TasksOf, Live
  <2>7. RunsOK' /\ UnknownHasCause' /\ FenceStep
    BY Zenon, <2>1, <2>3, <2>4, <2>5, <2>6, <1>LocalStep, IInvParts DEF Save
  <2>8. ASSUME NEW f \in Effects PROVE EffectStep(f)
    BY Zenon, <2>2, <2>3, <2>4, <1>MovedEffect, <1>KeptEffect
  <2>9. MemoryOK' /\ LoopDrivable'
    <3>1. invoked' \in [Effects -> Nat] /\ threads' \subseteq Effects \X Nat
      BY DEF prepare_registered, IInv, TypeOK
    <3>2. QED
      BY Zenon, <3>1, IInvParts DEF prepare_registered, MemoryOK, WalkBegun, LoopDrivable
  <2>10. QED
    BY Zenon, <2>4, <2>7, <2>8, <2>9 DEF Good
<1>WokenRuns. ASSUME IInv, NEW e, NEW n PROVE parked \ Woken(e, n) \subseteq Runs
  BY Zenon, <1>WokenRuns, <1>ParkedRuns
<1>RefuseGood.
  ASSUME IInv, NEW e \in Effects, NEW n, owned_task(e, n), run[e[1]].state \notin Fence,
         NEW rec \in Record, rec.state # "OutcomeUnknown", Refuse(e, n, rec)
  PROVE  Good
  <2> USE <1>RefuseGood
  <2> DEFINE r == e[1]
             t == Unexecuted(task[e])
  <2>1. task[e] \in Task /\ r \in Runs
    BY Zenon, EffectRun, TaskTyped
  <2>2. t \in Task /\ t.state = "Ready" /\ t.attempt = task[e].attempt
    BY Zenon, <2>1, UnexecutedTask
  <2>3. /\ task' = [task EXCEPT ![e] = t] /\ Commit(Write(r, rec), Woken(e, n))
        /\ maybe' = [maybe EXCEPT ![e] = maybe[e] \ {n}] /\ task[e].state = "InFlight" /\ task[e].attempt = n
    BY Zenon DEF Refuse, owned_task
  <2> HIDE DEF t
  <2>4. /\ TasksOK' /\ task'[e] = t
        /\ \A f \in Effects \ {e} : task'[f] = task[f]
        /\ \A f \in Effects : f[1] # r => task'[f] = task[f]
    BY Zenon, <2>2, <2>3, OneTask
  <2>5. RunsOK' /\ UnknownHasCause' /\ FenceStep
    BY Zenon, <2>1, <2>3, <2>4, <1>LocalStep, IInvParts
  <2>6. maybe \in [Effects -> SUBSET Nat]
    BY Zenon, <1>MaybeTyped
  <2>7. ASSUME NEW f \in Effects PROVE EffectStep(f)
    <3>1. CASE f = e
      <4>1. /\ task[e].state \in Live \cup {"Uncertain"} /\ task'[e].state = "Ready"
            /\ task'[e].attempt = task[e].attempt /\ maybe'[e] = maybe[e] \ {task[e].attempt}
        BY Zenon, <2>2, <2>3, <2>4, <2>6 DEF Live
      <4>2. QED
        BY Zenon, <3>1, <4>1, <1>DisprovedEffect
    <3>2. CASE f # e
      BY Zenon, <2>3, <2>4, <2>6, <3>2, <1>KeptEffect
    <3>3. QED
      BY Zenon, <3>1, <3>2
  <2>8. MemoryOK' /\ LoopDrivable'
    <3>1. maybe' \in [Effects -> SUBSET Nat]
      BY Zenon, <2>3, <2>6
    <3>2. dispatched' \subseteq Effects \X Nat /\ parked' \subseteq Runs
      BY Zenon, <1>WokenRuns DEF Refuse, release_dispatch, IInv, TypeOK
    <3>3. QED
      BY Zenon, <3>1, <3>2, IInvParts DEF Refuse, BackToIdle, MemoryOK, WalkBegun, NoLoop, Loop, LoopDrivable
  <2>9. QED
    BY Zenon, <2>4, <2>5, <2>7, <2>8 DEF Good
<1>PrepareUnresolvedGood. ASSUME IInv, NEW e \in Effects, NEW n, prepare_unresolved(e, n) PROVE Good
  <2> USE <1>PrepareUnresolvedGood
  <2>1. /\ Suspended(run[e[1]], "NeedsInput") \in Record
        /\ Suspended(run[e[1]], "NeedsInput").state # "OutcomeUnknown"
    BY Zenon, EffectRun, RunTyped, SuspendedRecord, "NeedsInput" \in RunStates DEF RunStates
  <2>2. QED
    BY Zenon, <2>1, OwnedRun, <1>RefuseGood DEF prepare_unresolved, owned_attempt
<1>RejectDispatchGood. ASSUME IInv, NEW e \in Effects, NEW n, NEW reason, reject_dispatch(e, n, reason) PROVE Good
  <2> USE <1>RejectDispatchGood
  <2>1. reason \in Reasons /\ run[e[1]].state \notin Fence
    BY Zenon DEF reject_dispatch, RejectReasons, ensure_active, Inactive, Fence
  <2>2. Rejected(run[e[1]], reason) \in Record /\ Rejected(run[e[1]], reason).state # "OutcomeUnknown"
    BY Zenon, <2>1, EffectRun, RunTyped, RejectedRecord, FailureState
  <2>3. QED
    BY Zenon, <2>1, <2>2, <1>RefuseGood DEF reject_dispatch
<1>PrepareStepGood. ASSUME IInv, NEW e \in Effects, NEW n \in Nat, PrepareStep(e, n) PROVE Good
  BY Zenon, <1>PrepareStepGood, <1>PrepareRegisteredGood, <1>PrepareUnresolvedGood, <1>RejectDispatchGood DEF PrepareStep
(* A result: applied to the attempt that owns the task, or dropped. *)
<1>SettleGood.
  ASSUME IInv, NEW e \in Effects, NEW n \in Nat, Arrives(e, n),
         NEW t \in Task, NEW rec \in Record, Settle(e, n, t, rec),
         t.attempt = task[e].attempt,
         \/ t.state \in {"Done", "Uncertain"}
         \/ ~Unsafe(e) /\ t.state \in {"Ready", "Retrying"},
         owned_attempt(e, n) /\ rec.state = "OutcomeUnknown" =>
           has_unresolved_effect(e[1], [task EXCEPT ![e] = t])
  PROVE  Good
  <2> USE <1>SettleGood
  <2> DEFINE r == e[1]
  <2>1. r \in Runs
    BY Zenon, EffectRun
  <2>2. MemoryOK' /\ LoopDrivable' /\ UNCHANGED maybe
    <3>1. dispatched' \subseteq Effects \X Nat /\ parked' \subseteq Runs /\ threads' \subseteq Effects \X Nat
      BY Zenon, <1>WokenRuns DEF Settle, release_dispatch, IInv, TypeOK
    <3>2. QED
      BY Zenon, <3>1, IInvParts DEF Settle, Arrives, MemoryOK, WalkBegun, LoopDrivable, history
  <2>3. CASE owned_attempt(e, n)
    <3>1. task' = [task EXCEPT ![e] = t] /\ Commit(Write(r, rec), Woken(e, n))
      BY Zenon, <2>3 DEF Settle
    <3>2. /\ TasksOK' /\ task'[e] = t
          /\ \A f \in Effects \ {e} : task'[f] = task[f]
          /\ \A f \in Effects : f[1] # r => task'[f] = task[f]
      BY Zenon, <3>1, OneTask
    <3>3. run[r].state \notin Fence /\ task[e].state \in Live
      BY Zenon, <2>3, OwnedRun
    <3>4. RunsOK' /\ UnknownHasCause' /\ FenceStep
      <4>1. rec.state = "OutcomeUnknown" => has_unresolved_effect(r, task')
        BY Zenon, <2>3, <3>1
      <4>2. RunsOK /\ UnknownHasCause
        BY Zenon, IInvParts
      <4>3. QED
        BY Zenon, <2>1, <3>1, <3>2, <3>3, <4>1, <4>2, <1>LocalStep
    <3>5. ASSUME NEW f \in Effects PROVE EffectStep(f)
      BY Zenon, <2>2, <3>2, <3>3, <1>MovedEffect, <1>KeptEffect
    <3>6. QED
      BY Zenon, <2>2, <3>2, <3>4, <3>5 DEF Good
  <2>4. CASE ~owned_attempt(e, n)
    <3>1. task' = task /\ Commit(<<>>, Woken(e, n))
      BY Zenon, <2>4 DEF Settle
    <3>2. /\ RunsOK'
          /\ \A q \in Runs : run'[q].state = run[q].state
      BY SMTT(30), <3>1, CommitRuns, IInvParts, DOMAIN <<>> = {} DEF RunsOK
    <3>3. UnknownHasCause' /\ FenceStep
      <4>1. UnknownHasCause
        BY Zenon, IInvParts
      <4>2. ASSUME NEW q \in Runs, run'[q].state = "OutcomeUnknown"
            PROVE  has_unresolved_effect(q, task')
        <5>1. run[q].state = "OutcomeUnknown"
          BY Zenon, <3>2, <4>2
        <5>2. has_unresolved_effect(q, task)
          BY Zenon, <4>1, <5>1 DEF UnknownHasCause
        <5>3. QED
          BY Zenon, <3>1, <5>2
      <4>3. UnknownHasCause'
        BY Zenon, <4>2 DEF UnknownHasCause, has_unresolved_effect, TasksOf, Unsafe
      <4>4. FenceStep
        BY Zenon, <3>1, <3>2 DEF FenceStep
      <4>5. QED
        BY Zenon, <4>3, <4>4
    <3>4. TasksOK' /\ \A f \in Effects : EffectStep(f)
      BY Zenon, <2>2, <3>1, <1>KeptTasks, IInvParts
    <3>5. QED
      BY Zenon, <2>2, <3>2, <3>3, <3>4 DEF Good
  <2>5. QED
    BY Zenon, <2>3, <2>4
<1>CompleteGood. ASSUME IInv, NEW e \in Effects, NEW n \in Nat, complete(e, n) PROVE Good
  <2> USE <1>CompleteGood
  <2> DEFINE t     == In(mark_execution(task[e]), "Done")
             rec   == run[e[1]]
             ended == ~has_unresolved_effect(e[1], [task EXCEPT ![e] = t])
             after == CASE rec.state = "OutcomeUnknown" /\ ended /\ rec.reason = "RetryExhausted" ->
                             [rec EXCEPT !.state = "Failed", !.wakeup = None]
                        [] rec.state = "OutcomeUnknown" /\ ended /\ rec.reason # "RetryExhausted" ->
                             [rec EXCEPT !.state = "Running", !.wakeup = "now"]
                        [] rec.state = "OutcomeUnknown" /\ ~ended -> [rec EXCEPT !.wakeup = None]
                        [] OTHER -> [rec EXCEPT !.wakeup = "now"]
  <2>1. Arrives(e, n) /\ Settle(e, n, t, after)
    BY Zenon DEF complete
  <2>2. t \in Task /\ t.state = "Done" /\ t.attempt = task[e].attempt
    BY Zenon, MarkedTask, "Done" \in TaskStates DEF TaskStates
  <2>3. rec \in Record
    BY Zenon, EffectRun, RunTyped
  <2> HIDE DEF t, rec, ended
  <2>4. /\ [rec EXCEPT !.state = "Failed", !.wakeup = None] \in Record
        /\ [rec EXCEPT !.state = "Failed", !.wakeup = None].state = "Failed"
    BY ZenonT(60), <2>3 DEF Record, RunStates
  <2>5. /\ [rec EXCEPT !.state = "Running", !.wakeup = "now"] \in Record
        /\ [rec EXCEPT !.state = "Running", !.wakeup = "now"].state = "Running"
    BY ZenonT(60), <2>3 DEF Record, RunStates, Wakeups
  <2>6. \A w \in {None, "now"} : [rec EXCEPT !.wakeup = w] \in Record /\ [rec EXCEPT !.wakeup = w].state = rec.state
    BY Zenon, <2>3, WokenRecord DEF Wakeups
  <2>7. after \in Record /\ (after.state = "OutcomeUnknown" => ~ended)
    <3>1. CASE rec.state = "OutcomeUnknown" /\ ended /\ rec.reason = "RetryExhausted"
      BY Zenon, <2>4, <3>1
    <3>2. CASE rec.state = "OutcomeUnknown" /\ ended /\ rec.reason # "RetryExhausted"
      BY Zenon, <2>5, <3>2
    <3>3. CASE rec.state = "OutcomeUnknown" /\ ~ended
      <4>1. after = [rec EXCEPT !.wakeup = None]
        BY Zenon, <3>3
      <4>2. QED
        BY Zenon, <2>6, <3>3, <4>1
    <3>4. CASE rec.state # "OutcomeUnknown"
      <4>1. after = [rec EXCEPT !.wakeup = "now"]
        BY Zenon, <3>4
      <4>2. QED
        BY Zenon, <2>6, <3>4, <4>1
    <3>5. QED
      BY Zenon, <3>1, <3>2, <3>3, <3>4
  <2> HIDE DEF after
  <2>8. after.state = "OutcomeUnknown" => has_unresolved_effect(e[1], [task EXCEPT ![e] = t])
    BY Zenon, <2>7 DEF ended
  <2>9. QED
    BY Zenon, <2>1, <2>2, <2>7, <2>8, <1>SettleGood
<1>FailGood. ASSUME IInv, NEW e \in Effects, NEW n \in Nat, NEW failure, fail(e, n, failure) PROVE Good
  <2> USE <1>FailGood
  <2> DEFINE t   == mark_execution(task[e])
             rec == run[e[1]]
  <2>1. Arrives(e, n) /\ rec \in Record
    BY Zenon, EffectRun, RunTyped DEF fail
  <2>2. \A s \in TaskStates : In(t, s) \in Task /\ In(t, s).state = s /\ In(t, s).attempt = task[e].attempt
    BY Zenon, MarkedTask
  <2>3. {"Ready", "Retrying", "Uncertain"} \subseteq TaskStates
    BY Zenon DEF TaskStates
  <2>4. CASE /\ ~Unsafe(e)
             /\ Settle(e, n, In(t, "Ready"),
                       mark_retry_exhausted(e[1], rec, [task EXCEPT ![e] = In(t, "Ready")]))
    <3> DEFINE tasks == [task EXCEPT ![e] = In(t, "Ready")]
               after == mark_retry_exhausted(e[1], rec, tasks)
    <3>1. after \in Record /\ (after.state = "OutcomeUnknown" => has_unresolved_effect(e[1], tasks))
      BY Zenon, <2>1, ExhaustedRecord
    <3>2. Settle(e, n, In(t, "Ready"), after)
      BY Zenon, <2>4
    <3> HIDE DEF t, after
    <3>3. QED
      BY Zenon, <2>1, <2>2, <2>3, <2>4, <3>1, <3>2, <1>SettleGood
  <2>5. CASE /\ ~Unsafe(e)
             /\ Settle(e, n, In(t, "Retrying"),
                       [rec EXCEPT !.wakeup = IF rec.wakeup = "now" THEN "now" ELSE "later"])
    <3> DEFINE after == [rec EXCEPT !.wakeup = IF rec.wakeup = "now" THEN "now" ELSE "later"]
    <3>1. after \in Record /\ after.state = rec.state
      BY Zenon, <2>1, WokenRecord DEF Wakeups
    <3>2. Settle(e, n, In(t, "Retrying"), after)
      BY Zenon, <2>5
    <3>3. ASSUME owned_attempt(e, n), rec.state = "OutcomeUnknown"
          PROVE  has_unresolved_effect(e[1], [task EXCEPT ![e] = In(t, "Retrying")])
      <4>1. task \in [Effects -> Task]
        BY Zenon DEF IInv, TypeOK
      <4>2. PICK f \in TasksOf(e[1]) : task[f].state = "Uncertain" \/ (task[f].state \in Live /\ Unsafe(f))
        BY Zenon, <3>3, EffectRun, IInvParts DEF UnknownHasCause, has_unresolved_effect
      <4>3. f # e
        BY Zenon, <2>5, <3>3, <4>2, OwnedRun DEF Live
      <4> HIDE DEF t
      <4>4. [task EXCEPT ![e] = In(t, "Retrying")][f] = task[f]
        BY Zenon, <4>1, <4>2, <4>3 DEF TasksOf
      <4>5. QED
        BY Zenon, <4>2, <4>4 DEF has_unresolved_effect
    <3> HIDE DEF t, after
    <3>4. QED
      BY Zenon, <2>1, <2>2, <2>3, <2>5, <3>1, <3>2, <3>3, <1>SettleGood DEF rec
  <2>6. CASE Settle(e, n, In(t, "Uncertain"), Suspended(rec, "OutcomeUnknown"))
    <3>1. Suspended(rec, "OutcomeUnknown") \in Record
      BY Zenon, <2>1, SuspendedRecord, "OutcomeUnknown" \in RunStates DEF RunStates
    <3>2. has_unresolved_effect(e[1], [task EXCEPT ![e] = In(t, "Uncertain")])
      <4>1. task \in [Effects -> Task]
        BY Zenon DEF IInv, TypeOK
      <4>2. In(t, "Uncertain").state = "Uncertain"
        BY Zenon, <2>2, <2>3
      <4> HIDE DEF t
      <4>3. [task EXCEPT ![e] = In(t, "Uncertain")][e].state = "Uncertain"
        BY Zenon, <4>1, <4>2
      <4>4. QED
        BY Zenon, <4>3 DEF has_unresolved_effect, TasksOf
    <3> HIDE DEF t, rec
    <3>3. QED
      BY Zenon, <2>1, <2>2, <2>3, <2>6, <3>1, <3>2, <1>SettleGood
  <2>7. QED
    BY Zenon, <2>4, <2>5, <2>6 DEF fail
(* The tasks of a run after a reconciliation. *)
<1>ReconcileGood.
  ASSUME IInv, NEW e \in Effects, NEW n \in Nat, NEW observed \in BOOLEAN, reconcile(e, n, observed)
  PROVE  Good
  <2> USE <1>ReconcileGood
  <2> DEFINE r     == e[1]
             s     == IF observed THEN "Done" ELSE "Ready"
             t     == In(RecoveredTask(e), s)
             tasks == [RecoveredTasks(r) EXCEPT ![e] = t]
             state == CASE has_unresolved_effect(r, tasks) -> "OutcomeUnknown"
                        [] ~has_unresolved_effect(r, tasks) /\ run[r].reason = "RetryExhausted" -> "Failed"
                        [] OTHER -> "Running"
             wake  == IF state = "Failed" THEN None ELSE "now"
             rec   == [run[r] EXCEPT !.state = state, !.audit = run[r].audit + 1, !.wakeup = wake]
  <2>1. /\ phase = "idle" /\ run[r].state = "OutcomeUnknown" /\ RecoveredTask(e).state = "Uncertain"
        /\ task[e].attempt = n
        /\ task' = tasks /\ Save(r, rec)
        /\ maybe' = [maybe EXCEPT ![e] = IF observed THEN maybe[e] ELSE maybe[e] \ {n}]
        /\ UNCHANGED <<epoch, memory, invoked>>
    BY Zenon DEF reconcile, MayReconcile, Expected
  <2>2. r \in Runs /\ run[r] \in Record /\ run[r].audit + 1 \in Nat
    BY EffectRun, RunTyped DEF Record
  <2>3. s \in TaskStates /\ s \in {"Done", "Ready"}
    BY Zenon DEF TaskStates
  <2>4. t \in Task /\ t.state = s /\ t.attempt = task[e].attempt
    BY Zenon, <2>3, RecoveredTaskIs, InTask
  <2>5. state \in RunStates /\ wake \in Wakeups \cup {None}
        /\ (state = "OutcomeUnknown" => has_unresolved_effect(r, tasks))
    BY Zenon DEF RunStates, Wakeups
  <2>6. RecoveredTasks(r) \in [Effects -> Task]
    BY Zenon, <2>2, RecoveredTasksAre
  <2> HIDE DEF t
  <2>7. tasks \in [Effects -> Task] /\ tasks[e] = t /\ \A f \in Effects \ {e} : tasks[f] = RecoveredTasks(r)[f]
    BY Zenon, <2>4, <2>6
  <2> HIDE DEF tasks, state, wake
  <2>8. rec \in Record /\ rec.state = state
    BY ZenonT(60), <2>2, <2>5 DEF Record
  <2>9. \A f \in Effects : f[1] # r => task'[f] = task[f]
    BY Zenon, <2>1, <2>2, <2>7, RecoveredTasksAre
  <2>10. RunsOK' /\ UnknownHasCause' /\ FenceStep
    <3>1. run[r].state \notin Fence
      BY Zenon, <2>1 DEF Fence
    <3> HIDE DEF rec, r
    <3>2. QED
      BY Zenon, <2>1, <2>2, <2>5, <2>8, <2>9, <3>1, <1>LocalStep, IInvParts DEF Save
  <2>11. maybe \in [Effects -> SUBSET Nat]
    BY Zenon, <1>MaybeTyped
  <2>12. task[e].state \in Live \cup {"Uncertain"}
    BY Zenon, <2>1, RecoveredTaskIs
  <2>13. ASSUME NEW f \in Effects PROVE EffectStep(f)
    <3>1. CASE f = e /\ observed
      <4>1. maybe'[e] = maybe[e] /\ task'[e].attempt = task[e].attempt /\ task'[e].state = "Done"
        BY Zenon, <2>1, <2>4, <2>7, <2>11, <3>1
      <4>2. QED
        BY Zenon, <2>12, <3>1, <4>1, <1>MovedEffect
    <3>2. CASE f = e /\ ~observed
      <4>1. /\ maybe'[e] = maybe[e] \ {task[e].attempt} /\ task'[e].attempt = task[e].attempt
            /\ task'[e].state = "Ready"
        BY Zenon, <2>1, <2>4, <2>7, <2>11, <3>2
      <4>2. QED
        BY Zenon, <2>12, <3>2, <4>1, <1>DisprovedEffect
    <3>3. CASE f # e
      <4>1. task'[f] = RecoveredTasks(r)[f]
        BY Zenon, <2>1, <2>7, <3>3
      <4>2. maybe'[f] = maybe[f]
        BY Zenon, <2>1, <2>11, <3>3
      <4>3. task'[f].attempt = task[f].attempt
        <5>1. RecoveredTasks(r)[f].attempt = task[f].attempt
          BY Zenon, <2>2, RecoveredTasksAre
        <5>2. QED
          BY Zenon, <4>1, <5>1
      <4>4. task'[f] = task[f] \/ task'[f] = RecoveredTask(f)
        BY Zenon, <2>2, <4>1, RecoveredTasksAre
      <4>5. \/ task'[f].state = task[f].state
            \/ task[f].state \in Live /\ task'[f].state = "Uncertain"
            \/ ~Unsafe(f) /\ task[f].state \in Live /\ task'[f].state \in {"Ready", "Retrying"}
        BY Zenon, <4>4, RecoveredTaskIs
      <4>6. QED
        BY Zenon, <4>2, <4>3, <4>5, <1>MovedEffect
    <3>4. QED
      BY Zenon, <3>1, <3>2, <3>3
  <2>14. TasksOK'
    BY Zenon, <2>1, <2>7 DEF TasksOK
  <2>15. MemoryOK' /\ LoopDrivable'
    <3>1. maybe' \in [Effects -> SUBSET Nat]
      BY Zenon, <2>1, <2>11
    <3>2. QED
      BY Zenon, <2>1, <3>1, IInvParts DEF MemoryOK, WalkBegun, LoopDrivable, memory
  <2>16. QED
    BY Zenon, <2>10, <2>13, <2>14, <2>15 DEF Good
<1>NextGood. ASSUME IInv, Next PROVE Good
  <2> USE <1>NextGood
  <2>1. CASE open \/ cancel_descend \/ cancel_finish
    BY Zenon, <2>1, <1>OpenGood, <1>CancelDescendGood, <1>CancelFinishGood
  <2>2. CASE \E r \in Runs : start(r) \/ signal(r) \/ resume(r) \/ cancel(r) \/ reconcile_refused(r)
    BY Zenon, <2>2, <1>StartGood, <1>SignalGood, <1>ResumeGood, <1>CancelRequestGood, <1>ReconcileRefusedGood DEF cancel
  <2>3. CASE \E r \in Runs : DriveStep(r) \/ TurnStep(r)
    BY Zenon, <2>3, <1>DriveStepGood, <1>TurnStepGood
  <2>4. CASE \E e \in Effects : \E n \in 1..task[e].attempt :
               \/ PrepareStep(e, n)
               \/ ResultStep(e, n)
               \/ \E observed \in BOOLEAN : reconcile(e, n, observed)
    <3>1. PICK e \in Effects : \E n \in Nat : \/ PrepareStep(e, n)
                                              \/ ResultStep(e, n)
                                              \/ \E observed \in BOOLEAN : reconcile(e, n, observed)
      <4>1. \A e \in Effects : 1..task[e].attempt \subseteq Nat
        BY DEF IInv, TypeOK, Task
      <4>2. QED
        BY Zenon, <2>4, <4>1
    <3>2. QED
      BY Zenon, <3>1, <1>PrepareStepGood, <1>CompleteGood, <1>FailGood, <1>ReconcileGood DEF ResultStep
  <2>5. QED
    BY Zenon, <2>1, <2>2, <2>3, <2>4 DEF Next
<1>StutterGood. ASSUME IInv, UNCHANGED vars PROVE Good
  <2> USE <1>StutterGood
  <2>1. UNCHANGED <<epoch, memory, history>> /\ UNCHANGED <<task, maybe>> /\ UNCHANGED <<run, column>>
    BY Zenon DEF vars, history
  <2>2. MemoryOK' /\ TasksOK' /\ \A e \in Effects : EffectStep(e)
    BY Zenon, <2>1, <1>KeptMemory, <1>KeptTasks, IInvParts
  <2>3. RunsOK' /\ UnknownHasCause' /\ LoopDrivable' /\ FenceStep
    BY Zenon, <2>1, IInvParts DEF RunsOK, UnknownHasCause, has_unresolved_effect, LoopDrivable, FenceStep,
                           TasksOf, Unsafe, memory
  <2>4. QED
    BY Zenon, <2>2, <2>3 DEF Good
<1>1. QED
  BY Zenon, <1>NextGood, <1>StutterGood

LEMMA InitIInv == ASSUME Init PROVE IInv
<1>1. new_run(None) \in Record
  BY Zenon, NewRecord
<1>2. [new_run(None) EXCEPT !.state = "Absent", !.wakeup = None] \in Record
  BY ZenonT(60), <1>1 DEF Record, RunStates
<1>3. NoTask \in Task /\ NoTask.state = "Absent" /\ NoTask.attempt = 0
  BY Zenon DEF NoTask, Task, TaskStates
<1>4. [new_run(None) EXCEPT !.state = "Absent", !.wakeup = None].state = "Absent"
  BY ZenonT(60), <1>1 DEF Record
<1>5. TypeOK
  BY <1>2, <1>3, ConstantsAssumption DEF Init, TypeOK, NoLoop, Loop
<1>6. UnsafeAttempts /\ AbsentTasks
  BY Zenon, <1>3 DEF Init, UnsafeAttempts, AbsentTasks
<1>7. LoopDrivable /\ WalkBegun
  BY Zenon DEF Init, LoopDrivable, WalkBegun
<1>8. UnknownHasCause
  BY Zenon, <1>4 DEF Init, UnknownHasCause
<1>9. QED
  BY Zenon, <1>5, <1>6, <1>7, <1>8 DEF IInv

----------------------------------------------------------------------------
(* IInv holds throughout, and every step is a good one. *)
LEMMA Inductive == Spec => []IInv /\ [][Good]_vars
<1>1. Init => IInv
  BY Zenon, InitIInv
<1>2. IInv /\ [Next]_vars => IInv' /\ Good
  BY Zenon, StepGood, GoodKeepsIInv
<1>3. QED
  BY <1>1, <1>2, PTL DEF Spec

(* Every persisted record, task and in-memory structure keeps its type,    *)
(* for any workflows, any limits and any number of restarts.               *)
THEOREM TypeCorrect == Spec => []TypeOK
<1>1. IInv => TypeOK
  BY Zenon DEF IInv
<1>2. QED
  BY <1>1, Inductive, PTL

(* No restart, failure, late result, refusal or stale reconciliation lets  *)
(* an effect that is not safe to repeat run twice, whatever the program.   *)
THEOREM UnsafeRunsOnce == Spec => []UnsafeOnce
<1>1. IInv => UnsafeOnce
  BY Zenon DEF IInv, UnsafeAttempts, UnsafeOnce
<1>2. QED
  BY <1>1, Inductive, PTL

(* A run that reports OutcomeUnknown always has an unresolved effect, so   *)
(* that a result or a reconciliation can release it.                       *)
THEOREM UnknownIsCaused == Spec => []UnknownHasCause
<1>1. IInv => UnknownHasCause
  BY Zenon DEF IInv
<1>2. QED
  BY <1>1, Inductive, PTL

(* The engine implements the abstract life of every activity effect: its   *)
(* initial states map to Effect's, and each of its steps to a step of      *)
(* Effect, or to none, for every effect at once.                           *)
THEOREM ImplementsEffect == Spec => EffectsFollowProtocol
<1>1. Init => \A e \in Effects : Life(e)!Init
  BY DEF Init, NoTask, Life!Init
<1>2. [Good]_vars => [\A e \in Effects : [Life(e)!Next]_(Life(e)!vars)]_vars
  BY Zenon DEF Good, EffectStep
<1>3. QED
  BY <1>1, <1>2, Inductive, PTL DEF Spec, EffectsFollowProtocol

(* The recorded result of an activity is never replaced.                   *)
THEOREM ResultsAreFinal == Spec => DoneIsFinal
<1>1. IInv /\ [Good]_vars => [\A e \in Effects : task[e].state = "Done" =>
         task'[e].state = "Done" /\ task'[e].attempt = task[e].attempt]_vars
  BY Zenon DEF Good, EffectStep, Life!Next, Life!vars, Life!create, Life!dispatch, Life!invoke,
         Life!settle, Life!doubt, Life!repeat, Life!elapse, Life!disprove, Life!Move, Life!Live
<1>2. QED
  BY <1>1, Inductive, PTL DEF DoneIsFinal

(* From the request on, a cancellation fences every task of the run and    *)
(* cannot be undone, by whatever call and in whatever order.               *)
THEOREM CancellationFences == Spec => FencedByCancel
<1>1. [Good]_vars => [\A r \in Runs : run[r].state \in {"CancelRequested", "Cancelled"} =>
         /\ run'[r].state \in {"CancelRequested", "Cancelled"}
         /\ \A e \in TasksOf(r) : task'[e] = task[e]]_vars
  BY Zenon DEF Good, FenceStep, Fence
<1>2. QED
  BY <1>1, Inductive, PTL DEF FencedByCancel

----------------------------------------------------------------------------
(* The retry budget.  Every handler invoked was charged to its task before *)
(* it ran, and an attempt is handed out only while a charge is left.       *)

Charged(t, k) ==
    /\ t.charged <= t.attempt
    /\ k <= t.exec
    /\ k <= MaxAttempts
    /\ t.state = "Absent" => k = 0

(* An attempt in flight has yet to be charged. *)
Budgeted(t, k) ==
    /\ Charged(t, k)
    /\ t.state = "InFlight" => t.charged # t.attempt /\ t.exec < MaxAttempts

BudgetInv == \A e \in Effects : Budgeted(task[e], invoked[e])

(* Every step keeps the budget: first the operations on a task, then the   *)
(* actions that use them.                                                  *)
LEMMA NextBudget == ASSUME IInv, BudgetInv, Next PROVE BudgetInv'
<1>InCharged.
  ASSUME NEW t \in Task, NEW k \in Nat, Charged(t, k), NEW s \in TaskStates, s # "Absent"
  PROVE  Charged(In(t, s), k)
  <2> USE <1>InCharged
  <2>1. /\ In(t, s).charged = t.charged /\ In(t, s).exec = t.exec
        /\ In(t, s).attempt = t.attempt /\ In(t, s).state = s
    BY Zenon DEF In, Task
  <2>2. QED
    BY Zenon, <2>1 DEF Charged
<1>InferCharged.
  ASSUME NEW t \in Task, NEW k \in Nat, Charged(t, k)
  PROVE  Charged(infer_prior_execution(t), k)
  <2> USE <1>InferCharged
  <2>1. CASE t.known = "unexecuted" \/ t.exec # 0 \/ t.attempt = 0
    BY Zenon, <2>1 DEF infer_prior_execution
  <2>2. CASE ~(t.known = "unexecuted" \/ t.exec # 0 \/ t.attempt = 0)
    <3> DEFINE u == [t EXCEPT !.exec = t.attempt, !.charged = t.attempt]
    <3>1. infer_prior_execution(t) = u /\ t.exec = 0
      BY Zenon, <2>2 DEF infer_prior_execution
    <3>2. u.charged = t.attempt /\ u.exec = t.attempt /\ u.attempt = t.attempt /\ u.state = t.state
      BY Zenon DEF Task
    <3>3. t.attempt \in Nat
      BY Zenon DEF Task
    <3> HIDE DEF u
    <3>4. Charged(u, k)
      BY <3>1, <3>2, <3>3 DEF Charged
    <3>5. QED
      BY Zenon, <3>1, <3>4
  <2>3. QED
    BY Zenon, <2>1, <2>2
<1>StartCharged.
  ASSUME NEW t \in Task, NEW k \in Nat, Charged(t, k)
  PROVE  /\ Charged(start_execution(t), k)
         /\ t.charged # t.attempt => start_execution(t).exec = t.exec + 1
  <2> USE <1>StartCharged
  <2>1. CASE t.charged = t.attempt
    <3> DEFINE u == [t EXCEPT !.known = "unknown"]
    <3>1. start_execution(t) = u
      BY Zenon, <2>1 DEF start_execution
    <3>2. u.charged = t.charged /\ u.exec = t.exec /\ u.attempt = t.attempt /\ u.state = t.state
      BY Zenon DEF Task
    <3> HIDE DEF u
    <3>3. QED
      BY Zenon, <2>1, <3>1, <3>2 DEF Charged
  <2>2. CASE t.charged # t.attempt
    <3>1. start_execution(t) = [state |-> t.state, attempt |-> t.attempt, owner |-> t.owner,
                                exec |-> t.exec + 1, charged |-> t.attempt, known |-> "unknown"]
      BY Zenon, <2>2 DEF start_execution, Task
    <3>2. t.attempt \in Nat /\ t.exec \in Nat
      BY Zenon DEF Task
    <3>3. QED
      BY <3>1, <3>2 DEF Charged
  <2>3. QED
    BY Zenon, <2>1, <2>2
<1>MarkCharged.
  ASSUME NEW t \in Task, NEW k \in Nat, Charged(t, k), NEW s \in TaskStates, s # "Absent"
  PROVE  Charged(In(mark_execution(t), s), k)
  <2> USE <1>MarkCharged
  <2>1. infer_prior_execution(t) \in Task /\ Charged(infer_prior_execution(t), k)
    BY Zenon, InferTask, <1>InferCharged
  <2>2. mark_execution(t) \in Task /\ Charged(mark_execution(t), k)
    BY Zenon, <2>1, StartTask, <1>StartCharged DEF mark_execution
  <2>3. QED
    BY Zenon, <2>2, <1>InCharged
<1>UnexecutedCharged.
  ASSUME NEW t \in Task, NEW k \in Nat, Charged(t, k)
  PROVE  Charged(Unexecuted(t), k)
  <2> USE <1>UnexecutedCharged
  <2>1. /\ Unexecuted(t).charged = t.charged /\ Unexecuted(t).exec = t.exec
        /\ Unexecuted(t).attempt = t.attempt /\ Unexecuted(t).state = "Ready"
    BY Zenon DEF Unexecuted, Task
  <2>2. QED
    BY Zenon, <2>1 DEF Charged
(* A step that invokes no handler and hands out no attempt. *)
<1>BudgetKept.
  ASSUME BudgetInv, UNCHANGED invoked,
         \A e \in Effects : \/ task'[e] = task[e]
                            \/ Charged(task'[e], invoked[e]) /\ task'[e].state # "InFlight"
  PROVE  BudgetInv'
  BY Zenon, <1>BudgetKept DEF BudgetInv, Budgeted
<1>BudgetParts.
  ASSUME IInv, BudgetInv, NEW e \in Effects
  PROVE  task[e] \in Task /\ invoked[e] \in Nat /\ Charged(task[e], invoked[e])
  BY Zenon, <1>BudgetParts DEF IInv, TypeOK, BudgetInv, Budgeted
<1>RecoveredCharged.
  ASSUME IInv, BudgetInv, NEW r \in Runs, NEW e \in Effects
  PROVE  /\ RecoveredTasks(r)[e] \in Task
         /\ \/ RecoveredTasks(r)[e] = task[e]
            \/ Charged(RecoveredTasks(r)[e], invoked[e]) /\ RecoveredTasks(r)[e].state # "InFlight"
  <2> USE <1>RecoveredCharged
  <2>1. RecoveredTasks(r)[e] = task[e] \/ \E s \in {"Uncertain", "Ready"} : RecoveredTasks(r)[e] = In(task[e], s)
    BY Zenon, RecoveredTasksAre DEF RecoveredTask
  <2>2. \A s \in {"Uncertain", "Ready"} : s \in TaskStates /\ s # "Absent" /\ s # "InFlight"
    BY Zenon DEF TaskStates
  <2>3. \A s \in {"Uncertain", "Ready"} : /\ In(task[e], s) \in Task
                                          /\ Charged(In(task[e], s), invoked[e])
                                          /\ In(task[e], s).state = s
    BY Zenon, <2>2, <1>BudgetParts, InTask, <1>InCharged
  <2>4. QED
    BY Zenon, <2>1, <2>2, <2>3, <1>BudgetParts
<1>RecoverBudget.
  ASSUME IInv, BudgetInv, NEW r \in Runs, task' = RecoveredTasks(r), UNCHANGED invoked
  PROVE  BudgetInv'
  BY Zenon, <1>RecoverBudget, <1>RecoveredCharged, <1>BudgetKept
<1>DriveBudget.
  ASSUME IInv, BudgetInv, NEW r \in Runs, NEW due, NEW over, task' = Advanced(r, due, over),
         UNCHANGED invoked
  PROVE  BudgetInv'
  <2> USE <1>DriveBudget
  <2>1. ASSUME NEW e \in Effects
        PROVE  \/ task'[e] = task[e]
               \/ Charged(task'[e], invoked[e]) /\ task'[e].state # "InFlight"
    <3> DEFINE t == RecoveredTasks(r)[e]
    <3>1. task'[e] = t \/ task'[e] = In(t, "Ready")
      BY Zenon DEF Advanced
    <3>2. t \in Task /\ Charged(t, invoked[e]) /\ invoked[e] \in Nat
      BY Zenon, <1>RecoveredCharged, <1>BudgetParts
    <3>3. "Ready" \in TaskStates
      BY Zenon DEF TaskStates
    <3>4. t = task[e] \/ t.state # "InFlight"
      BY Zenon, <1>RecoveredCharged
    <3> HIDE DEF t
    <3>5. Charged(In(t, "Ready"), invoked[e]) /\ In(t, "Ready").state = "Ready"
      BY Zenon, <3>2, <3>3, <1>InCharged, InTask
    <3>6. QED
      BY Zenon, <3>1, <3>2, <3>4, <3>5
  <2>2. QED
    BY Zenon, <2>1, <1>BudgetKept
(* A task that evaluate creates has been charged nothing. *)
<1>EvaluatedCharged.
  ASSUME IInv, BudgetInv, NEW r \in Runs, Ongoing(r), NEW e \in Effects
  PROVE  /\ Evaluated(r)[e] \in Task
         /\ \/ Evaluated(r)[e] = task[e]
            \/ Charged(Evaluated(r)[e], invoked[e]) /\ Evaluated(r)[e].state # "InFlight"
  <2> USE <1>EvaluatedCharged
  <2> DEFINE t == [NoTask EXCEPT !.state = "Ready", !.owner = epoch]
  <2>1. Evaluated(r)[e] \in Task
    BY Zenon, EvaluatedIs
  <2>2. \/ Evaluated(r)[e] = task[e]
        \/ task[e].state = "Absent" /\ Evaluated(r)[e] = t
    BY Zenon, EvaluatedIs DEF Evaluated, IInv, TypeOK
  <2>3. t.charged = 0 /\ t.exec = 0 /\ t.attempt = 0 /\ t.state = "Ready"
    BY Zenon DEF NoTask
  <2> HIDE DEF t
  <2>4. task[e].state = "Absent" => invoked[e] = 0 /\ invoked[e] <= MaxAttempts
    BY Zenon, <1>BudgetParts DEF Charged
  <2>5. task[e].state = "Absent" => Charged(t, invoked[e])
    BY <2>3, <2>4 DEF Charged
  <2>6. QED
    BY Zenon, <2>1, <2>2, <2>3, <2>5
<1>EvaluateBudget.
  ASSUME IInv, BudgetInv, NEW r \in Runs, Ongoing(r), task' = Evaluated(r), UNCHANGED invoked
  PROVE  BudgetInv'
  BY Zenon, <1>EvaluateBudget, <1>EvaluatedCharged, <1>BudgetKept
<1>CandidateCharged.
  ASSUME IInv, BudgetInv, NEW r \in Runs, Ongoing(r), NEW e \in TasksOf(r), FirstReady(r, e)
  PROVE  Candidate(e) \in Task /\ Candidate(e).state = "Ready" /\ Charged(Candidate(e), invoked[e])
  <2> USE <1>CandidateCharged
  <2>1. e \in Effects /\ e[1] = r /\ Candidate(e) \in Task /\ Candidate(e).state = "Ready"
    BY Zenon, CandidateIs
  <2>2. Evaluated(r)[e] \in Task /\ Charged(Evaluated(r)[e], invoked[e]) /\ invoked[e] \in Nat
    BY Zenon, <2>1, <1>EvaluatedCharged, <1>BudgetParts
  <2>3. QED
    BY Zenon, <2>1, <2>2, <1>InferCharged DEF Candidate
<1>ExhaustedBudget.
  ASSUME IInv, BudgetInv, NEW r \in Runs, NEW e \in TasksOf(r), drive_exhausted(r, e)
  PROVE  BudgetInv'
  <2> USE <1>ExhaustedBudget
  <2>1. Ongoing(r) /\ FirstReady(r, e) /\ UNCHANGED invoked /\ task' = [Evaluated(r) EXCEPT ![e] = Candidate(e)]
    BY Zenon, DispatchesIs DEF drive_exhausted, history
  <2>2. Candidate(e).state = "Ready" /\ Charged(Candidate(e), invoked[e])
    BY Zenon, <2>1, <1>CandidateCharged
  <2>3. Evaluated(r) \in [Effects -> Task]
    BY Zenon, <2>1, EvaluatedIs
  <2>4. \A f \in Effects : task'[f] = IF f = e THEN Candidate(e) ELSE Evaluated(r)[f]
    BY Zenon, <2>1, <2>3
  <2>5. QED
    BY Zenon, <2>1, <2>2, <2>4, <1>EvaluatedCharged, <1>BudgetKept
(* The budget is looked at when an attempt is handed out. *)
<1>DispatchBudget.
  ASSUME IInv, BudgetInv, NEW r \in Runs, NEW e \in TasksOf(r), drive_dispatch(r, e)
  PROVE  BudgetInv'
  <2> USE <1>DispatchBudget
  <2> DEFINE n == Candidate(e).attempt + 1
             t == [Candidate(e) EXCEPT !.state = "InFlight", !.attempt = n, !.owner = epoch]
  <2>1. /\ Ongoing(r) /\ FirstReady(r, e) /\ UNCHANGED invoked
        /\ task' = [Evaluated(r) EXCEPT ![e] = t]
        /\ Candidate(e).exec < MaxAttempts
    BY Zenon, DispatchesIs DEF drive_dispatch
  <2>2. Candidate(e) \in Task /\ Charged(Candidate(e), invoked[e])
    BY Zenon, <2>1, <1>CandidateCharged
  <2>3. /\ t.state = "InFlight" /\ t.attempt = n
        /\ t.charged = Candidate(e).charged /\ t.exec = Candidate(e).exec
    BY Zenon, <2>2 DEF Task
  <2>4. Candidate(e).attempt \in Nat /\ Candidate(e).charged \in Nat
    BY Zenon, <2>2 DEF Task
  <2> HIDE DEF t
  <2>5. Budgeted(t, invoked[e])
    BY <2>1, <2>2, <2>3, <2>4 DEF Charged, Budgeted
  <2>6. Evaluated(r) \in [Effects -> Task]
    BY Zenon, <2>1, EvaluatedIs
  <2>7. \A f \in Effects : task'[f] = IF f = e THEN t ELSE Evaluated(r)[f]
    BY Zenon, <2>1, <2>6
  <2>8. ASSUME NEW f \in Effects PROVE Budgeted(task'[f], invoked'[f])
    <3>1. f # e => Budgeted(Evaluated(r)[f], invoked[f])
      BY Zenon, <2>1, <1>EvaluatedCharged DEF BudgetInv, Budgeted
    <3>2. QED
      BY Zenon, <2>1, <2>5, <2>7, <3>1
  <2>9. QED
    BY Zenon, <2>8 DEF BudgetInv
(* The only step that invokes a handler charges the attempt. *)
<1>PrepareBudget.
  ASSUME IInv, BudgetInv, NEW e \in Effects, NEW n, prepare_registered(e, n)
  PROVE  BudgetInv'
  <2> USE <1>PrepareBudget
  <2> DEFINE u == start_execution(task[e])
             t == In(u, "Invoking")
             k == invoked[e]
  <2>1. /\ task' = [task EXCEPT ![e] = t] /\ invoked' = [invoked EXCEPT ![e] = k + 1]
        /\ task[e].state = "InFlight"
    BY Zenon DEF prepare_registered
  <2>2. task[e] \in Task /\ k \in Nat /\ Charged(task[e], k)
    BY Zenon, <1>BudgetParts
  <2>3. task[e].charged # task[e].attempt /\ task[e].exec < MaxAttempts
    BY Zenon, <2>1 DEF BudgetInv, Budgeted
  <2>4. u \in Task /\ Charged(u, k) /\ u.exec = task[e].exec + 1
    BY Zenon, <2>2, <2>3, StartTask, <1>StartCharged
  <2>5. t.charged = u.charged /\ t.exec = u.exec /\ t.attempt = u.attempt /\ t.state = "Invoking"
    BY Zenon, <2>4 DEF In, Task
  <2>6. task[e].exec \in Nat /\ k <= task[e].exec
    BY Zenon, <2>2 DEF Charged, Task
  <2>7. MaxAttempts \in Nat
    BY Zenon, ConstantsAssumption
  <2> HIDE DEF u, t, k
  <2>8. Budgeted(t, k + 1)
    BY <2>2, <2>3, <2>4, <2>5, <2>6, <2>7 DEF Budgeted, Charged
  <2>9. task \in [Effects -> Task] /\ invoked \in [Effects -> Nat]
    BY Zenon DEF IInv, TypeOK
  <2>10. /\ task'[e] = t /\ invoked'[e] = k + 1
         /\ \A f \in Effects \ {e} : task'[f] = task[f] /\ invoked'[f] = invoked[f]
    BY Zenon, <2>1, <2>9
  <2>11. ASSUME NEW f \in Effects PROVE Budgeted(task'[f], invoked'[f])
    BY Zenon, <2>8, <2>10 DEF BudgetInv
  <2>12. QED
    BY Zenon, <2>11 DEF BudgetInv
(* One task changes, and no handler is invoked. *)
<1>OneTaskBudget.
  ASSUME IInv, BudgetInv, NEW e \in Effects, NEW t, task' = [task EXCEPT ![e] = t], UNCHANGED invoked,
         Charged(t, invoked[e]), t.state # "InFlight"
  PROVE  BudgetInv'
  <2> USE <1>OneTaskBudget
  <2>1. \A f \in Effects : task'[f] = IF f = e THEN t ELSE task[f]
    BY Zenon DEF IInv, TypeOK
  <2>2. QED
    BY Zenon, <2>1, <1>BudgetKept
<1>RefuseBudget.
  ASSUME IInv, BudgetInv, NEW e \in Effects, NEW n, NEW rec, Refuse(e, n, rec)
  PROVE  BudgetInv'
  <2> USE <1>RefuseBudget
  <2>1. task' = [task EXCEPT ![e] = Unexecuted(task[e])] /\ UNCHANGED invoked
    BY Zenon DEF Refuse
  <2>2. Charged(Unexecuted(task[e]), invoked[e]) /\ Unexecuted(task[e]).state # "InFlight"
    BY Zenon, <1>BudgetParts, <1>UnexecutedCharged, UnexecutedTask
  <2>3. QED
    BY Zenon, <2>1, <2>2, <1>OneTaskBudget
<1>SettleBudget.
  ASSUME IInv, BudgetInv, NEW e \in Effects, NEW n, NEW rec, NEW s \in TaskStates \ {"Absent", "InFlight"},
         Settle(e, n, In(mark_execution(task[e]), s), rec)
  PROVE  BudgetInv'
  <2> USE <1>SettleBudget
  <2> DEFINE t == In(mark_execution(task[e]), s)
  <2>1. UNCHANGED invoked /\ (UNCHANGED task \/ task' = [task EXCEPT ![e] = t])
    BY Zenon DEF Settle, history
  <2>2. Charged(t, invoked[e])
    BY Zenon, <1>BudgetParts, <1>MarkCharged
  <2>3. t.state # "InFlight"
    BY Zenon, MarkedTask
  <2> HIDE DEF t
  <2>4. QED
    BY Zenon, <2>1, <2>2, <2>3, <1>OneTaskBudget, <1>BudgetKept
<1>ResultBudget.
  ASSUME IInv, BudgetInv, NEW e \in Effects, NEW n, ResultStep(e, n)
  PROVE  BudgetInv'
  <2> USE <1>ResultBudget
  <2>1. {"Done", "Ready", "Retrying", "Uncertain"} \subseteq TaskStates \ {"Absent", "InFlight"}
    BY Zenon DEF TaskStates
  <2>2. CASE complete(e, n)
    BY Zenon, <2>1, <2>2, <1>SettleBudget DEF complete
  <2>3. CASE \E failure \in {"Retryable", "Permanent"} : fail(e, n, failure)
    BY Zenon, <2>1, <2>3, <1>SettleBudget DEF fail
  <2>4. QED
    BY Zenon, <2>2, <2>3 DEF ResultStep
<1>ReconcileBudget.
  ASSUME IInv, BudgetInv, NEW e \in Effects, NEW n, NEW observed \in BOOLEAN, reconcile(e, n, observed)
  PROVE  BudgetInv'
  <2> USE <1>ReconcileBudget
  <2> DEFINE s == IF observed THEN "Done" ELSE "Ready"
             t == In(RecoveredTask(e), s)
  <2>1. task' = [RecoveredTasks(e[1]) EXCEPT ![e] = t] /\ UNCHANGED invoked
    BY Zenon DEF reconcile
  <2>2. s \in TaskStates /\ s # "Absent" /\ s # "InFlight"
    BY Zenon DEF TaskStates
  <2>3. e[1] \in Runs /\ RecoveredTasks(e[1]) \in [Effects -> Task] /\ RecoveredTasks(e[1])[e] = RecoveredTask(e)
    BY Zenon, EffectRun, RecoveredTasksAre
  <2>4. RecoveredTask(e) \in Task /\ Charged(RecoveredTask(e), invoked[e]) /\ invoked[e] \in Nat
    BY Zenon, <2>3, <1>RecoveredCharged, <1>BudgetParts
  <2> HIDE DEF s
  <2>5. Charged(t, invoked[e]) /\ t.state # "InFlight"
    BY Zenon, <2>2, <2>4, <1>InCharged, InTask
  <2> HIDE DEF t
  <2>6. \A f \in Effects : task'[f] = IF f = e THEN t ELSE RecoveredTasks(e[1])[f]
    BY Zenon, <2>1, <2>3
  <2>7. QED
    BY Zenon, <2>1, <2>3, <2>5, <2>6, <1>RecoveredCharged, <1>BudgetKept
<1>TurnBudget. ASSUME IInv, BudgetInv, NEW r \in Runs, TurnStep(r) PROVE BudgetInv'
  <2> USE <1>TurnBudget
  <2>1. CASE \E e \in TasksOf(r) : drive_exhausted(r, e) \/ drive_dispatch(r, e)
    BY Zenon, <2>1, <1>ExhaustedBudget, <1>DispatchBudget
  <2>2. CASE drive_value(r) \/ drive_park(r) \/ drive_unimplemented(r)
    <3>1. UNCHANGED invoked /\ Ongoing(r) /\ (task' = Evaluated(r) \/ UNCHANGED task)
      BY Zenon, <2>2 DEF drive_value, drive_park, drive_unimplemented, drive_error, history, Evaluates, Dispatches
    <3>2. QED
      BY Zenon, <3>1, <1>EvaluateBudget, <1>BudgetKept
  <2>3. CASE \/ drive_progressed(r) \/ drive_return(r) \/ drive_propagate(r) \/ drive_cancel(r)
             \/ drive_continue(r) \/ drive_refused(r) \/ drive_wait(r)
             \/ \E fault \in {"nondeterminism", "panic", "malformed"} : drive_fault(r, fault)
             \/ \E e \in TasksOf(r) : drive_spent(r, e)
    <3>1. UNCHANGED <<task, invoked>>
      BY Zenon, <2>3 DEF drive_progressed, drive_return, drive_propagate, drive_cancel, cancel_request,
            drive_continue, drive_refused, drive_wait, drive_fault, drive_spent, drive_error, history
    <3>2. QED
      BY Zenon, <3>1, <1>BudgetKept
  <2>4. QED
    BY Zenon, <2>1, <2>2, <2>3 DEF TurnStep
<1>1. CASE open \/ cancel_descend \/ cancel_finish \/ \E r \in Runs : start(r) \/ signal(r) \/ cancel(r) \/ drive_cancelled(r)
  <2>1. UNCHANGED <<task, invoked>>
    BY Zenon, <1>1 DEF open, cancel_descend, cancel_finish, start, signal, cancel, drive_cancelled,
                       cancel_request, history
  <2>2. QED
    BY Zenon, <2>1, <1>BudgetKept
<1>2. CASE \E r \in Runs : \/ resume(r) \/ reconcile_refused(r) \/ drive_stopped(r)
                           \/ \E state \in {"NeedsInput", "NeedsImplementation"} : drive_suspended(r, state)
  <2>1. PICK r \in Runs : \/ resume(r) \/ reconcile_refused(r) \/ drive_stopped(r)
                          \/ \E state \in {"NeedsInput", "NeedsImplementation"} : drive_suspended(r, state)
    BY Zenon, <1>2
  <2>2. UNCHANGED invoked /\ (task' = RecoveredTasks(r) \/ UNCHANGED task)
    BY ZenonT(60), <2>1 DEF resume, reconcile_refused, drive_stopped, drive_suspended, history
  <2>3. QED
    BY Zenon, <2>2, <1>RecoverBudget, <1>BudgetKept
<1>3. CASE \E r \in Runs : \E due \in SUBSET TasksOf(r) : \E over \in SUBSET TasksOf(r), fired \in BOOLEAN :
             drive(r, due, over, fired)
  <2>1. PICK r \in Runs : \E due, over, fired : drive(r, due, over, fired)
    BY Zenon, <1>3
  <2>2. PICK due, over, fired : drive(r, due, over, fired)
    BY Zenon, <2>1
  <2>3. task' = Advanced(r, due, over) /\ UNCHANGED invoked
    BY ZenonT(60), <2>2 DEF drive, history
  <2>4. QED
    BY Zenon, <2>3, <1>DriveBudget
<1>4. CASE \E r \in Runs : TurnStep(r)
  BY Zenon, <1>4, <1>TurnBudget
<1>5. CASE \E e \in Effects : \E n \in 1..task[e].attempt :
             PrepareStep(e, n) \/ ResultStep(e, n) \/ \E observed \in BOOLEAN : reconcile(e, n, observed)
  <2>1. CASE \E e \in Effects : \E n : PrepareStep(e, n)
    BY Zenon, <2>1, <1>PrepareBudget, <1>RefuseBudget DEF PrepareStep, prepare_unresolved, reject_dispatch
  <2>2. QED
    BY Zenon, <1>5, <2>1, <1>ResultBudget, <1>ReconcileBudget
<1>6. QED
  BY Zenon, <1>1, <1>2, <1>3, <1>4, <1>5 DEF Next, DriveStep

(* Whatever crashes, refusals and late results come in between, and        *)
(* whatever host drives the engine, no activity reaches its handler more   *)
(* often than max_attempts: start_execution charges every invocation       *)
(* before it begins, and drive hands out no attempt that cannot be paid.   *)
THEOREM BudgetIsKept == Spec => []RetryBudget
<1>1. Init => BudgetInv
  <2>1. NoTask.charged = 0 /\ NoTask.exec = 0 /\ NoTask.attempt = 0 /\ NoTask.state = "Absent"
    BY Zenon DEF NoTask
  <2>2. Budgeted(NoTask, 0)
    BY <2>1, ConstantsAssumption DEF Budgeted, Charged
  <2>3. QED
    BY Zenon, <2>2 DEF Init, BudgetInv
<1>2. IInv /\ BudgetInv /\ [Next]_vars => BudgetInv'
  <2>1. IInv /\ BudgetInv /\ UNCHANGED vars => BudgetInv'
    BY Zenon DEF vars, history, BudgetInv
  <2>2. QED
    BY Zenon, <2>1, NextBudget
<1>3. BudgetInv => RetryBudget
  BY Zenon DEF BudgetInv, Budgeted, Charged, RetryBudget
<1>4. QED
  BY <1>1, <1>2, <1>3, Inductive, PTL DEF Spec

----------------------------------------------------------------------------
(* What a step does to the runs, seen from outside: which records it        *)
(* writes, what that leaves unscheduled, and who is woken.  The proofs      *)
(* about the tree of runs and about wakeups need no more of the actions.    *)

(* Everything on the stack of a cancellation walk is fenced already. *)
WalkFenced == \A i \in DOMAIN stack : run[stack[i]].state \in Fence

(* In drive's loop every attempt in flight is one of this owner: recover   *)
(* has dealt with the others.                                              *)
LoopFresh ==
    phase = "drive" => \A e \in TasksOf(driven) : task[e].state \in Live => task[e].owner = epoch

(* The timers have run out only as seen by a drive. *)
LoopOff == phase # "drive" => loop.fired = FALSE

LoopInv == WalkFenced /\ LoopFresh /\ LoopOff

(* Every step keeps what is said of drive's loop. *)
LEMMA StepLoop == ASSUME IInv, Good, LoopInv, [Next]_vars PROVE LoopInv'
<1>Walk. ASSUME IInv, Good, WalkFenced, stack' = stack PROVE WalkFenced'
  <2> USE <1>Walk
  <2>1. stack \in Seq(Runs)
    BY Zenon DEF IInv, TypeOK
  <2>2. \A i \in DOMAIN stack : stack[i] \in Runs
    BY <2>1
  <2>3. QED
    BY Zenon, <2>2 DEF WalkFenced, Good, FenceStep
(* A step outside the loop, or out of it. *)
<1>Rest.
  ASSUME IInv, Good, LoopInv, phase' # "drive", stack' = stack,
         loop' = NoLoop \/ (phase # "drive" /\ loop' = loop)
  PROVE  LoopInv'
  <2> USE <1>Rest
  <2>1. NoLoop.fired = FALSE
    BY Zenon DEF NoLoop
  <2>2. QED
    BY Zenon, <2>1, <1>Walk DEF LoopInv, LoopFresh, LoopOff
<1>Kept. ASSUME IInv, Good, LoopInv, phase = "idle", UNCHANGED memory PROVE LoopInv'
  BY Zenon, <1>Kept, <1>Rest DEF memory
<1>Left. ASSUME IInv, Good, LoopInv, BackToIdle PROVE LoopInv'
  BY Zenon, <1>Left, <1>Rest DEF BackToIdle
<1>Open. ASSUME open PROVE LoopInv'
  <2> USE <1>Open
  <2>1. NoLoop.fired = FALSE
    BY Zenon DEF NoLoop
  <2>2. stack' = <<>> /\ loop' = NoLoop /\ phase' = "idle"
    BY Zenon DEF open
  <2>3. WalkFenced'
    BY <2>2 DEF WalkFenced
  <2>4. QED
    BY Zenon, <2>1, <2>2, <2>3 DEF LoopInv, LoopFresh, LoopOff
<1>CancelRequest. ASSUME IInv, Good, LoopInv, NEW r \in Runs, cancel_request(r) PROVE LoopInv'
  <2> USE <1>CancelRequest
  <2> DEFINE rec == [run[r] EXCEPT !.state = "CancelRequested", !.wakeup = "now"]
  <2>1. rec \in Record /\ rec.state = "CancelRequested"
    BY ZenonT(60), RunTyped DEF Record, Wakeups, RunStates
  <2>2. Save(r, rec) /\ stack' = Append(stack, r) /\ phase' = "cancel" /\ loop' = NoLoop
    BY Zenon DEF cancel_request
  <2> HIDE DEF rec
  <2>3. run'[r].state = "CancelRequested"
    BY Zenon, <2>1, <2>2, SaveRuns, IInvParts DEF RunsOK
  <2>4. stack \in Seq(Runs)
    BY Zenon DEF IInv, TypeOK
  <2>5. /\ \A i \in DOMAIN Append(stack, r) : Append(stack, r)[i] = r \/ (i \in DOMAIN stack /\ Append(stack, r)[i] = stack[i])
        /\ \A i \in DOMAIN stack : stack[i] \in Runs
    BY <2>4
  <2>6. \A i \in DOMAIN stack : run'[stack[i]].state \in Fence
    BY Zenon, <2>5 DEF LoopInv, WalkFenced, Good, FenceStep
  <2>7. WalkFenced'
    BY Zenon, <2>2, <2>3, <2>5, <2>6 DEF WalkFenced, Fence
  <2>8. NoLoop.fired = FALSE
    BY Zenon DEF NoLoop
  <2>9. QED
    BY Zenon, <2>2, <2>7, <2>8 DEF LoopInv, LoopFresh, LoopOff
<1>CancelFinish. ASSUME IInv, Good, LoopInv, cancel_finish PROVE LoopInv'
  <2> USE <1>CancelFinish
  <2>1. stack \in Seq(Runs) /\ stack' = SubSeq(stack, 1, Len(stack) - 1) /\ Len(stack) \in Nat \ {0}
    BY Zenon, TopRun DEF IInv, TypeOK, cancel_finish
  <2>2. /\ \A i \in DOMAIN SubSeq(stack, 1, Len(stack) - 1) :
             i \in DOMAIN stack /\ SubSeq(stack, 1, Len(stack) - 1)[i] = stack[i]
        /\ \A i \in DOMAIN stack : stack[i] \in Runs
    BY <2>1
  <2>3. \A i \in DOMAIN stack : run'[stack[i]].state \in Fence
    BY Zenon, <2>2 DEF LoopInv, WalkFenced, Good, FenceStep
  <2>4. WalkFenced'
    BY Zenon, <2>1, <2>2, <2>3 DEF WalkFenced
  <2>5. phase = "cancel" /\ phase' \in {"idle", "cancel"} /\ loop' = loop
    BY Zenon DEF cancel_finish
  <2>6. QED
    BY Zenon, <2>4, <2>5 DEF LoopInv, LoopFresh, LoopOff
(* recover leaves no attempt of an earlier owner in flight. *)
<1>Enter.
  ASSUME IInv, Good, LoopInv, NEW r \in Runs, NEW due, NEW over, NEW fired, drive(r, due, over, fired),
         enter_loop(r, fired)
  PROVE  LoopInv'
  <2> USE <1>Enter
  <2>1. /\ Recovered(r).state \in Drivable /\ task' = Advanced(r, due, over) /\ epoch' = epoch
        /\ due \cup over \subseteq Retrying(r, RecoveredTasks(r))
    BY Zenon DEF drive
  <2>2. phase' = "drive" /\ driven' = r /\ stack' = stack
    BY Zenon DEF enter_loop
  <2>3. run[r].state \notin Inactive
    BY Zenon, <2>1, DrivableRecovered DEF Drivable, Inactive
  <2>4. ASSUME NEW e \in TasksOf(r), task'[e].state \in Live PROVE task'[e].owner = epoch
    <3>1. e \in Effects /\ e[1] = r
      BY Zenon DEF TasksOf
    <3>2. task'[e] = RecoveredTask(e)
      <4>1. \A f \in Effects : \/ Advanced(r, due, over)[f] = RecoveredTasks(r)[f]
                              \/ Advanced(r, due, over)[f].state = "Ready"
        BY <2>1, AdvancedIs
      <4>2. task'[e].state # "Ready"
        BY Zenon, <2>4 DEF Live
      <4>3. QED
        BY Zenon, <2>1, <3>1, <4>1, <4>2, RecoveredTasksAre
    <3>3. ~Interrupted(e)
      BY Zenon, <2>4, <3>1, <3>2, RecoveredTaskIs DEF Live
    <3>4. task'[e] = task[e]
      BY Zenon, <3>1, <3>2, <3>3, RecoveredTaskIs
    <3>5. QED
      BY Zenon, <2>3, <2>4, <3>1, <3>3, <3>4 DEF Interrupted
  <2>5. LoopFresh'
    BY Zenon, <2>1, <2>2, <2>4 DEF LoopFresh, TasksOf
  <2>6. QED
    BY Zenon, <2>2, <2>5, <1>Walk DEF LoopInv, LoopOff
<1>Value. ASSUME IInv, Good, LoopInv, NEW r \in Runs, drive_value(r) PROVE LoopInv'
  <2> USE <1>Value
  <2>1. /\ phase = "drive" /\ driven = r /\ phase' = "drive" /\ driven' = r /\ stack' = stack
        /\ Ongoing(r) /\ task' = Evaluated(r) /\ epoch' = epoch
    BY Zenon DEF drive_value, Evaluates, Turn, InLoop
  <2>2. ASSUME NEW e \in TasksOf(r), task'[e].state \in Live PROVE task'[e].owner = epoch
    <3>1. e \in Effects
      BY Zenon DEF TasksOf
    <3>2. task'[e] = task[e]
      BY Zenon, <2>1, <2>2, <3>1, EvaluatedIs DEF Live
    <3>3. QED
      BY Zenon, <2>1, <2>2, <3>2 DEF LoopInv, LoopFresh
  <2>3. LoopFresh'
    BY Zenon, <2>1, <2>2 DEF LoopFresh, TasksOf
  <2>4. QED
    BY Zenon, <2>1, <2>3, <1>Walk DEF LoopInv, LoopOff
<1>Turns. ASSUME IInv, Good, LoopInv, NEW r \in Runs, TurnStep(r) PROVE LoopInv'
  <2> USE <1>Turns
  <2>1. CASE drive_value(r)
    BY Zenon, <2>1, <1>Value
  <2>2. CASE drive_cancel(r)
    BY Zenon, <2>2, <1>CancelRequest DEF drive_cancel
  <2>3. CASE \E e \in TasksOf(r) : drive_dispatch(r, e)
    <3>1. stack' = stack /\ loop' = NoLoop /\ phase' \in {"idle", "prepare"}
      BY Zenon, <2>3 DEF drive_dispatch
    <3>2. QED
      BY Zenon, <3>1, <1>Rest
  <2>4. CASE \/ drive_progressed(r) \/ drive_return(r) \/ drive_propagate(r) \/ drive_continue(r)
             \/ drive_refused(r) \/ drive_wait(r) \/ drive_park(r) \/ drive_unimplemented(r)
             \/ \E e \in TasksOf(r) : drive_exhausted(r, e) \/ drive_spent(r, e)
             \/ \E fault \in {"nondeterminism", "panic", "malformed"} : drive_fault(r, fault)
    <3>1. BackToIdle
      BY Zenon, <2>4 DEF drive_progressed, drive_return, drive_propagate, drive_continue, drive_refused,
            drive_wait, drive_park, drive_unimplemented, drive_exhausted, drive_spent, drive_fault, drive_error
    <3>2. QED
      BY Zenon, <3>1, <1>Left
  <2>5. QED
    BY Zenon, <2>1, <2>2, <2>3, <2>4 DEF TurnStep
<1>Drives. ASSUME IInv, Good, LoopInv, NEW r \in Runs, DriveStep(r) PROVE LoopInv'
  <2> USE <1>Drives
  <2>1. phase = "idle"
    BY Zenon DEF DriveStep, drive_cancelled, drive_stopped, drive_suspended, drive, MayDrive
  <2>2. CASE drive_cancelled(r)
    BY Zenon, <2>2, <1>CancelRequest DEF drive_cancelled
  <2>3. CASE drive_stopped(r) \/ \E state \in {"NeedsInput", "NeedsImplementation"} : drive_suspended(r, state)
    BY Zenon, <2>1, <2>3, <1>Kept DEF drive_stopped, drive_suspended
  <2>4. ASSUME NEW due, NEW over, NEW fired, drive(r, due, over, fired) PROVE LoopInv'
    <3>1. UNCHANGED memory \/ enter_loop(r, fired)
      <4>1. CASE over # {}
        BY Zenon, <2>4, <4>1 DEF drive
      <4>2. CASE over = {} /\ due # {}
        BY Zenon, <2>4, <4>2 DEF drive
      <4>3. CASE over = {} /\ due = {} /\ Retrying(r, RecoveredTasks(r)) # {} /\ Driven(Recovered(r)).wakeup # "later"
        BY Zenon, <2>4, <4>3 DEF drive
      <4>4. CASE over = {} /\ due = {} /\ ~(Retrying(r, RecoveredTasks(r)) # {} /\ Driven(Recovered(r)).wakeup # "later")
        BY Zenon, <2>4, <4>4 DEF drive
      <4>5. QED
        BY Zenon, <4>1, <4>2, <4>3, <4>4
    <3>2. QED
      BY Zenon, <2>1, <2>4, <3>1, <1>Kept, <1>Enter
  <2>5. QED
    BY Zenon, <2>2, <2>3, <2>4 DEF DriveStep
<1>Host. ASSUME IInv, Good, LoopInv, NEW e \in Effects, NEW n, PrepareStep(e, n) \/ ResultStep(e, n) PROVE LoopInv'
  <2> USE <1>Host
  <2>1. CASE prepare_registered(e, n)
    <3>1. phase # "drive" /\ phase' = "idle" /\ stack' = stack /\ loop' = loop
      BY Zenon, <2>1 DEF prepare_registered, Prepares
    <3>2. QED
      BY Zenon, <3>1, <1>Rest
  <2>2. CASE prepare_unresolved(e, n) \/ \E reason \in Reasons : reject_dispatch(e, n, reason)
    BY Zenon, <2>2, <1>Left DEF prepare_unresolved, reject_dispatch, Refuse
  <2>3. CASE ResultStep(e, n)
    <3>1. phase = "idle" /\ phase' = phase /\ stack' = stack /\ loop' = loop
      BY Zenon, <2>3 DEF ResultStep, complete, fail, Arrives, Settle
    <3>2. QED
      BY Zenon, <3>1, <1>Rest
  <2>4. QED
    BY Zenon, <2>1, <2>2, <2>3 DEF PrepareStep
<1>1. CASE UNCHANGED vars
  <2>1. UNCHANGED <<phase, stack, loop, driven, task, epoch>>
    BY Zenon, <1>1 DEF vars, memory
  <2>2. QED
    BY Zenon, <2>1, <1>Walk DEF LoopInv, LoopFresh, LoopOff, TasksOf
<1>2. ASSUME NEW r \in Runs, start(r) \/ signal(r) \/ resume(r) \/ reconcile_refused(r) PROVE LoopInv'
  BY Zenon, <1>2, <1>Kept DEF start, signal, resume, reconcile_refused, MayReconcile
<1>3. ASSUME NEW r \in Runs, cancel(r) PROVE LoopInv'
  BY Zenon, <1>3, <1>CancelRequest DEF cancel
<1>4. CASE cancel_descend
  BY Zenon, <1>4, <1>CancelRequest, BelowRuns, TopRun DEF cancel_descend
<1>5. ASSUME NEW e \in Effects, NEW n, NEW observed, reconcile(e, n, observed) PROVE LoopInv'
  BY Zenon, <1>5, <1>Kept DEF reconcile, MayReconcile
<1>6. CASE Next
  BY Zenon, <1>2, <1>3, <1>4, <1>5, <1>6, <1>Open, <1>CancelFinish, <1>Turns, <1>Drives, <1>Host DEF Next
<1>7. QED
  BY Zenon, <1>1, <1>6

(* No call is in progress in the beginning. *)
LEMMA InitLoop == ASSUME Init PROVE LoopInv
<1>1. stack = <<>> /\ phase = "idle" /\ loop = NoLoop
  BY Zenon DEF Init
<1>2. NoLoop.fired = FALSE
  BY Zenon DEF NoLoop
<1>3. WalkFenced
  BY <1>1 DEF WalkFenced
<1>4. QED
  BY Zenon, <1>1, <1>2, <1>3 DEF LoopInv, LoopFresh, LoopOff

(* The states of a run that has, or once had, a successor. *)
Heirs == {"ContinuedAsNew"} \cup Fence

SameLinks(rec, old) ==
    rec.parent = old.parent /\ rec.next = old.next /\ rec.children = old.children

(* A record is replaced by one with the same place in the tree of runs. *)
Moves(rec, old) ==
    /\ rec \in Record
    /\ SameLinks(rec, old)
    /\ old.state \notin {"Absent", "Completed"}
    /\ rec.state \notin {"Absent", "Completed", "ContinuedAsNew"}
    /\ old.state \in Heirs => rec.state \in Fence

(* A parked run is woken, or stays parked behind what is dispatched. *)
Wakes(woken) ==
    \A q \in parked : q \in woken \/ (q \in parked' /\ (dispatched # {} => dispatched' # {}))

(* The drive of r ends with a command that blocks: either nothing of r is  *)
(* left to be dispatched or recovered, or r is parked.                     *)
Waits(r, rec) ==
    /\ Evaluates(r, "blocked")
    /\ rec.issued = 1 /\ rec.pc = run[r].pc /\ rec.sent = run[r].sent /\ rec.taken = run[r].taken
    /\ \A e \in TasksOf(r) : /\ task'[e].state = "Done" => task[e].state = "Done"
                             /\ task'[e].state = "Absent" => task[e].state = "Absent"
    /\ \/ \A e \in TasksOf(r) : task'[e].state # "Ready" /\ (task'[e].state \in Live => task'[e].owner = epoch)
       \/ r \in parked' /\ Full /\ dispatched' = dispatched

(* A step that writes run r, and leaves it unscheduled only if it waits or *)
(* an attempt of it is being prepared.                                     *)
Local(r, rec, woken) ==
    /\ Moves(rec, run[r])
    /\ Commit(Write(r, rec), woken)
    /\ Wakes(woken)
    /\ epoch' = epoch
    /\ \A e \in Effects : e[1] # r => task'[e] = task[e]
    /\ rec.state = "Running" /\ rec.wakeup = None =>
         Waits(r, rec) \/ \E e \in TasksOf(r), n \in Nat : prepare_registered(e, n)

(* Run r ends with everything joined. *)
Joined(r, rec) ==
    /\ run[r].state \in Drivable
    /\ AllDone(r)
    /\ JoinChildren(r) = "joined"
    /\ rec \in Record /\ rec.parent = run[r].parent /\ rec.children = run[r].children
    /\ UNCHANGED <<task, epoch>>
    /\ Wakes({})

Completes(r, rec) ==
    /\ Joined(r, rec)
    /\ rec.state = "Completed" /\ rec.next = run[r].next
    /\ Save(r, rec)

(* ... or in a new run s. *)
Continues(r, s, rec) ==
    /\ Joined(r, rec)
    /\ run[s].state = "Absent"
    /\ rec.state = "ContinuedAsNew" /\ rec.next = s
    /\ Commit([q \in {r, s} |-> IF q = s THEN new_run(run[r].parent) ELSE rec], {})

(* Run r creates its child c. *)
Attaches(r, c, rec) ==
    /\ run[r].state \in Drivable
    /\ run[c].state = "Absent"
    /\ rec \in Record /\ rec.parent = run[r].parent /\ rec.next = run[r].next
    /\ rec.children = Append(run[r].children, c)
    /\ rec.state = "Running" /\ rec.wakeup = "now"
    /\ Commit([q \in {r, c} |-> IF q = r THEN rec ELSE new_run(r)], {})
    /\ \A e \in Effects : e[1] # r => task'[e] = task[e]
    /\ epoch' = epoch
    /\ Wakes({})

(* What a step does to the runs. *)
Shape ==
    \/ open
    \/ NoSave /\ task' = task /\ epoch' = epoch /\ Wakes({})
    \/ \E woken : Commit(<<>>, woken) /\ task' = task /\ epoch' = epoch /\ Wakes(woken)
    \/ \E r \in Runs : start(r)
    \/ \E r \in Runs : \E rec, woken : Local(r, rec, woken)
    \/ \E r \in Runs : \E rec : Completes(r, rec)
    \/ \E r, c \in Runs : \E rec : Attaches(r, c, rec)
    \/ \E r, s \in Runs : \E rec : Continues(r, s, rec)

(* Every action has one of these shapes. *)
LEMMA StepShape == ASSUME IInv, LoopInv, [Next]_vars PROVE Shape
(* The updates of a record that leave its place in the tree alone. *)
<1>Links.
  ASSUME NEW old \in Record, NEW s, NEW z, NEW w
  PROVE  /\ SameLinks([old EXCEPT !.wakeup = w], old) /\ [old EXCEPT !.wakeup = w].wakeup = w
         /\ SameLinks([old EXCEPT !.state = s], old)
         /\ SameLinks([old EXCEPT !.state = s, !.wakeup = w], old)
         /\ [old EXCEPT !.state = s, !.wakeup = w].wakeup = w
         /\ SameLinks([old EXCEPT !.state = s, !.reason = z], old)
         /\ SameLinks([old EXCEPT !.state = s, !.reason = z, !.wakeup = w], old)
         /\ SameLinks([old EXCEPT !.reason = z, !.wakeup = w, !.state = s], old)
         /\ SameLinks([old EXCEPT !.issued = z, !.wakeup = w], old)
         /\ SameLinks([old EXCEPT !.sent = z, !.wakeup = w], old)
         /\ SameLinks([old EXCEPT !.state = s, !.audit = z, !.wakeup = w], old)
  BY ZenonT(60), <1>Links DEF SameLinks, Record
<1>LinksTrans. ASSUME NEW a, NEW b, NEW c, SameLinks(a, b), SameLinks(b, c) PROVE SameLinks(a, c)
  BY Zenon, <1>LinksTrans DEF SameLinks
<1>Saved.
  ASSUME NEW r \in Runs, NEW rec, Moves(rec, run[r]), Save(r, rec), UNCHANGED <<epoch, dispatched, parked>>,
         \A e \in Effects : e[1] # r => task'[e] = task[e],
         rec.state # "Running" \/ rec.wakeup # None
  PROVE  Shape
  <2> USE <1>Saved
  <2>1. Wakes({})
    BY Zenon DEF Wakes
  <2>2. Local(r, rec, {})
    BY Zenon, <2>1 DEF Local, Save
  <2>3. QED
    BY Zenon, <2>2 DEF Shape
<1>Unsaved. ASSUME NoSave, UNCHANGED <<task, epoch, dispatched, parked>> PROVE Shape
  BY Zenon, <1>Unsaved DEF Shape, Wakes
(* drive's end: the run was drivable. *)
<1>Left.
  ASSUME IInv, NEW r \in Runs, InLoop(r), NEW rec \in Record, SameLinks(rec, run[r]), Save(r, rec),
         UNCHANGED <<epoch, dispatched, parked>>,
         \A e \in Effects : e[1] # r => task'[e] = task[e],
         rec.state \notin {"Absent", "Completed", "ContinuedAsNew"},
         rec.state # "Running" \/ rec.wakeup # None
  PROVE  Shape
  <2> USE <1>Left
  <2>1. Moves(rec, run[r])
    BY Zenon, LoopRun DEF Moves, Drivable, Heirs, Fence
  <2>2. QED
    BY Zenon, <2>1, <1>Saved
(* recover. *)
<1>RecoveredLinks. ASSUME IInv, NEW r \in Runs PROVE SameLinks(Recovered(r), run[r])
  <2> USE <1>RecoveredLinks
  <2>1. run[r] \in Record
    BY Zenon, RunTyped
  <2>2. CASE HasInterrupted(r)
    <3>1. PICK s, w : Recovered(r) = [run[r] EXCEPT !.state = s, !.wakeup = w]
      BY Zenon, <2>2 DEF Recovered
    <3>2. SameLinks([run[r] EXCEPT !.state = s, !.wakeup = w], run[r])
      BY Zenon, <2>1, <1>Links
    <3>3. QED
      BY Zenon, <3>1, <3>2
  <2>3. CASE ~HasInterrupted(r)
    BY Zenon, <2>3, RecoveredRecord DEF SameLinks
  <2>4. QED
    BY Zenon, <2>2, <2>3
<1>RecoveredOthers. ASSUME IInv, NEW r \in Runs PROVE \A e \in Effects : e[1] # r => RecoveredTasks(r)[e] = task[e]
  BY Zenon, <1>RecoveredOthers, RecoveredTasksAre
<1>InterruptedState. ASSUME NEW r, HasInterrupted(r) PROVE run[r].state \notin Inactive \/ run[r].state = "Failed"
  BY Zenon, <1>InterruptedState DEF HasInterrupted, Interrupted, Exhausted, TasksOf
<1>RecoveredMoves.
  ASSUME IInv, NEW r \in Runs, HasInterrupted(r)
  PROVE  Moves(Recovered(r), run[r]) /\ (Recovered(r).state # "Running" \/ Recovered(r).wakeup # None)
  <2> USE <1>RecoveredMoves
  <2> DEFINE state == IF \E e \in TasksOf(r) : Interrupted(e) /\ Unsafe(e) THEN "OutcomeUnknown" ELSE run[r].state
             wake == IF state = "Running" THEN "now" ELSE None
  <2>1. run[r] \in Record
    BY Zenon, RunTyped
  <2>2. Recovered(r) = [run[r] EXCEPT !.state = state, !.wakeup = wake]
    BY Zenon DEF Recovered
  <2>3. state = "Running" => wake # None
    <3>1. wake = "now" \/ state # "Running"
      BY Zenon
    <3>2. QED
      BY Zenon, <3>1, ProgramAssumption
  <2> HIDE DEF state, wake
  <2>4. Recovered(r).state = state /\ Recovered(r).wakeup = wake
    BY ZenonT(60), <2>1, <2>2 DEF Record
  <2>5. Recovered(r) \in Record /\ Recovered(r).state \in {run[r].state, "OutcomeUnknown"}
    BY Zenon, RecoveredRecord
  <2>6. run[r].state \notin Inactive \/ run[r].state = "Failed"
    BY Zenon, <1>InterruptedState
  <2>7. Moves(Recovered(r), run[r])
    BY Zenon, <2>5, <2>6, <1>RecoveredLinks DEF Moves, Inactive, Heirs, Fence
  <2>8. QED
    BY Zenon, <2>3, <2>4, <2>7
<1>Recovers.
  ASSUME IInv, NEW r \in Runs, HasInterrupted(r), Save(r, Recovered(r)), task' = RecoveredTasks(r),
         UNCHANGED <<epoch, dispatched, parked>>
  PROVE  Shape
  BY Zenon, <1>Recovers, <1>RecoveredMoves, <1>RecoveredOthers, <1>Saved
<1>Due. None # "now" /\ None # "later"
  BY Zenon, ProgramAssumption
<1>Woken.
  ASSUME IInv, NEW r \in Runs, NEW s \in RunStates
  PROVE  LET rec == [run[r] EXCEPT !.state = s, !.wakeup = "now"]
         IN  rec \in Record /\ SameLinks(rec, run[r]) /\ rec.state = s /\ rec.wakeup = "now"
  <2> USE <1>Woken
  <2>1. run[r] \in Record
    BY Zenon, RunTyped
  <2>2. QED
    BY ZenonT(60), <2>1, <1>Links DEF Record, Wakeups
<1>Signal. ASSUME IInv, NEW r \in Runs, signal(r) PROVE Shape
  <2> USE <1>Signal
  <2> DEFINE rec == [run[r] EXCEPT !.sent = run[r].sent + 1, !.wakeup = "now"]
  <2>1. run[r] \in Record
    BY Zenon, RunTyped
  <2>2. run[r].sent + 1 \in Nat
    BY <2>1 DEF Record
  <2>3. rec \in Record /\ rec.state = run[r].state /\ rec.wakeup = "now"
    BY ZenonT(60), <2>1, <2>2 DEF Record, Wakeups
  <2>4. Save(r, rec) /\ UNCHANGED <<task, epoch, dispatched, parked>> /\ run[r].state \notin Inactive
    BY Zenon DEF signal, ensure_active, memory
  <2>5. SameLinks(rec, run[r])
    BY Zenon, <2>1, <1>Links
  <2> HIDE DEF rec
  <2>6. Moves(rec, run[r])
    BY Zenon, <2>3, <2>4, <2>5 DEF Moves, Inactive, Heirs, Fence
  <2>7. QED
    BY Zenon, <2>3, <2>4, <2>6, <1>Saved, <1>Due
<1>Resume. ASSUME IInv, NEW r \in Runs, resume(r) PROVE Shape
  <2> USE <1>Resume
  <2> DEFINE rec == [run[r] EXCEPT !.state = "Running", !.wakeup = "now"]
  <2>1. CASE run[r].state \in {"NeedsInput", "NeedsImplementation"} /\ Save(r, rec) /\ UNCHANGED task
    <3>1. rec \in Record /\ SameLinks(rec, run[r]) /\ rec.state = "Running" /\ rec.wakeup = "now"
      BY Zenon, <1>Woken DEF RunStates
    <3> HIDE DEF rec
    <3>2. Moves(rec, run[r])
      BY Zenon, <2>1, <3>1 DEF Moves, Heirs, Fence
    <3>3. QED
      BY Zenon, <2>1, <3>1, <3>2, <1>Saved, <1>Due DEF resume, memory
  <2>2. CASE HasInterrupted(r) /\ Save(r, Recovered(r)) /\ task' = RecoveredTasks(r)
    BY Zenon, <2>2, <1>Recovers DEF resume, memory
  <2>3. QED
    BY Zenon, <2>1, <2>2 DEF resume
<1>CancelRequest.
  ASSUME IInv, NEW r \in Runs, run[r].state \notin {"Absent", "Completed"}, cancel_request(r) PROVE Shape
  <2> USE <1>CancelRequest
  <2> DEFINE rec == [run[r] EXCEPT !.state = "CancelRequested", !.wakeup = "now"]
  <2>1. rec \in Record /\ SameLinks(rec, run[r]) /\ rec.state = "CancelRequested"
    BY Zenon, <1>Woken DEF RunStates
  <2>2. Save(r, rec) /\ UNCHANGED <<task, epoch, dispatched, parked>>
    BY Zenon DEF cancel_request
  <2> HIDE DEF rec
  <2>3. Moves(rec, run[r])
    BY Zenon, <2>1 DEF Moves, Fence
  <2>4. QED
    BY Zenon, <2>1, <2>2, <2>3, <1>Saved
<1>CancelFinish. ASSUME IInv, LoopInv, cancel_finish PROVE Shape
  <2> USE <1>CancelFinish
  <2> DEFINE rec == [run[Top] EXCEPT !.state = "Cancelled"]
  <2>1. Top \in Runs /\ Len(stack) \in Nat \ {0} /\ stack \in Seq(Runs)
    BY Zenon, TopRun DEF cancel_finish, IInv, TypeOK
  <2>2. Len(stack) \in DOMAIN stack
    BY <2>1
  <2>3. run[Top] \in Record /\ run[Top].state \in Fence
    BY Zenon, <2>1, <2>2, RunTyped DEF LoopInv, WalkFenced, Top
  <2>4. rec \in Record /\ SameLinks(rec, run[Top]) /\ rec.state = "Cancelled"
    BY ZenonT(60), <2>3, <1>Links DEF Record, RunStates
  <2>5. Save(Top, rec) /\ UNCHANGED <<task, epoch, dispatched, parked>>
    BY Zenon DEF cancel_finish
  <2> HIDE DEF rec
  <2>6. Moves(rec, run[Top])
    BY Zenon, <2>3, <2>4 DEF Moves, Fence
  <2>7. QED
    BY Zenon, <2>1, <2>4, <2>5, <2>6, <1>Saved
<1>CancelDescend. ASSUME IInv, cancel_descend PROVE Shape
  BY Zenon, <1>CancelDescend, <1>CancelRequest, BelowRuns, TopRun DEF cancel_descend, Visited, Settled
(* drive: the run it accepts is drivable, before and after recovery. *)
<1>Accepted.
  ASSUME IInv, NEW r \in Runs, Recovered(r).state \in Drivable, NEW rec \in Record,
         SameLinks(rec, Recovered(r)), rec.state \notin {"Absent", "Completed", "ContinuedAsNew"}
  PROVE  Moves(rec, run[r])
  <2> USE <1>Accepted
  <2>1. SameLinks(rec, run[r])
    BY Zenon, <1>RecoveredLinks, <1>LinksTrans
  <2>2. QED
    BY Zenon, <2>1, DrivableRecovered DEF Moves, Drivable, Heirs, Fence
<1>DriveSuspended. ASSUME IInv, NEW r \in Runs, NEW state, drive_suspended(r, state) PROVE Shape
  <2> USE <1>DriveSuspended
  <2> DEFINE rec == Suspended(Recovered(r), state)
  <2>1. state \in {"NeedsImplementation", "NeedsInput"} /\ state \in RunStates
    BY Zenon DEF drive_suspended, RunStates
  <2>2. Recovered(r) \in Record
    BY Zenon, RecoveredRecord
  <2>3. rec \in Record /\ rec.state = state /\ SameLinks(rec, Recovered(r))
    BY Zenon, <2>1, <2>2, SuspendedRecord, <1>Links DEF Suspended
  <2>4. /\ Recovered(r).state \in Drivable /\ Save(r, rec) /\ task' = RecoveredTasks(r)
        /\ UNCHANGED <<epoch, dispatched, parked>>
    BY Zenon DEF drive_suspended, memory
  <2> HIDE DEF rec
  <2>5. Moves(rec, run[r])
    BY Zenon, <2>1, <2>3, <2>4, <1>Accepted
  <2>6. QED
    BY Zenon, <2>1, <2>3, <2>4, <2>5, <1>Saved, <1>RecoveredOthers
<1>DrivenLinks.
  ASSUME NEW old \in Record
  PROVE  Driven(old) \in Record /\ Driven(old).state = "Running" /\ SameLinks(Driven(old), old)
  BY Zenon, <1>DrivenLinks, <1>Links, DrivenRecord DEF Driven
<1>ExhaustedLinks.
  ASSUME NEW r, NEW old \in Record, NEW tasks
  PROVE  LET rec == mark_retry_exhausted(r, old, tasks)
         IN  rec \in Record /\ SameLinks(rec, old) /\ rec.state \in {"OutcomeUnknown", "Failed"}
  BY Zenon, <1>ExhaustedLinks, <1>Links, ExhaustedRecord DEF mark_retry_exhausted
<1>Drive. ASSUME IInv, NEW r \in Runs, NEW due, NEW over, NEW fired, drive(r, due, over, fired) PROVE Shape
  <2> USE <1>Drive
  <2> DEFINE rec == Driven(Recovered(r))
             tasks == Advanced(r, due, over)
  <2>1. /\ Recovered(r).state \in Drivable /\ due \cup over \subseteq Retrying(r, RecoveredTasks(r))
        /\ task' = tasks /\ epoch' = epoch
    BY Zenon DEF drive
  <2>2. Recovered(r) \in Record
    BY Zenon, RecoveredRecord
  <2>3. rec \in Record /\ rec.state = "Running" /\ SameLinks(rec, Recovered(r))
    BY Zenon, <2>2, <1>DrivenLinks
  <2>4. \A e \in Effects : e[1] # r => task'[e] = task[e]
    <3>1. \A e \in Effects : e[1] # r => tasks[e] = RecoveredTasks(r)[e]
      BY <2>1, AdvancedIs
    <3>2. QED
      BY Zenon, <2>1, <3>1, <1>RecoveredOthers
  <2>5. CASE over # {}
    <3> DEFINE last == mark_retry_exhausted(r, rec, tasks)
    <3>1. Save(r, last) /\ UNCHANGED <<dispatched, parked>>
      BY Zenon, <2>5 DEF drive, memory
    <3> HIDE DEF rec, tasks
    <3>2. last \in Record /\ SameLinks(last, rec) /\ last.state \in {"OutcomeUnknown", "Failed"}
      BY Zenon, <2>3, <1>ExhaustedLinks
    <3> HIDE DEF last
    <3>3. SameLinks(last, Recovered(r))
      BY Zenon, <2>3, <3>2, <1>LinksTrans
    <3>4. Moves(last, run[r])
      BY Zenon, <2>1, <3>2, <3>3, <1>Accepted
    <3>5. QED
      BY Zenon, <2>1, <2>4, <3>1, <3>2, <3>4, <1>Saved
  <2>6. ASSUME NEW w \in Wakeups, Save(r, [rec EXCEPT !.wakeup = w]), UNCHANGED <<dispatched, parked>>
        PROVE  Shape
    <3> DEFINE last == [rec EXCEPT !.wakeup = w]
    <3> HIDE DEF rec, tasks
    <3>1. last \in Record /\ last.state = "Running" /\ SameLinks(last, rec) /\ last.wakeup = w
      BY Zenon, <2>3, <1>Links, WokenRecord
    <3>2. Save(r, last) /\ w # None
      BY Zenon, <2>6, <1>Due DEF Wakeups
    <3> HIDE DEF last
    <3>3. SameLinks(last, Recovered(r))
      BY Zenon, <2>3, <3>1, <1>LinksTrans
    <3>4. Moves(last, run[r])
      BY Zenon, <2>1, <3>1, <3>3, <1>Accepted
    <3>5. QED
      BY Zenon, <2>1, <2>4, <2>6, <3>1, <3>2, <3>4, <1>Saved
  <2>7. CASE over = {} /\ due # {}
    <3>1. Save(r, [rec EXCEPT !.wakeup = "now"]) /\ UNCHANGED <<dispatched, parked>>
      BY Zenon, <2>7 DEF drive, enter_loop
    <3>2. QED
      BY Zenon, <2>6, <3>1 DEF Wakeups
  <2>8. CASE over = {} /\ due = {} /\ Retrying(r, RecoveredTasks(r)) # {} /\ rec.wakeup # "later"
    <3>1. Save(r, [rec EXCEPT !.wakeup = "later"]) /\ UNCHANGED <<dispatched, parked>>
      BY Zenon, <2>8 DEF drive, enter_loop
    <3>2. QED
      BY Zenon, <2>6, <3>1 DEF Wakeups
  <2>9. CASE over = {} /\ due = {} /\ ~(Retrying(r, RecoveredTasks(r)) # {} /\ rec.wakeup # "later")
    <3>1. SaveRecovered(r) /\ UNCHANGED <<dispatched, parked>>
      BY Zenon, <2>9 DEF drive, enter_loop
    <3>2. due \cup over = {}
      BY Zenon, <2>9
    <3>3. task' = RecoveredTasks(r)
      BY <2>1, <3>2, AdvancedIs
    <3>4. CASE HasInterrupted(r)
      BY Zenon, <2>1, <3>1, <3>3, <3>4, <1>Recovers DEF SaveRecovered
    <3>5. CASE ~HasInterrupted(r)
      BY Zenon, <2>1, <3>1, <3>3, <3>5, RecoveredRecord, <1>Unsaved DEF SaveRecovered
    <3>6. QED
      BY Zenon, <3>4, <3>5
  <2>10. QED
    BY Zenon, <2>5, <2>7, <2>8, <2>9
<1>DriveStep. ASSUME IInv, NEW r \in Runs, DriveStep(r) PROVE Shape
  <2> USE <1>DriveStep
  <2>1. CASE drive_cancelled(r)
    BY Zenon, <2>1, <1>CancelRequest DEF drive_cancelled
  <2>2. CASE drive_stopped(r)
    BY Zenon, <2>2, <1>Recovers DEF drive_stopped, memory
  <2>3. QED
    BY Zenon, <2>1, <2>2, <1>DriveSuspended, <1>Drive DEF DriveStep
<1>PendingLinks.
  ASSUME IInv, NEW r \in Runs
  PROVE  /\ Pending(r) \in Record /\ SameLinks(Pending(r), run[r])
         /\ Pending(r).issued = 1 /\ Pending(r).pc = run[r].pc
         /\ Pending(r).sent = run[r].sent /\ Pending(r).taken = run[r].taken
  <2> USE <1>PendingLinks
  <2>1. run[r] \in Record /\ Driven(run[r]) \in Record /\ SameLinks(Driven(run[r]), run[r])
    BY Zenon, RunTyped, <1>DrivenLinks
  <2>2. SameLinks(Pending(r), Driven(run[r]))
    BY Zenon, <2>1, <1>Links DEF Pending
  <2>3. /\ Driven(run[r]).pc = run[r].pc /\ Driven(run[r]).sent = run[r].sent
        /\ Driven(run[r]).taken = run[r].taken
    BY ZenonT(60), <2>1 DEF Driven, Record
  <2>4. /\ Pending(r).issued = 1 /\ Pending(r).pc = Driven(run[r]).pc
        /\ Pending(r).sent = Driven(run[r]).sent /\ Pending(r).taken = Driven(run[r]).taken
    BY ZenonT(60), <2>1 DEF Pending, Record
  <2>5. QED
    BY Zenon, <2>1, <2>2, <2>3, <2>4, <1>LinksTrans, PendingRecord
<1>DriveValue. ASSUME IInv, NEW r \in Runs, drive_value(r) PROVE Shape
  <2> USE <1>DriveValue
  <2> DEFINE signal_ == Cmd(r).op = "signal" \/ (Cmd(r).op = "select" /\ Chosen(r).kind = "signal")
             taken_ == IF signal_ THEN run[r].taken + 1 ELSE run[r].taken
             kids == IF Cmd(r).op = "child" THEN Append(run[r].children, Cmd(r).run) ELSE run[r].children
             old == Driven(run[r])
             rec == [old EXCEPT !.pc = run[r].pc + 1, !.issued = 0, !.wakeup = "now",
                                !.taken = taken_, !.children = kids]
  <2>1. InLoop(r) /\ Ongoing(r) /\ evaluate(r) = "value"
    BY Zenon DEF drive_value, Evaluates, Turn
  <2>2. run[r] \in Record /\ old \in Record /\ old.state = "Running" /\ SameLinks(old, run[r])
    BY Zenon, RunTyped, <1>DrivenLinks
  <2>3. taken_ \in Nat /\ run[r].pc + 1 \in Nat
    <3>1. run[r].taken \in Nat /\ run[r].pc \in Nat
      BY ZenonT(60), <2>2 DEF Record
    <3>2. QED
      BY <3>1
  <2>4. kids \in Seq(Runs)
    <3>1. run[r].children \in Seq(Runs)
      BY ZenonT(60), <2>2 DEF Record
    <3>2. CASE Cmd(r).op = "child"
      BY Zenon, <2>1, <3>1, <3>2, CmdRun, AppendSeq
    <3>3. CASE Cmd(r).op # "child"
      BY Zenon, <3>1, <3>3
    <3>4. QED
      BY Zenon, <3>2, <3>3
  <2>5. /\ Commit(IF Cmd(r).op = "child" THEN [q \in {r, Cmd(r).run} |-> IF q = r THEN rec ELSE new_run(r)]
                  ELSE Write(r, rec), {})
        /\ task' = Evaluated(r)
        /\ UNCHANGED <<epoch, dispatched, parked>>
    BY Zenon DEF drive_value
  <2> HIDE DEF taken_, kids, old
  <2>6. rec \in Record
    BY ZenonT(60), <2>2, <2>3, <2>4 DEF Record, Wakeups
  <2>7. rec.state = old.state /\ rec.wakeup = "now" /\ rec.parent = old.parent /\ rec.next = old.next
    BY ZenonT(60), <2>2 DEF Record
  <2>8. rec.children = kids
    BY ZenonT(60), <2>2 DEF Record
  <2> HIDE DEF rec
  <2>9. \A e \in Effects : e[1] # r => task'[e] = task[e]
    BY Zenon, <2>1, <2>5, EvaluatedIs
  <2>10. CASE Cmd(r).op = "child"
    <3>1. Cmd(r).run \in Runs /\ run[Cmd(r).run].state = "Absent"
      <4>1. Vacant(Cmd(r).run)
        BY Zenon, <2>1, <2>10 DEF evaluate
      <4>2. QED
        BY Zenon, <2>1, <2>10, <4>1, CmdRun DEF Vacant
    <3>2. rec.children = Append(run[r].children, Cmd(r).run)
      BY Zenon, <2>8, <2>10 DEF kids
    <3>3. Attaches(r, Cmd(r).run, rec)
      BY Zenon, <2>1, <2>2, <2>5, <2>6, <2>7, <2>9, <2>10, <3>1, <3>2, LoopRun DEF Attaches, SameLinks, Wakes
    <3>4. QED
      BY Zenon, <3>1, <3>3 DEF Shape
  <2>11. CASE Cmd(r).op # "child"
    <3>1. SameLinks(rec, run[r])
      BY Zenon, <2>2, <2>7, <2>8, <2>11 DEF SameLinks, kids
    <3>2. QED
      BY Zenon, <2>1, <2>2, <2>5, <2>6, <2>7, <2>9, <2>11, <3>1, <1>Left, <1>Due DEF Save
  <2>12. QED
    BY Zenon, <2>10, <2>11
<1>SuspendedLinks.
  ASSUME NEW old \in Record, NEW s \in RunStates
  PROVE  LET rec == Suspended(old, s)
         IN  rec \in Record /\ SameLinks(rec, old) /\ rec.state = s
  BY Zenon, <1>SuspendedLinks, <1>Links, SuspendedRecord DEF Suspended
<1>RejectedLinks.
  ASSUME NEW old \in Record, NEW reason \in Reasons
  PROVE  LET rec == Rejected(old, reason)
         IN  /\ rec \in Record /\ SameLinks(rec, old)
             /\ rec.state \in {"Failed", "NeedsImplementation", "NeedsInput"}
  BY Zenon, <1>RejectedLinks, <1>Links, RejectedRecord, FailureState DEF Rejected
<1>DriveReturn. ASSUME IInv, NEW r \in Runs, drive_return(r) PROVE Shape
  <2> USE <1>DriveReturn
  <2> DEFINE s == IF JoinChildren(r) = "joined" THEN "Completed" ELSE "Nondeterminism"
             rec == Suspended(Driven(run[r]), s)
  <2>1. InLoop(r) /\ AllDone(r) /\ Save(r, rec) /\ UNCHANGED <<task, epoch, dispatched, parked>>
    BY Zenon DEF drive_return, Turn
  <2>2. s \in RunStates
    BY Zenon DEF RunStates
  <2>3. JoinChildren(r) # "joined" => s = "Nondeterminism"
    BY Zenon
  <2>4. JoinChildren(r) = "joined" => s = "Completed"
    BY Zenon
  <2> HIDE DEF s
  <2>5. rec \in Record /\ rec.state = s /\ SameLinks(rec, run[r])
    <3>1. Driven(run[r]) \in Record /\ SameLinks(Driven(run[r]), run[r])
      BY Zenon, RunTyped, <1>DrivenLinks
    <3>2. rec \in Record /\ rec.state = s /\ SameLinks(rec, Driven(run[r]))
      BY Zenon, <2>2, <3>1, <1>SuspendedLinks
    <3> HIDE DEF rec
    <3>3. QED
      BY Zenon, <3>1, <3>2, <1>LinksTrans
  <2> HIDE DEF rec
  <2>6. CASE JoinChildren(r) # "joined"
    BY Zenon, <2>1, <2>3, <2>5, <2>6, <1>Left
  <2>7. CASE JoinChildren(r) = "joined"
    <3>1. Completes(r, rec)
      BY Zenon, <2>1, <2>4, <2>5, <2>7, LoopRun DEF Completes, Joined, SameLinks, Wakes
    <3>2. QED
      BY Zenon, <3>1 DEF Shape
  <2>8. QED
    BY Zenon, <2>6, <2>7
<1>DrivePropagate. ASSUME IInv, NEW r \in Runs, drive_propagate(r) PROVE Shape
  <2> USE <1>DrivePropagate
  <2>1. InLoop(r) /\ UNCHANGED <<task, epoch, dispatched, parked>>
    BY Zenon DEF drive_propagate, Turn
  <2>2. PICK state \in {"Failed", "Nondeterminism"}, reason \in Reasons \cup {None} : Propagate(r, state, reason)
    <3>1. \A child \in Runs : run[child].reason \in Reasons \cup {None}
      BY ZenonT(60), RunTyped DEF Record
    <3>2. QED
      BY Zenon, <3>1 DEF drive_propagate
  <2> DEFINE wake == IF Retrying(r, task) # {} THEN "later" ELSE None
             rec == [Pending(r) EXCEPT !.state = state, !.reason = reason, !.wakeup = wake]
  <2>3. wake \in Wakeups \cup {None} /\ state \in RunStates /\ Save(r, rec)
    BY Zenon, <2>2 DEF Wakeups, RunStates, Propagate
  <2>4. Pending(r) \in Record /\ SameLinks(Pending(r), run[r])
    BY Zenon, <1>PendingLinks
  <2> HIDE DEF wake
  <2>5. rec \in Record /\ rec.state = state
    BY ZenonT(60), <2>2, <2>3, <2>4 DEF Record
  <2>6. SameLinks(rec, Pending(r))
    BY Zenon, <2>4, <1>Links
  <2> HIDE DEF rec
  <2>7. QED
    BY Zenon, <2>1, <2>2, <2>3, <2>4, <2>5, <2>6, <1>LinksTrans, <1>Left
<1>DriveContinue. ASSUME IInv, NEW r \in Runs, drive_continue(r) PROVE Shape
  <2> USE <1>DriveContinue
  <2> DEFINE s == Cmd(r).run
             rec == [Pending(r) EXCEPT !.state = "ContinuedAsNew", !.next = s]
  <2>1. /\ InLoop(r) /\ Ongoing(r) /\ Cmd(r).op = "continue" /\ evaluate(r) = "ContinuedAsNew"
        /\ Commit([q \in {r, s} |-> IF q = s THEN new_run(run[r].parent) ELSE rec], {})
        /\ UNCHANGED <<task, epoch, dispatched, parked>>
    BY Zenon DEF drive_continue, Evaluates, Turn
  <2>2. s \in Runs
    BY Zenon, <2>1, CmdRun
  <2>3. AllDone(r) /\ JoinChildren(r) = "joined" /\ run[s].state = "Absent"
    <3>1. JoinChildren(r) \in {"joined", "Limit", "Nondeterminism"}
      BY Zenon DEF JoinChildren
    <3>2. AllDone(r)
      BY Zenon, <2>1 DEF evaluate
    <3>3. JoinChildren(r) = "joined"
      BY Zenon, <2>1, <3>1, <3>2 DEF evaluate
    <3>4. QED
      BY Zenon, <2>1, <3>2, <3>3 DEF evaluate, Vacant
  <2>4. Pending(r) \in Record /\ SameLinks(Pending(r), run[r])
    BY Zenon, <1>PendingLinks
  <2> HIDE DEF s
  <2>5. rec \in Record /\ rec.state = "ContinuedAsNew"
    BY ZenonT(60), <2>2, <2>4 DEF Record, RunStates
  <2>6. rec.next = s /\ rec.parent = Pending(r).parent /\ rec.children = Pending(r).children
    BY ZenonT(60), <2>4 DEF Record
  <2> HIDE DEF rec
  <2>7. Joined(r, rec)
    BY Zenon, <2>1, <2>3, <2>4, <2>5, <2>6, LoopRun DEF Joined, SameLinks, Wakes
  <2>8. Continues(r, s, rec)
    BY Zenon, <2>1, <2>3, <2>5, <2>6, <2>7 DEF Continues
  <2>9. QED
    BY Zenon, <2>2, <2>8 DEF Shape
<1>DriveError.
  ASSUME IInv, NEW r \in Runs, InLoop(r), NEW reason \in Reasons, drive_error(r, reason) PROVE Shape
  <2> USE <1>DriveError
  <2> DEFINE rec == Rejected(run[r], reason)
  <2>1. UNCHANGED <<task, epoch, dispatched, parked>> /\ (NoSave \/ Save(r, rec))
    BY Zenon DEF drive_error
  <2>2. rec \in Record /\ SameLinks(rec, run[r]) /\ rec.state \in {"Failed", "NeedsImplementation", "NeedsInput"}
    BY Zenon, RunTyped, <1>RejectedLinks
  <2> HIDE DEF rec
  <2>3. QED
    BY Zenon, <2>1, <2>2, <1>Left, <1>Unsaved
<1>DriveRefused. ASSUME IInv, NEW r \in Runs, drive_refused(r) PROVE Shape
  <2> USE <1>DriveRefused
  <2>1. \E reason \in {"InvalidCommand", "ResourceLimit"} : InLoop(r) /\ drive_error(r, reason)
    BY Zenon DEF drive_refused, Turn, Evaluates
  <2>2. QED
    BY Zenon, <2>1, <1>DriveError DEF Reasons
<1>DriveFault. ASSUME IInv, NEW r \in Runs, NEW fault, drive_fault(r, fault) PROVE Shape
  <2> USE <1>DriveFault
  <2>1. InLoop(r) /\ UNCHANGED <<task, epoch>>
    BY Zenon DEF drive_fault, Turn
  <2>2. CASE Save(r, Suspended(Driven(run[r]), "Nondeterminism")) /\ UNCHANGED <<dispatched, parked>>
    <3> DEFINE rec == Suspended(Driven(run[r]), "Nondeterminism")
    <3>1. Driven(run[r]) \in Record /\ SameLinks(Driven(run[r]), run[r])
      BY Zenon, RunTyped, <1>DrivenLinks
    <3>2. rec \in Record /\ SameLinks(rec, Driven(run[r])) /\ rec.state = "Nondeterminism"
      BY Zenon, <3>1, <1>SuspendedLinks, "Nondeterminism" \in RunStates DEF RunStates
    <3>3. Save(r, rec)
      BY Zenon, <2>2
    <3> HIDE DEF rec
    <3>4. QED
      BY Zenon, <2>1, <2>2, <3>1, <3>2, <3>3, <1>LinksTrans, <1>Left
  <2> DEFINE rec == Rejected(run[r], "InvalidCommand")
  <2>3. rec \in Record /\ SameLinks(rec, run[r]) /\ rec.state \in {"Failed", "NeedsImplementation", "NeedsInput"}
    BY Zenon, RunTyped, <1>RejectedLinks, "InvalidCommand" \in Reasons DEF Reasons
  <2>4. CASE Save(r, rec) /\ UNCHANGED <<dispatched, parked>>
    <3> HIDE DEF rec
    <3>1. QED
      BY Zenon, <2>1, <2>3, <2>4, <1>Left
  <2>5. CASE /\ Commit(Write(r, rec), IF Unstarted(r) = {} THEN {} ELSE parked)
             /\ dispatched' = dispatched \ Unstarted(r)
             /\ parked' = IF Unstarted(r) = {} THEN parked ELSE {}
    <3> DEFINE woken == IF Unstarted(r) = {} THEN {} ELSE parked
    <3>1. Wakes(woken)
      BY Zenon, <2>5 DEF Wakes
    <3>2. Commit(Write(r, rec), woken)
      BY Zenon, <2>5
    <3> HIDE DEF rec, woken
    <3>3. Moves(rec, run[r])
      BY Zenon, <2>1, <2>3, LoopRun DEF Moves, Drivable, Heirs, Fence
    <3>4. Local(r, rec, woken)
      BY Zenon, <2>1, <2>3, <3>1, <3>2, <3>3 DEF Local
    <3>5. QED
      BY Zenon, <3>4 DEF Shape
  <2>6. QED
    BY Zenon, <2>2, <2>4, <2>5 DEF drive_fault
(* A turn that ends with the command blocked. *)
<1>DriveWait. ASSUME IInv, LoopInv, NEW r \in Runs, drive_wait(r) PROVE Shape
  <2> USE <1>DriveWait
  <2>1. /\ Evaluates(r, "blocked") /\ InLoop(r) /\ Ongoing(r) /\ ReadyTasks(r) = {}
        /\ UNCHANGED <<task, epoch, dispatched, parked>> /\ (NoSave \/ Save(r, Pending(r)))
    BY Zenon DEF drive_wait, Evaluates, Turn
  <2>2. CASE NoSave
    BY Zenon, <2>1, <2>2, <1>Unsaved
  <2>3. CASE Save(r, Pending(r))
    <3>1. \A e \in TasksOf(r) : task'[e].state # "Ready" /\ (task'[e].state \in Live => task'[e].owner = epoch)
      <4>1. \A e \in TasksOf(r) : task[e].state # "Ready"
        <5>1. \A e \in Effects : Evaluated(r)[e] = task[e] \/ task[e].state = "Absent"
          BY Zenon, <2>1, EvaluatedIs
        <5>2. QED
          BY Zenon, <2>1, <5>1 DEF ReadyTasks, TasksOf
      <4>2. QED
        BY Zenon, <2>1, <4>1 DEF LoopInv, LoopFresh, InLoop
    <3>2. Waits(r, Pending(r))
      BY Zenon, <2>1, <3>1, <1>PendingLinks DEF Waits
    <3>3. Moves(Pending(r), run[r])
      BY Zenon, <2>1, LoopRun, <1>PendingLinks, PendingRecord DEF Moves, Drivable, Heirs, Fence
    <3>4. Local(r, Pending(r), {})
      BY Zenon, <2>1, <2>3, <3>2, <3>3 DEF Local, Save, Wakes
    <3>5. QED
      BY Zenon, <3>4 DEF Shape
  <2>4. QED
    BY Zenon, <2>1, <2>2, <2>3
<1>EvaluatedTasks.
  ASSUME IInv, NEW r \in Runs, Ongoing(r)
  PROVE  /\ \A e \in Effects : e[1] # r => Evaluated(r)[e] = task[e]
         /\ \A e \in TasksOf(r) : /\ Evaluated(r)[e].state = "Done" => task[e].state = "Done"
                                  /\ Evaluated(r)[e].state = "Absent" => task[e].state = "Absent"
                                  /\ Evaluated(r)[e].state \in Live => Evaluated(r)[e] = task[e]
  BY Zenon, <1>EvaluatedTasks, EvaluatedIs DEF TasksOf, Live
<1>DrivePark. ASSUME IInv, NEW r \in Runs, drive_park(r) PROVE Shape
  <2> USE <1>DrivePark
  <2>1. Evaluates(r, "blocked") /\ InLoop(r) /\ Ongoing(r) /\ Full
    BY Zenon DEF drive_park, Evaluates, Turn
  <2>2. CASE drive_error(r, "ResourceLimit")
    BY Zenon, <2>1, <2>2, <1>DriveError DEF Reasons
  <2>3. CASE /\ parked' = parked \cup {r}
             /\ Save(r, Pending(r))
             /\ task' = Evaluated(r)
             /\ UNCHANGED <<epoch, dispatched>>
    <3>1. Waits(r, Pending(r))
      BY Zenon, <2>1, <2>3, <1>EvaluatedTasks, <1>PendingLinks DEF Waits
    <3>2. Moves(Pending(r), run[r])
      BY Zenon, <2>1, LoopRun, <1>PendingLinks, PendingRecord DEF Moves, Drivable, Heirs, Fence
    <3>3. Local(r, Pending(r), {})
      BY Zenon, <2>1, <2>3, <3>1, <3>2, <1>EvaluatedTasks DEF Local, Save, Wakes
    <3>4. QED
      BY Zenon, <3>3 DEF Shape
  <2>4. QED
    BY Zenon, <2>2, <2>3 DEF drive_park
<1>DriveUnimplemented. ASSUME IInv, NEW r \in Runs, drive_unimplemented(r) PROVE Shape
  <2> USE <1>DriveUnimplemented
  <2> DEFINE rec == Suspended(Pending(r), "NeedsImplementation")
  <2>1. /\ InLoop(r) /\ Ongoing(r) /\ Save(r, rec) /\ task' = Evaluated(r)
        /\ UNCHANGED <<epoch, dispatched, parked>>
    BY Zenon, DispatchesIs DEF drive_unimplemented
  <2>2. Pending(r) \in Record /\ SameLinks(Pending(r), run[r])
    BY Zenon, <1>PendingLinks
  <2>3. rec \in Record /\ SameLinks(rec, Pending(r)) /\ rec.state = "NeedsImplementation"
    BY Zenon, <2>2, <1>SuspendedLinks, "NeedsImplementation" \in RunStates DEF RunStates
  <2> HIDE DEF rec
  <2>4. QED
    BY Zenon, <2>1, <2>2, <2>3, <1>LinksTrans, <1>EvaluatedTasks, <1>Left
<1>DriveExhausted. ASSUME IInv, NEW r \in Runs, NEW e \in TasksOf(r), drive_exhausted(r, e) PROVE Shape
  <2> USE <1>DriveExhausted
  <2> DEFINE tasks == [Evaluated(r) EXCEPT ![e] = Candidate(e)]
             rec == mark_retry_exhausted(r, Pending(r), tasks)
  <2>1. InLoop(r) /\ Ongoing(r) /\ task' = tasks /\ Save(r, rec) /\ UNCHANGED <<epoch, dispatched, parked>>
    BY Zenon, DispatchesIs DEF drive_exhausted
  <2>2. \A f \in Effects : f[1] # r => tasks[f] = task[f]
    <3>1. e[1] = r /\ Evaluated(r) \in [Effects -> Task]
      BY Zenon, <2>1, EvaluatedIs DEF TasksOf
    <3>2. QED
      BY Zenon, <2>1, <3>1, <1>EvaluatedTasks
  <2> HIDE DEF tasks
  <2>3. Pending(r) \in Record /\ SameLinks(Pending(r), run[r])
    BY Zenon, <1>PendingLinks
  <2>4. rec \in Record /\ SameLinks(rec, Pending(r)) /\ rec.state \in {"OutcomeUnknown", "Failed"}
    BY Zenon, <2>3, <1>ExhaustedLinks
  <2> HIDE DEF rec
  <2>5. QED
    BY Zenon, <2>1, <2>2, <2>3, <2>4, <1>LinksTrans, <1>Left
<1>DriveDispatch. ASSUME IInv, LoopInv, NEW r \in Runs, NEW e \in TasksOf(r), drive_dispatch(r, e) PROVE Shape
  <2> USE <1>DriveDispatch
  <2> DEFINE n == Candidate(e).attempt + 1
             t == [Candidate(e) EXCEPT !.state = "InFlight", !.attempt = n, !.owner = epoch]
             wake == IF ReadyTasks(r) # {e} THEN "now" ELSE WaitWakeup(r)
             rec == [Pending(r) EXCEPT !.wakeup = wake]
  <2>1. /\ Evaluates(r, "blocked") /\ InLoop(r) /\ Ongoing(r) /\ FirstReady(r, e)
        /\ task' = [Evaluated(r) EXCEPT ![e] = t] /\ Save(r, rec)
        /\ dispatched' = dispatched \cup {<<e, n>>} /\ UNCHANGED <<epoch, parked>>
    BY Zenon, DispatchesIs DEF drive_dispatch, Dispatches
  <2>2. e \in Effects /\ e[1] = r /\ Candidate(e) \in Task /\ Evaluated(r) \in [Effects -> Task]
    BY Zenon, <2>1, CandidateIs, EvaluatedIs
  <2>3. t.state = "InFlight" /\ t.owner = epoch
    BY Zenon, <2>2 DEF Task
  <2>4. wake \in Wakeups \cup {None} /\ (wake = None => ReadyTasks(r) = {e})
    BY Zenon, WaitWakeupType, <1>Due DEF Wakeups
  <2> HIDE DEF t, wake
  <2>5. task'[e] = t /\ \A f \in Effects \ {e} : task'[f] = Evaluated(r)[f]
    BY Zenon, <2>1, <2>2
  <2>6. Pending(r) \in Record /\ Pending(r).state = "Running"
    BY Zenon, PendingRecord
  <2>7. /\ rec \in Record /\ rec.state = "Running" /\ rec.wakeup = wake /\ SameLinks(rec, Pending(r))
        /\ rec.issued = Pending(r).issued /\ rec.pc = Pending(r).pc
        /\ rec.sent = Pending(r).sent /\ rec.taken = Pending(r).taken
    <3>1. rec \in Record /\ rec.state = "Running" /\ rec.wakeup = wake /\ SameLinks(rec, Pending(r))
      BY Zenon, <2>4, <2>6, WokenRecord, <1>Links
    <3>2. QED
      BY ZenonT(60), <2>6, <3>1 DEF Record
  <2> HIDE DEF rec
  <2>8. \A f \in Effects : f[1] # r => task'[f] = task[f]
    BY Zenon, <2>1, <2>2, <2>5, <1>EvaluatedTasks
  <2>9. ASSUME wake = None PROVE Waits(r, rec)
    <3>1. ASSUME NEW f \in TasksOf(r)
          PROVE  /\ task'[f].state = "Done" => task[f].state = "Done"
                 /\ task'[f].state = "Absent" => task[f].state = "Absent"
                 /\ task'[f].state # "Ready" /\ (task'[f].state \in Live => task'[f].owner = epoch)
      <4>1. CASE f = e
        BY Zenon, <2>3, <2>5, <4>1
      <4>2. CASE f # e
        <5>1. f \in Effects /\ task'[f] = Evaluated(r)[f] /\ f \notin ReadyTasks(r)
          BY Zenon, <2>4, <2>5, <2>9, <4>2 DEF TasksOf
        <5>2. task'[f].state # "Ready"
          BY Zenon, <5>1 DEF ReadyTasks
        <5>3. \A g \in TasksOf(r) : task[g].state \in Live => task[g].owner = epoch
          BY Zenon, <2>1 DEF LoopInv, LoopFresh, InLoop
        <5>4. QED
          BY Zenon, <2>1, <5>1, <5>2, <5>3, <1>EvaluatedTasks
      <4>3. QED
        BY Zenon, <4>1, <4>2
    <3>2. QED
      BY Zenon, <2>1, <2>7, <3>1, <1>PendingLinks DEF Waits
  <2>10. Moves(rec, run[r])
    <3>1. SameLinks(rec, run[r])
      BY Zenon, <2>7, <1>PendingLinks, <1>LinksTrans
    <3>2. QED
      BY Zenon, <2>1, <2>7, <3>1, LoopRun DEF Moves, Drivable, Heirs, Fence
  <2>11. Wakes({})
    BY Zenon, <2>1 DEF Wakes
  <2>12. Local(r, rec, {})
    BY Zenon, <2>1, <2>7, <2>8, <2>9, <2>10, <2>11 DEF Local, Save
  <2>13. QED
    BY Zenon, <2>12 DEF Shape
<1>DriveProgressed. ASSUME IInv, NEW r \in Runs, drive_progressed(r) PROVE Shape
  <2> USE <1>DriveProgressed
  <2> DEFINE rec == [run[r] EXCEPT !.wakeup = "now"]
  <2>1. InLoop(r) /\ Save(r, rec) /\ UNCHANGED <<task, epoch, dispatched, parked>>
    BY Zenon DEF drive_progressed
  <2>2. rec \in Record /\ rec.state = run[r].state /\ SameLinks(rec, run[r]) /\ rec.wakeup = "now"
    BY Zenon, RunTyped, WokenRecord, <1>Links, "now" \in Wakeups \cup {None} DEF Wakeups
  <2> HIDE DEF rec
  <2>3. QED
    BY Zenon, <2>1, <2>2, LoopRun, <1>Left, <1>Due DEF Drivable
<1>TurnStep. ASSUME IInv, LoopInv, NEW r \in Runs, TurnStep(r) PROVE Shape
  <2> USE <1>TurnStep
  <2>1. CASE \E e \in TasksOf(r) : drive_spent(r, e)
    BY Zenon, <2>1, DispatchesIs, <1>DriveError DEF drive_spent, Reasons
  <2>2. CASE drive_cancel(r)
    <3>1. InLoop(r) /\ cancel_request(r)
      BY Zenon, <2>2 DEF drive_cancel, Evaluates, Turn
    <3>2. QED
      BY Zenon, <3>1, LoopRun, <1>CancelRequest DEF Drivable
  <2>3. CASE \E e \in TasksOf(r) : drive_exhausted(r, e) \/ drive_dispatch(r, e)
    BY Zenon, <2>3, <1>DriveExhausted, <1>DriveDispatch
  <2>4. CASE \/ drive_value(r) \/ drive_progressed(r) \/ drive_return(r) \/ drive_propagate(r)
             \/ drive_continue(r)
    BY Zenon, <2>4, <1>DriveValue, <1>DriveProgressed, <1>DriveReturn, <1>DrivePropagate, <1>DriveContinue
  <2>5. CASE \/ drive_refused(r)
             \/ \E fault \in {"nondeterminism", "panic", "malformed"} : drive_fault(r, fault)
             \/ drive_wait(r) \/ drive_park(r) \/ drive_unimplemented(r)
    BY Zenon, <2>5, <1>DriveRefused, <1>DriveFault, <1>DriveWait, <1>DrivePark, <1>DriveUnimplemented
  <2>6. QED
    BY Zenon, <2>1, <2>2, <2>3, <2>4, <2>5 DEF TurnStep
(* The host's calls: release_dispatch wakes every parked run, or nothing   *)
(* was released.                                                           *)
<1>Releases. ASSUME NEW e, NEW n, release_dispatch(e, n) PROVE Wakes(Woken(e, n))
  <2> USE <1>Releases
  <2>1. CASE <<e, n>> \in dispatched
    BY Zenon, <2>1 DEF Wakes, Woken
  <2>2. CASE <<e, n>> \notin dispatched
    BY Zenon, <2>2 DEF Wakes, Woken, release_dispatch
  <2>3. QED
    BY Zenon, <2>1, <2>2
<1>OwnedState.
  ASSUME NEW e \in Effects, NEW n, owned_attempt(e, n)
  PROVE  run[e[1]].state \notin Inactive \/ run[e[1]].state = "Failed"
  BY Zenon, <1>OwnedState DEF owned_attempt, Exhausted
<1>HostMoves.
  ASSUME NEW old \in Record, old.state \notin Inactive \/ old.state = "Failed", NEW rec \in Record,
         SameLinks(rec, old), rec.state \notin {"Absent", "Completed", "ContinuedAsNew"}
  PROVE  Moves(rec, old)
  BY Zenon, <1>HostMoves DEF Moves, Inactive, Heirs, Fence
<1>PrepareRegistered. ASSUME IInv, NEW e \in Effects, NEW n \in Nat, prepare_registered(e, n) PROVE Shape
  <2> USE <1>PrepareRegistered
  <2> DEFINE r == e[1]
             t == In(start_execution(task[e]), "Invoking")
  <2>1. /\ owned_attempt(e, n) /\ task' = [task EXCEPT ![e] = t] /\ Save(r, run[r])
        /\ UNCHANGED <<epoch, dispatched, parked>>
    BY Zenon DEF prepare_registered
  <2>2. r \in Runs /\ run[r] \in Record /\ e \in TasksOf(r) /\ task \in [Effects -> Task]
    BY Zenon, EffectRun, RunTyped DEF TasksOf, IInv, TypeOK
  <2>3. \A f \in Effects : f[1] # r => task'[f] = task[f]
    BY Zenon, <2>1, <2>2
  <2>4. Moves(run[r], run[r])
    <3>1. run[r].state \notin Inactive \/ run[r].state = "Failed"
      BY Zenon, <2>1, <1>OwnedState
    <3>2. QED
      BY Zenon, <2>2, <3>1, <1>HostMoves DEF SameLinks, Inactive
  <2>5. Wakes({})
    BY Zenon, <2>1 DEF Wakes
  <2> HIDE DEF r
  <2>6. Local(r, run[r], {})
    BY Zenon, <2>1, <2>2, <2>3, <2>4, <2>5 DEF Local, Save
  <2>7. QED
    BY Zenon, <2>2, <2>6 DEF Shape
<1>Returned.
  ASSUME IInv, NEW e \in Effects, NEW n, run[e[1]].state \notin Inactive \/ run[e[1]].state = "Failed",
         NEW t, task' = [task EXCEPT ![e] = t], epoch' = epoch, release_dispatch(e, n),
         NEW rec \in Record, SameLinks(rec, run[e[1]]), Commit(Write(e[1], rec), Woken(e, n)),
         rec.state \notin {"Absent", "Completed", "ContinuedAsNew"},
         rec.state # "Running" \/ rec.wakeup # None
  PROVE  Shape
  <2> USE <1>Returned
  <2>1. e[1] \in Runs /\ run[e[1]] \in Record /\ task \in [Effects -> Task]
    BY Zenon, EffectRun, RunTyped DEF IInv, TypeOK
  <2>2. \A f \in Effects : f[1] # e[1] => task'[f] = task[f]
    BY Zenon, <2>1
  <2>3. Moves(rec, run[e[1]])
    BY Zenon, <2>1, <1>HostMoves
  <2>4. Local(e[1], rec, Woken(e, n))
    BY Zenon, <2>2, <2>3, <1>Releases DEF Local
  <2>5. QED
    BY Zenon, <2>1, <2>4 DEF Shape
<1>PrepareStep. ASSUME IInv, NEW e \in Effects, NEW n \in Nat, PrepareStep(e, n) PROVE Shape
  <2> USE <1>PrepareStep
  <2>1. run[e[1]] \in Record
    BY Zenon, EffectRun, RunTyped
  <2>2. CASE prepare_unresolved(e, n)
    <3> DEFINE rec == Suspended(run[e[1]], "NeedsInput")
    <3>1. owned_attempt(e, n) /\ Refuse(e, n, rec)
      BY Zenon, <2>2 DEF prepare_unresolved
    <3>2. rec \in Record /\ SameLinks(rec, run[e[1]]) /\ rec.state = "NeedsInput"
      BY Zenon, <2>1, <1>SuspendedLinks, "NeedsInput" \in RunStates DEF RunStates
    <3> HIDE DEF rec
    <3>3. QED
      BY Zenon, <3>1, <3>2, <1>OwnedState, <1>Returned DEF Refuse
  <2>3. ASSUME NEW reason \in Reasons, reject_dispatch(e, n, reason) PROVE Shape
    <3> DEFINE rec == Rejected(run[e[1]], reason)
    <3>1. run[e[1]].state \notin Inactive /\ Refuse(e, n, rec)
      BY Zenon, <2>3 DEF reject_dispatch, ensure_active
    <3>2. rec \in Record /\ SameLinks(rec, run[e[1]]) /\ rec.state \in {"Failed", "NeedsImplementation", "NeedsInput"}
      BY Zenon, <2>1, <1>RejectedLinks
    <3> HIDE DEF rec
    <3>3. QED
      BY Zenon, <3>1, <3>2, <1>Returned DEF Refuse
  <2>4. QED
    BY Zenon, <2>2, <2>3, <1>PrepareRegistered DEF PrepareStep
<1>Settle.
  ASSUME IInv, NEW e \in Effects, NEW n, NEW t, NEW rec, Settle(e, n, t, rec),
         owned_attempt(e, n) => /\ rec \in Record /\ SameLinks(rec, run[e[1]])
                                /\ rec.state \notin {"Absent", "Completed", "ContinuedAsNew"}
                                /\ rec.state # "Running" \/ rec.wakeup # None
  PROVE  Shape
  <2> USE <1>Settle
  <2>1. epoch' = epoch /\ release_dispatch(e, n)
    BY Zenon DEF Settle
  <2>2. CASE owned_attempt(e, n)
    <3>1. task' = [task EXCEPT ![e] = t] /\ Commit(Write(e[1], rec), Woken(e, n))
      BY Zenon, <2>2 DEF Settle
    <3>2. QED
      BY Zenon, <2>1, <2>2, <3>1, <1>OwnedState, <1>Returned
  <2>3. CASE ~owned_attempt(e, n)
    BY Zenon, <2>1, <2>3, <1>Releases DEF Settle, Shape
  <2>4. QED
    BY Zenon, <2>2, <2>3
<1>Complete. ASSUME IInv, NEW e \in Effects, NEW n \in Nat, complete(e, n) PROVE Shape
  <2> USE <1>Complete
  <2> DEFINE t     == In(mark_execution(task[e]), "Done")
             rec   == run[e[1]]
             ended == ~has_unresolved_effect(e[1], [task EXCEPT ![e] = t])
             after == CASE rec.state = "OutcomeUnknown" /\ ended /\ rec.reason = "RetryExhausted" ->
                             [rec EXCEPT !.state = "Failed", !.wakeup = None]
                        [] rec.state = "OutcomeUnknown" /\ ended /\ rec.reason # "RetryExhausted" ->
                             [rec EXCEPT !.state = "Running", !.wakeup = "now"]
                        [] rec.state = "OutcomeUnknown" /\ ~ended -> [rec EXCEPT !.wakeup = None]
                        [] OTHER -> [rec EXCEPT !.wakeup = "now"]
  <2>1. Settle(e, n, t, after)
    BY Zenon DEF complete
  <2>2. rec \in Record
    BY Zenon, EffectRun, RunTyped
  <2>3. owned_attempt(e, n) => rec.state \notin {"Absent", "Completed", "ContinuedAsNew"}
    BY Zenon, <1>OwnedState DEF Inactive
  <2> HIDE DEF t, rec, ended
  <2>4. \A s \in RunStates, w \in Wakeups \cup {None} :
           LET new == [rec EXCEPT !.state = s, !.wakeup = w]
           IN  new \in Record /\ SameLinks(new, rec) /\ new.state = s /\ new.wakeup = w
    <3>1. ASSUME NEW s \in RunStates, NEW w \in Wakeups \cup {None}
          PROVE  LET new == [rec EXCEPT !.state = s, !.wakeup = w]
                 IN  new \in Record /\ SameLinks(new, rec) /\ new.state = s /\ new.wakeup = w
      BY ZenonT(60), <2>2, <1>Links DEF Record
    <3>2. QED
      BY Zenon, <3>1
  <2>5. \A w \in Wakeups \cup {None} :
           LET new == [rec EXCEPT !.wakeup = w]
           IN  new \in Record /\ SameLinks(new, rec) /\ new.state = rec.state /\ new.wakeup = w
    BY Zenon, <2>2, <1>Links, WokenRecord
  <2>6. /\ after \in Record /\ SameLinks(after, rec)
        /\ after.state \in {rec.state, "Failed", "Running"}
        /\ after.state # "Running" \/ after.wakeup # None
    <3>1. CASE rec.state = "OutcomeUnknown" /\ ended /\ rec.reason = "RetryExhausted"
      BY Zenon, <2>4, <3>1 DEF RunStates
    <3>2. CASE rec.state = "OutcomeUnknown" /\ ended /\ rec.reason # "RetryExhausted"
      <4>1. after = [rec EXCEPT !.state = "Running", !.wakeup = "now"]
        BY Zenon, <3>2
      <4>2. "Running" \in RunStates /\ "now" \in Wakeups \cup {None}
        BY Zenon DEF RunStates, Wakeups
      <4>3. after \in Record /\ SameLinks(after, rec) /\ after.state = "Running" /\ after.wakeup = "now"
        <5> HIDE DEF after
        <5>1. QED
          BY Zenon, <2>4, <4>1, <4>2
      <4> HIDE DEF after
      <4>4. QED
        BY Zenon, <4>3, <1>Due
    <3>3. CASE rec.state = "OutcomeUnknown" /\ ~ended
      <4>1. after = [rec EXCEPT !.wakeup = None]
        BY Zenon, <3>3
      <4>2. QED
        BY Zenon, <2>5, <3>3, <4>1
    <3>4. CASE rec.state # "OutcomeUnknown"
      <4>1. after = [rec EXCEPT !.wakeup = "now"]
        BY Zenon, <3>4
      <4>2. QED
        BY Zenon, <2>5, <3>4, <4>1, <1>Due DEF Wakeups
    <3>5. QED
      BY Zenon, <3>1, <3>2, <3>3, <3>4
  <2> HIDE DEF after
  <2>7. QED
    BY Zenon, <2>1, <2>3, <2>6, <1>Settle DEF rec
<1>Fail. ASSUME IInv, NEW e \in Effects, NEW n \in Nat, NEW failure, fail(e, n, failure) PROVE Shape
  <2> USE <1>Fail
  <2> DEFINE t   == mark_execution(task[e])
             rec == run[e[1]]
  <2>1. rec \in Record /\ (owned_attempt(e, n) => rec.state \notin {"Absent", "Completed", "ContinuedAsNew"})
    BY Zenon, EffectRun, RunTyped, <1>OwnedState DEF Inactive
  <2>2. CASE Settle(e, n, In(t, "Ready"), mark_retry_exhausted(e[1], rec, [task EXCEPT ![e] = In(t, "Ready")]))
    <3> DEFINE after == mark_retry_exhausted(e[1], rec, [task EXCEPT ![e] = In(t, "Ready")])
    <3>1. after \in Record /\ SameLinks(after, rec) /\ after.state \in {"OutcomeUnknown", "Failed"}
      BY Zenon, <2>1, <1>ExhaustedLinks
    <3>2. Settle(e, n, In(t, "Ready"), after)
      BY Zenon, <2>2
    <3> HIDE DEF t, after
    <3>3. QED
      BY Zenon, <3>1, <3>2, <1>Settle
  <2>3. CASE Settle(e, n, In(t, "Retrying"), [rec EXCEPT !.wakeup = IF rec.wakeup = "now" THEN "now" ELSE "later"])
    <3> DEFINE w == IF rec.wakeup = "now" THEN "now" ELSE "later"
               after == [rec EXCEPT !.wakeup = w]
    <3>1. w \in Wakeups /\ w # None
      BY Zenon, <1>Due DEF Wakeups
    <3>2. Settle(e, n, In(t, "Retrying"), after)
      BY Zenon, <2>3
    <3> HIDE DEF t, w
    <3>3. after \in Record /\ SameLinks(after, rec) /\ after.state = rec.state /\ after.wakeup = w
      BY Zenon, <2>1, <3>1, <1>Links, WokenRecord
    <3> HIDE DEF after
    <3>4. QED
      BY Zenon, <2>1, <3>1, <3>2, <3>3, <1>Settle
  <2>4. CASE Settle(e, n, In(t, "Uncertain"), Suspended(rec, "OutcomeUnknown"))
    <3> DEFINE after == Suspended(rec, "OutcomeUnknown")
    <3>1. after \in Record /\ SameLinks(after, rec) /\ after.state = "OutcomeUnknown"
      BY Zenon, <2>1, <1>SuspendedLinks, "OutcomeUnknown" \in RunStates DEF RunStates
    <3>2. Settle(e, n, In(t, "Uncertain"), after)
      BY Zenon, <2>4
    <3> HIDE DEF t, after
    <3>3. QED
      BY Zenon, <3>1, <3>2, <1>Settle
  <2>5. QED
    BY Zenon, <2>2, <2>3, <2>4 DEF fail
<1>Reconcile. ASSUME IInv, NEW e \in Effects, NEW n, NEW observed, reconcile(e, n, observed) PROVE Shape
  <2> USE <1>Reconcile
  <2> DEFINE r     == e[1]
             t     == In(RecoveredTask(e), IF observed THEN "Done" ELSE "Ready")
             tasks == [RecoveredTasks(r) EXCEPT ![e] = t]
             state == CASE has_unresolved_effect(r, tasks) -> "OutcomeUnknown"
                        [] ~has_unresolved_effect(r, tasks) /\ run[r].reason = "RetryExhausted" -> "Failed"
                        [] OTHER -> "Running"
             wake  == IF state = "Failed" THEN None ELSE "now"
             audit_ == run[r].audit + 1
             rec   == [run[r] EXCEPT !.state = state, !.audit = audit_, !.wakeup = wake]
  <2>1. /\ run[r].state = "OutcomeUnknown" /\ task' = tasks /\ Save(r, rec)
        /\ UNCHANGED <<epoch, dispatched, parked>>
    BY Zenon DEF reconcile, MayReconcile, memory
  <2>2. r \in Runs /\ run[r] \in Record /\ audit_ \in Nat
    BY EffectRun, RunTyped DEF Record
  <2>3. state \in {"OutcomeUnknown", "Failed", "Running"} /\ wake \in Wakeups \cup {None}
        /\ (state = "Running" => wake # None)
    BY Zenon, <1>Due DEF Wakeups
  <2>4. \A f \in Effects : f[1] # r => task'[f] = task[f]
    <3>1. RecoveredTasks(r) \in [Effects -> Task]
      BY Zenon, <2>2, RecoveredTasksAre
    <3>2. \A f \in Effects : f[1] # r => tasks[f] = RecoveredTasks(r)[f]
      BY Zenon, <3>1
    <3>3. QED
      BY Zenon, <2>1, <2>2, <3>2, <1>RecoveredOthers
  <2> HIDE DEF state, wake, audit_, r
  <2>5. rec \in Record /\ rec.state = state /\ rec.wakeup = wake
    BY ZenonT(60), <2>2, <2>3 DEF Record, RunStates
  <2>6. SameLinks(rec, run[r])
    BY Zenon, <2>2, <1>Links
  <2> HIDE DEF rec
  <2>7. Moves(rec, run[r])
    BY Zenon, <2>1, <2>3, <2>5, <2>6 DEF Moves, Heirs, Fence
  <2>8. QED
    BY Zenon, <2>1, <2>2, <2>3, <2>4, <2>5, <2>7, <1>Saved
<1>1. CASE UNCHANGED vars
  BY Zenon, <1>1, <1>Unsaved DEF vars, memory, NoSave
<1>2. CASE \E r \in Runs : start(r) \/ signal(r) \/ resume(r) \/ cancel(r) \/ reconcile_refused(r)
  <2>1. ASSUME NEW r \in Runs, cancel(r) PROVE Shape
    BY Zenon, <2>1, <1>CancelRequest DEF cancel, Settled
  <2>2. ASSUME NEW r \in Runs, reconcile_refused(r) PROVE Shape
    BY Zenon, <2>2, <1>Recovers DEF reconcile_refused, memory
  <2>3. ASSUME NEW r \in Runs, start(r) PROVE Shape
    BY Zenon, <2>3 DEF Shape
  <2>4. QED
    BY Zenon, <1>2, <2>1, <2>2, <2>3, <1>Signal, <1>Resume
<1>3. CASE \E r \in Runs : DriveStep(r) \/ TurnStep(r)
  BY Zenon, <1>3, <1>DriveStep, <1>TurnStep
<1>4. CASE \E e \in Effects : \E n \in 1..task[e].attempt :
             \/ PrepareStep(e, n)
             \/ ResultStep(e, n)
             \/ \E observed \in BOOLEAN : reconcile(e, n, observed)
  <2>1. PICK e \in Effects : \E n \in Nat : \/ PrepareStep(e, n)
                                            \/ ResultStep(e, n)
                                            \/ \E observed \in BOOLEAN : reconcile(e, n, observed)
    <3>1. \A e \in Effects : 1..task[e].attempt \subseteq Nat
      BY DEF IInv, TypeOK, Task
    <3>2. QED
      BY Zenon, <1>4, <3>1
  <2>2. QED
    BY Zenon, <2>1, <1>PrepareStep, <1>Complete, <1>Fail, <1>Reconcile DEF ResultStep
<1>5. CASE open
  BY Zenon, <1>5 DEF Shape
<1>6. QED
  BY Zenon, <1>1, <1>2, <1>3, <1>4, <1>5, <1>CancelDescend, <1>CancelFinish DEF Next

============================================================================
