------------------------------- MODULE Engine -------------------------------
(***************************************************************************)
(* The durable workflow engine (appcall-engine) as the host thread of      *)
(* appcall-engine-http drives it, over the store that persists the runs.   *)
(*                                                                         *)
(* A workflow is deterministic code that replays against its recorded      *)
(* command history, so a run is modelled by a fixed sequence of commands   *)
(* (Program) and the number of commands already answered (pc).  An         *)
(* activity command creates a task; the engine dispatches attempts of the  *)
(* task, the host invokes them outside the engine, and results come back   *)
(* later, perhaps after a restart, or never.                               *)
(*                                                                         *)
(* Every engine call runs on one thread (&mut self) and persists the run   *)
(* record by single transactions, so an action is one transaction together *)
(* with the in-memory bookkeeping around it.  Calls that commit several    *)
(* times (the drive loop, dispatch followed by preparation, the            *)
(* cancellation walk) take one step per commit; `phase` keeps every other  *)
(* call out meanwhile, and a crash may fall between two of the steps.      *)
(*                                                                         *)
(* Clock values are abstracted to what they decide: a persisted wakeup is  *)
(* absent (None), due ("now", the value 0 of the code) or in the future    *)
(* ("later"), and each drive is given the timers, backoffs and retry       *)
(* windows that have run out by then.                                      *)
(***************************************************************************)
EXTENDS Integers, Sequences, FiniteSets, FiniteSetsExt

CONSTANTS
    Runs,           \* run ids, derived child and successor ids included
    Roots,          \* the ids that clients start
    Program,        \* Runs -> sequence of commands
    None,
    Embedded,       \* FALSE: the daemon's host thread; TRUE: a host that keeps
                    \*   dispatched attempts and calls the engine in any order
    Faults,         \* ways in which the workflow code may misbehave
    Missing,        \* what may be unavailable: "workflow", "activity", "payload",
                    \*   and "room": the payload is larger than the engine accepts
    DispatchLimit,  \* dispatch_limit
    DriveBound,     \* loop bound of one drive (128)
    MaxAttempts,    \* RetryPolicy.max_attempts
    MaxDispatch,    \* largest attempt number (u64::MAX)
    MaxParked, MaxSignals, MaxAudit,        \* 256 each
    MaxHistory,     \* commands that a run may record (1024)
    MaxHops,        \* continue-as-new links followed by latest_run (1024)
    MaxEpoch        \* bound of the model: number of restarts

Effects == UNION {{<<r, i>> : i \in {j \in DOMAIN Program[r] : Program[r][j].op = "activity"}}
                  : r \in Runs}

TasksOf(r) == {e \in Effects : e[1] = r}

Unsafe(e) == Program[e[1]][e[2]].policy \in {"Reconcile", "Unknown"}

ASSUME ConstantsAssumption ==
    /\ Roots \subseteq Runs
    /\ Embedded \in BOOLEAN
    /\ DispatchLimit \in 1..256
    /\ {DriveBound, MaxAttempts, MaxDispatch, MaxHistory, MaxHops, MaxEpoch} \subseteq Nat \ {0}
    /\ {MaxParked, MaxSignals, MaxAudit} \subseteq Nat

ASSUME ProgramAssumption ==
    /\ None \notin Runs
    /\ None \notin {"now", "later"}
    /\ \A r \in Runs : Len(Program[r]) \in Nat /\ DOMAIN Program[r] = 1..Len(Program[r])
    /\ \A r \in Runs : \A i \in DOMAIN Program[r] :
         /\ Program[r][i].op \in {"activity", "timer", "signal", "child", "select", "continue"}
         /\ Program[r][i].op \in {"child", "continue"} => Program[r][i].run \in Runs
         /\ Program[r][i].op = "select" =>
              /\ DOMAIN Program[r][i].sources \subseteq Nat
              /\ \A j \in DOMAIN Program[r][i].sources :
                   Program[r][i].sources[j].kind \in {"timer", "signal", "activity", "child"}

VARIABLES
    run,            \* the persisted record of each run, less its tasks
    task,           \* the persisted task of each activity command
    column,         \* the wakeup column of the run's row, which schedules it
    epoch,          \* the owner epoch, advanced whenever the store is opened
    dispatched,     \* in memory: <<effect, attempt>> pairs holding capacity
    parked,         \* in memory: runs waiting for capacity
    threads,        \* in memory: attempts whose native handler is executing
    phase,          \* in memory: the engine call in progress
    driven,         \* in memory: its run, or the effect being prepared
    loop,           \* in memory: the locals of drive
    stack,          \* in memory: the recursion of cancel
    maybe,          \* history: attempts whose effect may exist in the world
    invoked         \* history: how many attempts reached a handler

memory == <<dispatched, parked, threads, phase, driven, loop, stack>>
history == <<maybe, invoked>>
vars == <<run, task, column, epoch, memory, history>>

RunStates == {"Absent", "Running", "CancelRequested", "Cancelled", "Completed", "NeedsInput",
              "NeedsImplementation", "OutcomeUnknown", "Nondeterminism", "Failed",
              "ContinuedAsNew"}

Reasons == {"InvalidCommand", "ResourceLimit", "MissingActivityImplementation",
            "PayloadUnavailable", "RetryExhausted"}

TaskStates == {"Absent", "Ready", "InFlight", "Invoking", "Done", "Uncertain", "Retrying"}

Live == {"InFlight", "Invoking"}

Wakeups == {"now", "later"}

Task == [state : TaskStates,
         attempt : Nat,                     \* attempt.attempt
         owner : Nat,                       \* attempt.owner_epoch
         exec : Nat,                        \* execution.execution_attempts
         charged : Nat,                     \* execution.execution_dispatch_attempt
         known : {"unexecuted", "unknown"}] \* execution.known_unexecuted

Loop == [left : Nat, wrote : BOOLEAN, fired : BOOLEAN]

NoLoop == [left |-> 0, wrote |-> FALSE, fired |-> FALSE]

Record == [state : RunStates, reason : Reasons \cup {None}, wakeup : Wakeups \cup {None},
           pc : Nat, issued : {0, 1}, sent : Nat, taken : Nat, audit : Nat,
           children : Seq(Runs), next : Runs \cup {None}, parent : Runs \cup {None}]

TypeOK ==
    /\ run \in [Runs -> Record]
    /\ task \in [Effects -> Task]
    /\ column \in [Runs -> Wakeups \cup {None}]
    /\ epoch \in 1..MaxEpoch
    /\ dispatched \subseteq Effects \X Nat
    /\ parked \subseteq Runs
    /\ threads \subseteq Effects \X Nat
    /\ phase \in {"idle", "drive", "prepare", "cancel"}
    /\ driven \in Runs \cup Effects \cup {None}
    /\ loop \in Loop
    /\ stack \in Seq(Runs)
    /\ maybe \in [Effects -> SUBSET Nat]
    /\ invoked \in [Effects -> Nat]

NoTask == [state |-> "Absent", attempt |-> 0, owner |-> 0, exec |-> 0, charged |-> 0,
           known |-> "unknown"]

new_run(parent) ==
    [state |-> "Running", reason |-> None, wakeup |-> "now", pc |-> 0, issued |-> 0,
     sent |-> 0, taken |-> 0, audit |-> 0, children |-> <<>>, next |-> None, parent |-> parent]

Init ==
    /\ run = [r \in Runs |-> [new_run(None) EXCEPT !.state = "Absent", !.wakeup = None]]
    /\ task = [e \in Effects |-> NoTask]
    /\ column = [r \in Runs |-> None]
    /\ epoch = 1
    /\ dispatched = {}
    /\ parked = {}
    /\ threads = {}
    /\ phase = "idle"
    /\ driven = None
    /\ loop = NoLoop
    /\ stack = <<>>
    /\ maybe = [e \in Effects |-> {}]
    /\ invoked = [e \in Effects |-> 0]

----------------------------------------------------------------------------
(* The store.  A run is scheduled by the wakeup column of its row, which   *)
(* commit copies from the record but the store also sets on its own.       *)

(* Mutant: a run whose cancellation was requested is not scheduled. *)
Scheduled_running(rec) == rec.state = "Running"

(* state(): the rows that runnable and next_wakeup look at. *)
Scheduled(rec) == rec.state \in {"Running", "CancelRequested"}

(* Mutant: only a success wakes the parent. *)
Ended_completed == {"Completed"}

Ended == {"Completed", "Cancelled", "Failed", "Nondeterminism"}

Write(r, rec) == [q \in {r} |-> rec]

(* Store::commit of the records in `writes` (a run, and the child it       *)
(* creates) followed by the saves of release_dispatch, which make every    *)
(* woken run that is Running due.  A run that ends makes its parent's row  *)
(* due, without touching the parent's record.                              *)
Commit(writes, woken) ==
    LET new  == [q \in Runs |-> IF q \in DOMAIN writes THEN writes[q] ELSE run[q]]
        wake == {q \in woken : new[q].state = "Running"}
        due  == {new[q].parent : q \in {w \in DOMAIN writes : writes[w].state \in Ended}}
    IN  /\ run' = [q \in Runs |-> IF q \in wake THEN [new[q] EXCEPT !.wakeup = "now"]
                                  ELSE new[q]]
        /\ column' = [q \in Runs |->
               IF q \in wake \/ (q \in due /\ Scheduled(new[q])) THEN "now"
               ELSE IF q \in DOMAIN writes THEN writes[q].wakeup ELSE column[q]]

Save(r, rec) == Commit(Write(r, rec), {})

NoSave == UNCHANGED <<run, column>>

Runnable(r) == Scheduled(run[r]) /\ column[r] # None

(* Mutant: dispatched work is not looked for. *)
requires_recovery_undispatched(r) ==
    run[r].state = "CancelRequested"

(* requires_recovery: what SqliteStore::open makes due again. *)
requires_recovery(r) ==
    \/ run[r].state = "CancelRequested"
    \/ \E e \in TasksOf(r) : task[e].state \in {"Ready"} \cup Live

(* The process stops at any point and the store is opened again: all that  *)
(* was in memory is gone, the epoch has advanced, and rows with unfinished *)
(* work are due.                                                           *)
open ==
    /\ epoch < MaxEpoch
    /\ epoch' = epoch + 1
    /\ column' = [r \in Runs |-> IF Scheduled(run[r]) /\ requires_recovery(r)
                                 THEN "now" ELSE column[r]]
    /\ dispatched' = {}
    /\ parked' = {}
    /\ threads' = {}
    /\ phase' = "idle"
    /\ driven' = None
    /\ loop' = NoLoop
    /\ stack' = <<>>
    /\ UNCHANGED <<run, task, history>>

----------------------------------------------------------------------------
(* Run and task transformers shared by the calls.                          *)

Inactive == {"Absent", "Cancelled", "CancelRequested", "Completed", "Nondeterminism", "Failed",
             "ContinuedAsNew"}

ensure_active(r) == run[r].state \notin Inactive

Exhausted(rec) == rec.state = "Failed" /\ rec.reason = "RetryExhausted"

failure_state(reason) ==
    CASE reason \in {"InvalidCommand", "ResourceLimit", "RetryExhausted"} -> "Failed"
      [] reason = "MissingActivityImplementation" -> "NeedsImplementation"
      [] reason = "PayloadUnavailable" -> "NeedsInput"

Rejected(rec, reason) ==
    [rec EXCEPT !.state = failure_state(reason), !.reason = reason, !.wakeup = None]

Suspended(rec, state) == [rec EXCEPT !.state = state, !.wakeup = None]

has_unresolved_effect(r, tasks) ==
    \E e \in TasksOf(r) : \/ tasks[e].state = "Uncertain"
                          \/ tasks[e].state \in Live /\ Unsafe(e)

(* Mutant: any exhausted run has an unknown outcome. *)
mark_retry_exhausted_unknown(r, rec, tasks) ==
    [rec EXCEPT !.reason = "RetryExhausted", !.wakeup = None, !.state = "OutcomeUnknown"]

mark_retry_exhausted(r, rec, tasks) ==
    [rec EXCEPT !.reason = "RetryExhausted", !.wakeup = None,
                !.state = IF has_unresolved_effect(r, tasks) THEN "OutcomeUnknown" ELSE "Failed"]

In(t, state) == [t EXCEPT !.state = state]

(* Mutant: the refused attempt is refunded, though it was never charged. *)
Unexecuted_refunded(t) ==
    [t EXCEPT !.state = "Ready", !.known = "unexecuted", !.exec = t.exec - 1]

(* A dispatch that the host refused before anything ran. *)
Unexecuted(t) == [t EXCEPT !.state = "Ready", !.known = "unexecuted"]

infer_prior_execution(t) ==
    IF t.known = "unexecuted" \/ t.exec # 0 \/ t.attempt = 0
    THEN t ELSE [t EXCEPT !.exec = t.attempt, !.charged = t.attempt]

(* Mutant: a task is charged for its first attempt only. *)
start_execution_first(t) ==
    IF t.charged # 0 THEN [t EXCEPT !.known = "unknown"]
    ELSE [t EXCEPT !.exec = t.exec + 1, !.charged = t.attempt, !.known = "unknown"]

(* start_execution: charge the attempt to the retry budget, once. *)
start_execution(t) ==
    IF t.charged = t.attempt THEN [t EXCEPT !.known = "unknown"]
    ELSE [t EXCEPT !.exec = t.exec + 1, !.charged = t.attempt, !.known = "unknown"]

mark_execution(t) == start_execution(infer_prior_execution(t))

owned_task(e, n) == task[e].attempt = n /\ task[e].owner = epoch /\ task[e].state \in Live

(* Mutant: the state of the run is not looked at. *)
owned_attempt_unfenced(e, n) == owned_task(e, n)

owned_attempt(e, n) ==
    /\ owned_task(e, n)
    /\ run[e[1]].state \in Inactive => Exhausted(run[e[1]])

(* Mutant: a result that is fenced off wakes nobody. *)
Woken_current(e, n) == IF <<e, n>> \in dispatched /\ owned_attempt(e, n) THEN parked ELSE {}

(* release_dispatch: the attempt's capacity goes back and every parked run *)
(* is woken, provided the attempt still holds capacity.                    *)
Woken(e, n) == IF <<e, n>> \in dispatched THEN parked ELSE {}

(* Mutant: a result that is fenced off keeps its capacity. *)
release_dispatch_current(e, n) ==
    /\ dispatched' = IF owned_attempt(e, n) THEN dispatched \ {<<e, n>>} ELSE dispatched
    /\ parked' = parked \ Woken(e, n)

release_dispatch(e, n) ==
    /\ dispatched' = dispatched \ {<<e, n>>}
    /\ parked' = parked \ Woken(e, n)

(* Mutant: what an earlier owner finished counts as interrupted, too. *)
Interrupted_done(e) ==
    /\ run[e[1]].state \notin Inactive \/ Exhausted(run[e[1]])
    /\ task[e].state \in Live \cup {"Done"} /\ task[e].owner # epoch

(* recover: what an earlier owner left in flight is ready again if its     *)
(* effect is safe to repeat, and uncertain otherwise.                      *)
Interrupted(e) ==
    LET rec == run[e[1]]
    IN  /\ rec.state \notin Inactive \/ Exhausted(rec)
        /\ task[e].state \in Live
        /\ task[e].owner # epoch \/ (Exhausted(rec) /\ Unsafe(e))

RecoveredTask(e) ==
    IF Interrupted(e) THEN In(task[e], IF Unsafe(e) THEN "Uncertain" ELSE "Ready") ELSE task[e]

RecoveredTasks(r) == [e \in Effects |-> IF e[1] = r THEN RecoveredTask(e) ELSE task[e]]

HasInterrupted(r) == \E e \in TasksOf(r) : Interrupted(e)

(* Mutant: the run stays as it was. *)
Recovered_unreported(r) == run[r]

Recovered(r) ==
    LET state == IF \E e \in TasksOf(r) : Interrupted(e) /\ Unsafe(e)
                 THEN "OutcomeUnknown" ELSE run[r].state
    IN  IF HasInterrupted(r)
        THEN [run[r] EXCEPT !.state = state,
                            !.wakeup = IF state = "Running" THEN "now" ELSE None]
        ELSE run[r]

(* The save at the end of recover: only when a task changed. *)
SaveRecovered(r) == IF HasInterrupted(r) THEN Save(r, Recovered(r)) ELSE NoSave

----------------------------------------------------------------------------
(* Client calls that only touch the run.                                   *)

start(r) ==
    /\ phase = "idle"
    /\ r \in Roots
    /\ run[r].state = "Absent"
    /\ Save(r, new_run(None))
    /\ UNCHANGED <<task, epoch, memory, history>>

signal(r) ==
    /\ phase = "idle"
    /\ ensure_active(r)
    /\ run[r].sent < MaxSignals
    /\ Save(r, [run[r] EXCEPT !.sent = run[r].sent + 1, !.wakeup = "now"])
    /\ UNCHANGED <<task, epoch, memory, history>>

(* resume: requeue a suspended run; a running one is only recovered. *)
resume(r) ==
    /\ phase = "idle"
    /\ \/ /\ run[r].state \in {"NeedsInput", "NeedsImplementation"}
          /\ Save(r, [run[r] EXCEPT !.state = "Running", !.wakeup = "now"])
          /\ UNCHANGED task
       \/ /\ run[r].state = "Running"
          /\ HasInterrupted(r)
          /\ Save(r, Recovered(r))
          /\ task' = RecoveredTasks(r)
    /\ UNCHANGED <<epoch, memory, history>>

----------------------------------------------------------------------------
(* cancel: the request is durable before the walk over children and the    *)
(* successor; each run is Cancelled once nothing below it can be.          *)

Settled == {"Absent", "Completed", "Cancelled", "OutcomeUnknown", "Nondeterminism", "Failed"}

cancel_request(r) ==
    /\ Save(r, [run[r] EXCEPT !.state = "CancelRequested", !.wakeup = "now"])
    /\ phase' = "cancel"
    /\ driven' = None
    /\ loop' = NoLoop
    /\ stack' = Append(stack, r)
    /\ UNCHANGED <<task, epoch, dispatched, parked, threads, history>>

cancel(r) ==
    /\ phase = "idle"
    /\ run[r].state \notin Settled
    /\ cancel_request(r)

Top == stack[Len(stack)]

(* Mutant: the successor is forgotten. *)
Below_children(r) == run[r].children

(* The runs that the walk visits: the children in order, then the successor. *)
Below(r) ==
    IF run[r].next = None THEN run[r].children ELSE Append(run[r].children, run[r].next)

Visited(r, i) == run[Below(r)[i]].state \in Settled

cancel_descend ==
    /\ phase = "cancel"
    /\ \E i \in DOMAIN Below(Top) :
         /\ ~Visited(Top, i)
         /\ \A j \in 1..(i - 1) : Visited(Top, j)
         /\ cancel_request(Below(Top)[i])

cancel_finish ==
    /\ phase = "cancel"
    /\ \A i \in DOMAIN Below(Top) : Visited(Top, i)
    /\ Save(Top, [run[Top] EXCEPT !.state = "Cancelled"])
    /\ stack' = SubSeq(stack, 1, Len(stack) - 1)
    /\ phase' = IF Len(stack) = 1 THEN "idle" ELSE "cancel"
    /\ UNCHANGED <<task, epoch, dispatched, parked, threads, driven, loop, history>>

----------------------------------------------------------------------------
(* drive, up to its loop.  The host drives the runs that runnable returns; *)
(* an embedding host may drive any run.                                    *)

MayDrive(r) ==
    /\ phase = "idle"
    /\ Runnable(r) \/ (Embedded /\ run[r].state # "Absent")

Drivable == {"Running", "NeedsInput", "NeedsImplementation"}

drive_cancelled(r) ==
    /\ MayDrive(r)
    /\ run[r].state = "CancelRequested"
    /\ cancel_request(r)

(* After recovery the run turns out not to be drivable. *)
drive_stopped(r) ==
    /\ MayDrive(r)
    /\ HasInterrupted(r)
    /\ Recovered(r).state \notin Drivable
    /\ Save(r, Recovered(r))
    /\ task' = RecoveredTasks(r)
    /\ UNCHANGED <<epoch, memory, history>>

(* The workflow is not registered, or an ephemeral payload that the replay *)
(* needs is gone.                                                          *)
drive_suspended(r, state) ==
    /\ MayDrive(r)
    /\ Recovered(r).state \in Drivable
    /\ \/ state = "NeedsImplementation" /\ "workflow" \in Missing
       \/ state = "NeedsInput" /\ "payload" \in Missing
    /\ Save(r, Suspended(Recovered(r), state))
    /\ task' = RecoveredTasks(r)
    /\ UNCHANGED <<epoch, memory, history>>

Retrying(r, tasks) == {e \in TasksOf(r) : tasks[e].state = "Retrying"}

(* advance_retries: the backoffs in `due` and the retry windows in `over`  *)
(* have run out.  Tasks are visited in order up to the first whose window  *)
(* is over, which exhausts the run.                                        *)
Advanced(r, due, over) ==
    LET stop  == IF over = {} THEN Len(Program[r]) + 1 ELSE Min({e[2] : e \in over})
        ready == {e \in due : e[2] < stop} \cup {e \in over : e[2] = stop}
    IN  [e \in Effects |-> IF e \in ready THEN In(RecoveredTasks(r)[e], "Ready")
                           ELSE RecoveredTasks(r)[e]]

(* The record that drive works on: running, and with no failure reason. *)
Driven(rec) == [rec EXCEPT !.state = "Running", !.reason = None]

enter_loop(r, fired) ==
    /\ phase' = "drive"
    /\ driven' = r
    /\ loop' = [left |-> DriveBound, wrote |-> FALSE, fired |-> fired]
    /\ UNCHANGED <<dispatched, parked, threads, stack>>

Ongoing(r) == run[r].pc < Len(Program[r])

Cmd(r) == Program[r][run[r].pc + 1]

Sources(r) == IF Cmd(r).op = "select" THEN {Cmd(r).sources[i] : i \in DOMAIN Cmd(r).sources} ELSE {}

(* The current command waits for a deadline. *)
AwaitsTimer(r) ==
    Ongoing(r) /\ (Cmd(r).op = "timer" \/ \E s \in Sources(r) : s.kind = "timer")

(* A persisted wakeup in the future is reached because some deadline is.   *)
(* `fired` tells whether the timers have run out at this drive's now_ms.   *)
drive(r, due, over, fired) ==
    /\ MayDrive(r)
    /\ Recovered(r).state \in Drivable
    /\ due \cup over \subseteq Retrying(r, RecoveredTasks(r))
    /\ column[r] = "later" /\ ~Embedded => due \cup over # {} \/ (fired /\ AwaitsTimer(r))
    /\ task' = Advanced(r, due, over)
    /\ LET rec     == Driven(Recovered(r))
           waiting == Retrying(r, RecoveredTasks(r)) # {}
       IN  CASE over # {} ->
                  /\ Save(r, mark_retry_exhausted(r, rec, Advanced(r, due, over)))
                  /\ UNCHANGED memory
             [] over = {} /\ due # {} ->
                  /\ Save(r, [rec EXCEPT !.wakeup = "now"])
                  /\ enter_loop(r, fired)
             [] over = {} /\ due = {} /\ waiting /\ rec.wakeup # "later" ->
                  /\ Save(r, [rec EXCEPT !.wakeup = "later"])
                  /\ enter_loop(r, fired)
             [] OTHER -> SaveRecovered(r) /\ enter_loop(r, fired)
    /\ UNCHANGED <<epoch, history>>

----------------------------------------------------------------------------
(* One turn of drive's loop: replay the workflow up to its current         *)
(* command, evaluate the command, then save.                               *)

InLoop(r) == phase = "drive" /\ driven = r

Turn(r) == InLoop(r) /\ loop.left > 0

BackToIdle == /\ phase' = "idle"
              /\ driven' = None
              /\ loop' = NoLoop
              /\ UNCHANGED <<stack, threads>>

(* latest_run: follow the continue-as-new links. *)
latest_run(c) ==
    LET hop[n \in 0..MaxHops] ==
          IF n = 0 THEN c
          ELSE IF run[hop[n - 1]].next = None THEN hop[n - 1] ELSE run[hop[n - 1]].next
    IN  hop[MaxHops]

TooManyHops(c) == run[latest_run(c)].next # None

AllDone(r) == \A e \in TasksOf(r) : task[e].state \in {"Absent", "Done"}

(* Mutant: a child that continued as a new run counts as completed. *)
JoinChildren_first(r) ==
    IF \E i \in DOMAIN run[r].children :
         run[run[r].children[i]].state \notin {"Completed", "ContinuedAsNew"}
    THEN "Nondeterminism" ELSE "joined"

(* The first attached child that is not known to have completed decides. *)
JoinChildren(r) ==
    LET kids == run[r].children
        open_ == {i \in DOMAIN kids : TooManyHops(kids[i]) \/ run[latest_run(kids[i])].state # "Completed"}
    IN  CASE open_ = {} -> "joined"
          [] open_ # {} -> IF TooManyHops(kids[Min(open_)]) THEN "Limit" ELSE "Nondeterminism"

(* What one wait source says: ready ("value"), "blocked", or how the run   *)
(* itself ends.                                                            *)
SourceAnswer(r, s) ==
    CASE s.kind = "timer" -> IF loop.fired THEN "value" ELSE "blocked"
      [] s.kind = "signal" -> IF run[r].taken < run[r].sent THEN "value" ELSE "blocked"
      [] s.kind = "activity" -> IF task[<<r, s.task>>].state = "Done" THEN "value" ELSE "blocked"
      [] s.kind = "child" ->
           LET state == run[latest_run(s.run)].state
           IN  CASE TooManyHops(s.run) -> "Limit"
                 [] ~TooManyHops(s.run) /\ state = "Completed" -> "value"
                 [] ~TooManyHops(s.run) /\ state \in {"Failed", "Nondeterminism", "Cancelled"} -> state
                 [] OTHER -> "blocked"

(* Mutant: a derived id is free again once its run has ended. *)
Vacant_settled(q) == run[q].state \in Settled

(* The derived id of a child or successor is free. *)
Vacant(q) == run[q].state = "Absent"

Unattached(r, s) ==
    \/ s.kind = "child" /\ \A i \in DOMAIN run[r].children : run[r].children[i] # s.run
    \/ s.kind = "activity" /\ (<<r, s.task>> \notin Effects \/ task[<<r, s.task>>].state = "Absent")

(* The first source, in order, that does not block. *)
Decisive(r) == {i \in DOMAIN Cmd(r).sources : SourceAnswer(r, Cmd(r).sources[i]) # "blocked"}

Chosen(r) == Cmd(r).sources[Min(Decisive(r))]

(* evaluate: the answer to the current command. *)
evaluate(r) ==
    LET cmd == Cmd(r)
    IN  CASE cmd.op = "activity" ->
               IF cmd.detached \/ task[<<r, run[r].pc + 1>>].state = "Done" THEN "value" ELSE "blocked"
          [] cmd.op \in {"timer", "signal"} -> SourceAnswer(r, [kind |-> cmd.op])
          [] cmd.op = "child" -> IF Vacant(cmd.run) THEN "value" ELSE "Invalid"
          [] cmd.op = "select" ->
               CASE \E s \in Sources(r) : Unattached(r, s) -> "Invalid"
                 [] ~(\E s \in Sources(r) : Unattached(r, s)) /\ Decisive(r) = {} -> "blocked"
                 [] OTHER -> SourceAnswer(r, Chosen(r))
          [] cmd.op = "continue" ->
               CASE ~AllDone(r) -> "Invalid"
                 [] AllDone(r) /\ JoinChildren(r) # "joined" -> JoinChildren(r)
                 [] OTHER -> IF Vacant(cmd.run) THEN "ContinuedAsNew" ELSE "Invalid"

(* Evaluating an activity command creates its task. *)
Evaluated(r) ==
    LET e == <<r, run[r].pc + 1>>
    IN  IF Cmd(r).op = "activity" /\ task[e].state = "Absent"
        THEN [task EXCEPT ![e] = [NoTask EXCEPT !.state = "Ready", !.owner = epoch]]
        ELSE task

(* evaluate's wakeup, and merge_retry_wakeup after it. *)
WaitWakeup(r) ==
    IF (AwaitsTimer(r) /\ ~loop.fired) \/ Retrying(r, task) # {} THEN "later" ELSE None

(* The record once the command is in the history and evaluated. *)
Pending(r) == [Driven(run[r]) EXCEPT !.issued = 1, !.wakeup = WaitWakeup(r)]

HistoryFull(r) == run[r].issued = 0 /\ run[r].pc >= MaxHistory

(* The command that follows is evaluated. *)
Evaluates(r, answer) == Turn(r) /\ Ongoing(r) /\ ~HistoryFull(r) /\ evaluate(r) = answer

(* A value: it is recorded, with the child the command created, and the    *)
(* loop goes on.                                                           *)
drive_value(r) ==
    /\ Evaluates(r, "value")
    /\ LET cmd    == Cmd(r)
           signal_ == cmd.op = "signal" \/ (cmd.op = "select" /\ Chosen(r).kind = "signal")
           rec    == [Driven(run[r]) EXCEPT
                        !.pc = run[r].pc + 1, !.issued = 0, !.wakeup = "now",
                        !.taken = IF signal_ THEN run[r].taken + 1 ELSE run[r].taken,
                        !.children = IF cmd.op = "child" THEN Append(run[r].children, cmd.run)
                                     ELSE run[r].children]
       IN  Commit(IF cmd.op = "child"
                  THEN [q \in {r, cmd.run} |-> IF q = r THEN rec ELSE new_run(r)]
                  ELSE Write(r, rec), {})
    /\ task' = Evaluated(r)
    /\ loop' = [left |-> loop.left - 1, wrote |-> loop.wrote \/ run[r].issued = 0, fired |-> loop.fired]
    /\ UNCHANGED <<epoch, dispatched, parked, threads, phase, driven, stack, history>>

(* The loop's bound: come back later. *)
drive_progressed(r) ==
    /\ InLoop(r)
    /\ loop.left = 0
    /\ Save(r, [run[r] EXCEPT !.wakeup = "now"])
    /\ BackToIdle
    /\ UNCHANGED <<task, epoch, dispatched, parked, history>>

(* The workflow returns. *)
drive_return(r) ==
    /\ Turn(r)
    /\ ~Ongoing(r)
    /\ AllDone(r)
    /\ JoinChildren(r) \in {"joined", "Nondeterminism"}
    /\ Save(r, Suspended(Driven(run[r]),
                         IF JoinChildren(r) = "joined" THEN "Completed" ELSE "Nondeterminism"))
    /\ BackToIdle
    /\ UNCHANGED <<task, epoch, dispatched, parked, history>>

Propagate(r, state, reason) ==
    Save(r, [Pending(r) EXCEPT !.state = state, !.reason = reason,
                               !.wakeup = IF Retrying(r, task) # {} THEN "later" ELSE None])

(* A failed child, or a child that is unfinished at continue-as-new, fails *)
(* the run as well.                                                        *)
drive_propagate(r) ==
    /\ Turn(r) /\ Ongoing(r)
    /\ \/ /\ Cmd(r).op = "select"
          /\ \E child \in Runs :
               /\ run[child].state \in {"Failed", "Nondeterminism"}
               /\ Evaluates(r, run[child].state)
               /\ child = latest_run(Chosen(r).run)
               /\ Propagate(r, run[child].state, run[child].reason)
       \/ /\ Cmd(r).op = "continue"
          /\ Evaluates(r, "Nondeterminism")
          /\ Propagate(r, "Nondeterminism", None)
    /\ BackToIdle
    /\ UNCHANGED <<task, epoch, dispatched, parked, history>>

(* A cancelled child cancels the run. *)
drive_cancel(r) ==
    /\ Evaluates(r, "Cancelled")
    /\ cancel_request(r)

drive_continue(r) ==
    /\ Evaluates(r, "ContinuedAsNew")
    /\ Cmd(r).op = "continue"
    /\ LET s == Cmd(r).run
       IN  Commit([q \in {r, s} |-> IF q = s THEN new_run(run[r].parent)
                                    ELSE [Pending(r) EXCEPT !.state = "ContinuedAsNew", !.next = s]],
                  {})
    /\ BackToIdle
    /\ UNCHANGED <<task, epoch, dispatched, parked, history>>

(* drive returns an error: nothing of this turn is saved, and the daemon   *)
(* rejects the run.                                                        *)
drive_error(r, reason) ==
    /\ IF Embedded THEN NoSave ELSE Save(r, Rejected(run[r], reason))
    /\ BackToIdle
    /\ UNCHANGED <<task, epoch, dispatched, parked, history>>

drive_refused(r) ==
    \/ Turn(r) /\ ~Ongoing(r) /\ ~AllDone(r) /\ drive_error(r, "InvalidCommand")
    \/ /\ Turn(r) /\ ~Ongoing(r) /\ AllDone(r) /\ JoinChildren(r) = "Limit"
       /\ drive_error(r, "ResourceLimit")
    \/ Turn(r) /\ Ongoing(r) /\ HistoryFull(r) /\ drive_error(r, "ResourceLimit")
    \/ Evaluates(r, "Invalid") /\ drive_error(r, "InvalidCommand")
    \/ Evaluates(r, "Limit") /\ drive_error(r, "ResourceLimit")

(* The workflow code misbehaves: its commands differ from the history, it  *)
(* panics, or it blocks on nothing.  In the last case the attempts that no *)
(* executor has started yet give their capacity back.                      *)
Unstarted(r) == {d \in dispatched : /\ d[1][1] = r
                                    /\ task[d[1]].attempt = d[2]
                                    /\ task[d[1]].state = "InFlight"}

drive_fault(r, fault) ==
    /\ Turn(r)
    /\ fault \in Faults
    /\ \/ /\ fault = "nondeterminism"
          /\ Save(r, Suspended(Driven(run[r]), "Nondeterminism"))
          /\ UNCHANGED <<dispatched, parked>>
       \/ /\ fault = "panic"
          /\ Save(r, Rejected(run[r], "InvalidCommand"))
          /\ UNCHANGED <<dispatched, parked>>
       \/ /\ fault = "malformed"
          /\ Commit(Write(r, Rejected(run[r], "InvalidCommand")),
                    IF Unstarted(r) = {} THEN {} ELSE parked)
          /\ dispatched' = dispatched \ Unstarted(r)
          /\ parked' = IF Unstarted(r) = {} THEN parked ELSE {}
    /\ BackToIdle
    /\ UNCHANGED <<task, epoch, history>>

----------------------------------------------------------------------------
(* A turn whose command blocks: dispatch a ready task, or wait.            *)

ReadyTasks(r) == {e \in TasksOf(r) : Evaluated(r)[e].state = "Ready"}

(* Tasks are looked at in the order in which they were created. *)
FirstReady(r, e) == e \in ReadyTasks(r) /\ \A f \in ReadyTasks(r) : e[2] <= f[2]

Candidate(e) == infer_prior_execution(Evaluated(e[1])[e])

Full == Cardinality(dispatched) >= DispatchLimit

Dispatches(r) == Evaluates(r, "blocked") /\ ReadyTasks(r) # {} /\ ~Full

drive_wait(r) ==
    /\ Evaluates(r, "blocked")
    /\ ReadyTasks(r) = {}
    /\ IF loop.wrote \/ run[r].issued = 0 \/ WaitWakeup(r) # run[r].wakeup
       THEN Save(r, Pending(r)) ELSE NoSave
    /\ BackToIdle
    /\ UNCHANGED <<task, epoch, dispatched, parked, history>>

(* No capacity: the run waits for a release_dispatch. *)
drive_park(r) ==
    /\ Evaluates(r, "blocked")
    /\ ReadyTasks(r) # {}
    /\ Full
    /\ \/ /\ Cardinality(parked) < MaxParked \/ r \in parked
          /\ parked' = parked \cup {r}
          /\ Save(r, Pending(r))
          /\ task' = Evaluated(r)
          /\ BackToIdle
          /\ UNCHANGED <<epoch, dispatched, history>>
       \/ /\ Cardinality(parked) >= MaxParked /\ r \notin parked
          /\ drive_error(r, "ResourceLimit")

drive_unimplemented(r) ==
    /\ Dispatches(r)
    /\ "activity" \in Missing
    /\ Save(r, Suspended(Pending(r), "NeedsImplementation"))
    /\ task' = Evaluated(r)
    /\ BackToIdle
    /\ UNCHANGED <<epoch, dispatched, parked, history>>

(* The task has used its attempts, or its retry window has passed. *)
drive_exhausted(r, e) ==
    /\ Dispatches(r)
    /\ FirstReady(r, e)
    /\ Candidate(e).exec > 0
    /\ LET tasks == [Evaluated(r) EXCEPT ![e] = Candidate(e)]
       IN  /\ task' = tasks
           /\ Save(r, mark_retry_exhausted(r, Pending(r), tasks))
    /\ BackToIdle
    /\ UNCHANGED <<epoch, dispatched, parked, history>>

(* Dispatch the first ready task.  The daemon goes on to prepare the       *)
(* attempt; an embedding host holds it from here on.                       *)
drive_dispatch(r, e) ==
    LET n == Candidate(e).attempt + 1
    IN  /\ Dispatches(r)
        /\ FirstReady(r, e)
        /\ Candidate(e).exec < MaxAttempts
        /\ n <= MaxDispatch
        /\ task' = [Evaluated(r) EXCEPT
                      ![e] = [Candidate(e) EXCEPT !.state = "InFlight", !.attempt = n, !.owner = epoch]]
        /\ Save(r, [Pending(r) EXCEPT
                      !.wakeup = IF ReadyTasks(r) # {e} THEN "now" ELSE WaitWakeup(r)])
        /\ dispatched' = dispatched \cup {<<e, n>>}
        /\ maybe' = [maybe EXCEPT ![e] = maybe[e] \cup {n}]
        /\ phase' = IF Embedded THEN "idle" ELSE "prepare"
        /\ driven' = IF Embedded THEN None ELSE e
        /\ loop' = NoLoop
        /\ UNCHANGED <<epoch, parked, threads, stack, invoked>>

(* Attempt numbers have run out. *)
drive_spent(r, e) ==
    /\ Dispatches(r)
    /\ FirstReady(r, e)
    /\ Candidate(e).exec < MaxAttempts
    /\ Candidate(e).attempt >= MaxDispatch
    /\ drive_error(r, "ResourceLimit")

----------------------------------------------------------------------------
(* The host's calls about an attempt.                                      *)

(* The daemon prepares what it has just dispatched; an embedding host does *)
(* so for any attempt it was given.                                        *)
Prepares(e, n) ==
    \/ ~Embedded /\ phase = "prepare" /\ driven = e /\ n = task[e].attempt
    \/ Embedded /\ phase = "idle" /\ n \in 1..task[e].attempt

(* The result of an attempt arrives: in the daemon once, from a thread of  *)
(* the process; from an embedding host at any time, early, late or twice.  *)
Arrives(e, n) ==
    /\ phase = "idle"
    /\ IF Embedded THEN n \in 1..task[e].attempt ELSE <<e, n>> \in threads

prepare_registered(e, n) ==
    /\ Prepares(e, n)
    /\ owned_attempt(e, n)
    /\ task[e].state = "InFlight"
    /\ task' = [task EXCEPT ![e] = In(start_execution(task[e]), "Invoking")]
    /\ invoked' = [invoked EXCEPT ![e] = invoked[e] + 1]
    /\ Save(e[1], run[e[1]])
    /\ threads' = threads \cup {<<e, n>>}
    /\ phase' = "idle"
    /\ driven' = None
    /\ UNCHANGED <<epoch, dispatched, parked, loop, stack, maybe>>

(* The attempt goes back without having run, and the run is suspended or   *)
(* failed with record rec.                                                 *)
Refuse(e, n, rec) ==
    /\ task[e].state = "InFlight"
    /\ task' = [task EXCEPT ![e] = Unexecuted(task[e])]
    /\ Commit(Write(e[1], rec), Woken(e, n))
    /\ release_dispatch(e, n)
    /\ maybe' = [maybe EXCEPT ![e] = maybe[e] \ {n}]
    /\ BackToIdle
    /\ UNCHANGED <<epoch, invoked>>

prepare_unresolved(e, n) ==
    /\ Prepares(e, n)
    /\ owned_attempt(e, n)
    /\ "payload" \in Missing
    /\ Refuse(e, n, Suspended(run[e[1]], "NeedsInput"))

(* The errors that make the host call reject_dispatch. *)
RejectReasons ==
    {reason \in Reasons : \/ reason = "MissingActivityImplementation" /\ "activity" \in Missing
                          \/ reason = "PayloadUnavailable" /\ "payload" \in Missing
                          \/ reason = "ResourceLimit" /\ "room" \in Missing}

reject_dispatch(e, n, reason) ==
    /\ Prepares(e, n)
    /\ reason \in RejectReasons
    /\ ensure_active(e[1])
    /\ owned_task(e, n)
    /\ Refuse(e, n, Rejected(run[e[1]], reason))

(* Apply a result to the task and the run, provided the attempt is the     *)
(* current one; its capacity is released in any case.                      *)
Settle(e, n, t, rec) ==
    /\ IF owned_attempt(e, n)
       THEN /\ task' = [task EXCEPT ![e] = t]
            /\ Commit(Write(e[1], rec), Woken(e, n))
       ELSE /\ UNCHANGED task
            /\ Commit(<<>>, Woken(e, n))
    /\ release_dispatch(e, n)
    /\ threads' = threads \ {<<e, n>>}
    /\ UNCHANGED <<epoch, phase, driven, loop, stack, history>>

complete(e, n) ==
    LET t     == In(mark_execution(task[e]), "Done")
        rec   == run[e[1]]
        ended == ~has_unresolved_effect(e[1], [task EXCEPT ![e] = t])
        after == CASE rec.state = "OutcomeUnknown" /\ ended /\ rec.reason = "RetryExhausted" ->
                        [rec EXCEPT !.state = "Failed", !.wakeup = None]
                   [] rec.state = "OutcomeUnknown" /\ ended /\ rec.reason # "RetryExhausted" ->
                        [rec EXCEPT !.state = "Running", !.wakeup = "now"]
                   [] rec.state = "OutcomeUnknown" /\ ~ended -> [rec EXCEPT !.wakeup = None]
                   [] OTHER -> [rec EXCEPT !.wakeup = "now"]
    IN  /\ Arrives(e, n)
        /\ Settle(e, n, t, after)

fail(e, n, failure) ==
    LET t         == mark_execution(task[e])
        rec       == run[e[1]]
        retryable == ~Unsafe(e) /\ failure = "Retryable"
        spent     == t.exec >= MaxAttempts
    IN  /\ Arrives(e, n)
        /\ \/ /\ retryable /\ spent
              /\ Settle(e, n, In(t, "Ready"),
                        mark_retry_exhausted(e[1], rec, [task EXCEPT ![e] = In(t, "Ready")]))
           \/ /\ retryable /\ ~spent
              /\ Settle(e, n, In(t, "Retrying"),
                        [rec EXCEPT !.wakeup = IF rec.wakeup = "now" THEN "now" ELSE "later"])
           \/ /\ ~retryable
              /\ Settle(e, n, In(t, "Uncertain"), Suspended(rec, "OutcomeUnknown"))

----------------------------------------------------------------------------
(* reconcile: an operator settles an uncertain effect, naming the attempt  *)
(* that was looked into.  `observed` is the effect's result; without it    *)
(* the operator has proof that the attempt had no effect.                  *)

MayReconcile(r) == phase = "idle" /\ run[r].state = "OutcomeUnknown" /\ run[r].audit < MaxAudit

(* Mutant: any attempt of the effect will do. *)
Expected_any(e, n) == TRUE

(* expected_attempt and expected_owner_epoch. *)
Expected(e, n) == task[e].attempt = n

reconcile(e, n, observed) ==
    LET r     == e[1]
        tasks == [RecoveredTasks(r) EXCEPT
                    ![e] = In(RecoveredTask(e), IF observed THEN "Done" ELSE "Ready")]
        state == CASE has_unresolved_effect(r, tasks) -> "OutcomeUnknown"
                   [] ~has_unresolved_effect(r, tasks) /\ run[r].reason = "RetryExhausted" -> "Failed"
                   [] OTHER -> "Running"
    IN  /\ MayReconcile(r)
        /\ RecoveredTask(e).state = "Uncertain"
        /\ Expected(e, n)
        /\ task' = tasks
        /\ Save(r, [run[r] EXCEPT !.state = state, !.audit = run[r].audit + 1,
                                  !.wakeup = IF state = "Failed" THEN None ELSE "now"])
        /\ maybe' = [maybe EXCEPT ![e] = IF observed THEN maybe[e] ELSE maybe[e] \ {n}]
        /\ UNCHANGED <<epoch, memory, invoked>>

(* A reconciliation that is refused has recovered the run all the same. *)
reconcile_refused(r) ==
    /\ MayReconcile(r)
    /\ HasInterrupted(r)
    /\ Save(r, Recovered(r))
    /\ task' = RecoveredTasks(r)
    /\ UNCHANGED <<epoch, memory, history>>

----------------------------------------------------------------------------
(* The host thread takes one step of whatever it is doing. *)
DriveStep(r) ==
    \/ drive_cancelled(r)
    \/ drive_stopped(r)
    \/ \E state \in {"NeedsInput", "NeedsImplementation"} : drive_suspended(r, state)
    \/ \E due \in SUBSET TasksOf(r) : \E over \in SUBSET TasksOf(r), fired \in BOOLEAN :
         drive(r, due, over, fired)

TurnStep(r) ==
    \/ drive_value(r)
    \/ drive_progressed(r)
    \/ drive_return(r)
    \/ drive_propagate(r)
    \/ drive_cancel(r)
    \/ drive_continue(r)
    \/ drive_refused(r)
    \/ \E fault \in {"nondeterminism", "panic", "malformed"} : drive_fault(r, fault)
    \/ drive_wait(r)
    \/ drive_park(r)
    \/ drive_unimplemented(r)
    \/ \E e \in TasksOf(r) : drive_exhausted(r, e) \/ drive_dispatch(r, e) \/ drive_spent(r, e)

PrepareStep(e, n) ==
    \/ prepare_registered(e, n)
    \/ prepare_unresolved(e, n)
    \/ \E reason \in Reasons : reject_dispatch(e, n, reason)

ResultStep(e, n) ==
    \/ complete(e, n)
    \/ \E failure \in {"Retryable", "Permanent"} : fail(e, n, failure)

Next ==
    \/ open
    \/ \E r \in Runs : start(r) \/ signal(r) \/ resume(r) \/ cancel(r) \/ reconcile_refused(r)
    \/ \E r \in Runs : DriveStep(r) \/ TurnStep(r)
    \/ cancel_descend
    \/ cancel_finish
    \/ \E e \in Effects : \E n \in 1..task[e].attempt :
         \/ PrepareStep(e, n)
         \/ ResultStep(e, n)
         \/ \E observed \in BOOLEAN : reconcile(e, n, observed)

Spec == Init /\ [][Next]_vars

(* What the daemon's host thread guarantees: a call that has begun is      *)
(* carried on; every pass of its loop drives the due runs (32 of them at   *)
(* most); and a handler that was invoked returns.                          *)
Fairness ==
    /\ \A r \in Runs : SF_vars(DriveStep(r)) /\ WF_vars(TurnStep(r))
    /\ WF_vars(cancel_descend \/ cancel_finish)
    /\ \A e \in Effects : /\ WF_vars(\E n \in 1..task[e].attempt : PrepareStep(e, n))
                          /\ SF_vars(\E n \in 1..task[e].attempt : ResultStep(e, n))

FairSpec == Spec /\ Fairness

----------------------------------------------------------------------------
(* Properties.                                                             *)

(* An effect that is not safe to repeat is never handed out again while an *)
(* earlier attempt of it may have run: across restarts, failures, late     *)
(* results and stale reconciliations at most one attempt may exist.        *)
UnsafeOnce ==
    \A e \in Effects : Unsafe(e) => \A m, n \in maybe[e] : m = n

Life(e) == INSTANCE Effect WITH state <- task[e].state, attempt <- task[e].attempt,
                                maybe <- maybe[e], Repeatable <- ~Unsafe(e)

(* Refinement: through recovery, retries, refusals, results of any age and *)
(* reconciliations, every activity lives the life that module Effect       *)
(* allows, whatever else the engine does in the same step.                 *)
EffectsFollowProtocol ==
    /\ \A e \in Effects : Life(e)!Init
    /\ [][\A e \in Effects : [Life(e)!Next]_(Life(e)!vars)]_vars

(* The recorded result of an activity is never replaced: not by a late or  *)
(* repeated result, not by recovery, not by a reconciliation (owned_task,  *)
(* recover and reconcile_inner).                                           *)
DoneIsFinal ==
    [][\A e \in Effects : task[e].state = "Done" =>
         task'[e].state = "Done" /\ task'[e].attempt = task[e].attempt]_vars

(* From the request on, a cancellation fences every task of the run and    *)
(* cannot be undone ("completions are fenced as soon as requested").       *)
FencedByCancel ==
    [][\A r \in Runs : run[r].state \in {"CancelRequested", "Cancelled"} =>
         /\ run'[r].state \in {"CancelRequested", "Cancelled"}
         /\ \A e \in TasksOf(r) : task'[e] = task[e]]_vars

(* A run reports OutcomeUnknown only while one of its effects really is    *)
(* unresolved, so that a reconciliation or a result can still release it.  *)
UnknownHasCause ==
    \A r \in Runs : run[r].state = "OutcomeUnknown" => has_unresolved_effect(r, task)

(* Under the daemon, an uncertain effect is always reported: its run is    *)
(* OutcomeUnknown, the only state that reconcile accepts, and neither      *)
(* resume nor cancel nor a result of another task moves it on.             *)
UncertainIsReported ==
    \A e \in Effects : task[e].state = "Uncertain" => run[e[1]].state = "OutcomeUnknown"

(* No activity reaches its handler more often than max_attempts allows,    *)
(* whatever crashes and refusals come in between.                          *)
RetryBudget ==
    \A e \in Effects : invoked[e] <= MaxAttempts

(* Under the daemon the slots in use are, between calls, exactly the       *)
(* handlers executing: capacity is neither given back while a handler of a *)
(* cancelled or failed run still executes, nor lost with a refused         *)
(* dispatch; and there are never more handlers than dispatch_limit.        *)
SlotsAreHandlers ==
    /\ Cardinality(threads) <= DispatchLimit
    /\ phase = "idle" => dispatched = threads

(* What a drive of r could do now without waiting for a deadline.  A chain *)
(* of successors beyond latest_run's limit only lets the drive fail.        *)
CanProgress(r) ==
    \/ HasInterrupted(r)
    \/ \E e \in TasksOf(r) : task[e].state = "Ready"
    \/ ~Ongoing(r)
    \/ Ongoing(r) /\ (run[r].issued = 0 \/ evaluate(r) \notin {"blocked", "Limit"})

(* No lost wakeup: between calls of the host, a running run that could     *)
(* go on is scheduled, or parked behind an attempt whose end will wake it. *)
(* Results, signals, ended children, recovery and released capacity all    *)
(* arrive through different paths.  (An embedding host that prepares an    *)
(* attempt late writes the record's own wakeup over the row that an ended  *)
(* child has made due; the end of that attempt wakes the run.)             *)
NoLostWakeup ==
    \A r \in Runs :
      phase = "idle" /\ run[r].state = "Running" /\ CanProgress(r) =>
        \/ column[r] # None
        \/ r \in parked /\ dispatched # {}
        \/ Embedded /\ \E e \in TasksOf(r) : owned_task(e, task[e].attempt)

(* A cancelled run leaves no descendant active, unless an operator settles *)
(* an unknown outcome of the descendant afterwards, or an embedding host   *)
(* prepares an attempt of it late, without its payload.                    *)
CancelCoversTree ==
    \A r \in Runs : run[r].state = "Cancelled" =>
      \A c \in {run[r].children[i] : i \in DOMAIN run[r].children} \cup ({run[r].next} \ {None}) :
        run[c].state \in Settled \/ run[c].audit > 0

(* A run that completed or continued has joined everything: its activities *)
(* are done, and every child has completed, or continued as a run that     *)
(* has.                                                                    *)
CompletedJoined ==
    \A r \in Runs : run[r].state \in {"Completed", "ContinuedAsNew"} =>
      /\ \A e \in TasksOf(r) : task[e].state \in {"Absent", "Done"}
      /\ \A q \in Runs : run[q].parent = r => run[q].state = "Completed" \/ run[q].next # None

(* How a run ended is final: no drive, late result, reconciliation, resume *)
(* or new run that derives the same id brings it back.  A run that used up *)
(* its retries may still learn that another effect is uncertain, and a run *)
(* that continued may be cancelled with its successors.  (An embedding     *)
(* host that prepares an attempt late, without its payload, brings a run   *)
(* that used up its retries back to NeedsInput.)                           *)
EndIsFinal ==
    [][\A r \in Runs :
         /\ run[r].state \in Ended /\ ~Exhausted(run[r]) => run'[r].state = run[r].state
         /\ Exhausted(run[r]) => run'[r].state \in {"Failed", "OutcomeUnknown"}
         /\ run[r].state = "ContinuedAsNew" =>
              run'[r].state \in {"ContinuedAsNew", "CancelRequested"}]_vars

(* A cancellation that was requested is carried out, even if the process   *)
(* stops in the middle of the walk.                                        *)
CancelEnds ==
    \A r \in Runs : run[r].state = "CancelRequested" ~> run[r].state = "Cancelled"

(* A run parked for capacity gets its turn. *)
ParkedIsWoken ==
    \A r \in Runs : r \in parked ~> r \notin parked

============================================================================
