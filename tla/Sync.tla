-------------------------------- MODULE Sync --------------------------------
(***************************************************************************)
(* Message synchronisation (appcall-sync): the jobs of repository.rs, the  *)
(* processing of one page per claim of service.rs, and the operator's      *)
(* controls.                                                               *)
(*                                                                         *)
(* The jobs are those of one connection and one operation: claim orders    *)
(* only such jobs among each other.  Every method of Repository is one     *)
(* transaction that locks the rows it changes, so it is one step; a worker *)
(* takes other steps between two of them, and may stop between any two.    *)
(* leased_until is compared for equality with the value that the claim     *)
(* returned.  A worker holds at most one claim, so the pair (worker_id,    *)
(* leased_until) is the worker that made the claim.                        *)
(*                                                                         *)
(* The connection is Binding: other parts of the system change it at any   *)
(* time.                                                                   *)
(***************************************************************************)
EXTENDS Binding, Sequences, FiniteSets

CONSTANTS
    Jobs,           \* job ids, in the order of (created_at, id): 1..n
    Workers,        \* the Worker instances of all processes
    Cursors,        \* page cursors
    Start,          \* "": the first page, and the cursor after the last
    Pages,          \* what the provider may return, by cursor
    MaxAttempts,    \* max_attempts of Config
    MaxRecoveries,  \* MAX_RECOVERIES_PER_CLAIM (32)
    MaxControls,    \* bound: operator's controls
    None

ASSUME SyncAssumption ==
    /\ Jobs \subseteq Nat \ {0}
    /\ IsFiniteSet(Jobs)
    /\ Start \in Cursors
    /\ Pages \subseteq [cursor : Cursors, next : Cursors, records : 0..1]
    /\ None \notin Workers
    /\ {MaxAttempts, MaxRecoveries, MaxGeneration, MaxSecret} \subseteq Nat \ {0}
    /\ MaxControls \in Nat

VARIABLES
    job,            \* sync_jobs
    future,         \* the jobs whose run_after or leased_until lies ahead
    checkpoint,     \* sync_job_checkpoints
    visits,         \* sync_job_cursor_visits
    messages,       \* synced_messages, by the page they are on
    usage,          \* usage_events of kind synced_record
    task,           \* in memory: what each worker is doing
    controls,       \* number of operator's controls
    path            \* history: pages committed since the job's last restart

rows == <<job, future, checkpoint, visits, path>>
written == <<messages, usage>>
vars == <<connection, rows, written, task, controls>>

Live == {"pending", "running"}

(* last_error, as far as anyone looks at it. *)
Errors == {"none", "stale", "operator"}

Row == [status : Live \cup {"absent", "succeeded", "failed", "cancelled"},
        attempts : 0..MaxAttempts, worker : Workers \cup {None},
        generation : 0..MaxGeneration, error : Errors]

Checkpoint == [cursor : Cursors, generation : 0..MaxGeneration]

Phases == {"idle", "cursor", "resolve", "send", "commit", "fail", "stale"}

Task == [at : Phases, job : Jobs \cup {0}, attempts : 0..MaxAttempts, generation : 0..MaxGeneration,
         cursor : Cursors, next : Cursors, records : 0..1,         \* the page
         secret : 0..MaxSecret, account : 0..MaxGeneration,         \* its credentials
         fate : {"pending", "failed"}]                               \* of fail_with_error

Page == [cursor : Cursors, next : Cursors, records : 0..1, account : 0..MaxGeneration]

TypeOK ==
    /\ status \in Statuses
    /\ secret \in 0..MaxSecret
    /\ generation \in 1..MaxGeneration
    /\ account \in 1..MaxGeneration
    /\ job \in [Jobs -> Row]
    /\ future \subseteq Jobs
    /\ checkpoint \in [Jobs -> Checkpoint]
    /\ visits \in [Jobs -> SUBSET Cursors]
    /\ messages \in [Cursors -> [generation : 0..MaxGeneration, account : 0..MaxGeneration]]
    /\ usage \subseteq Jobs \X Cursors
    /\ task \in [Workers -> Task]
    /\ controls \in 0..MaxControls
    /\ path \in [Jobs -> Seq(Page)]

(* No checkpoint row. *)
NoCheckpoint == [cursor |-> Start, generation |-> 0]

(* A worker that has no page. *)
NoPage(phase, j, attempts, gen, fate) ==
    [at |-> phase, job |-> j, attempts |-> attempts, generation |-> gen, cursor |-> Start, next |-> Start,
     records |-> 0, secret |-> 0, account |-> 0, fate |-> fate]

Idle == NoPage("idle", 0, 0, 0, "pending")

Init ==
    /\ BindingInit /\ secret = 1
    /\ job = [j \in Jobs |-> [status |-> "absent", attempts |-> 0, worker |-> None,
                              generation |-> 0, error |-> "none"]]
    /\ future = {}
    /\ checkpoint = [j \in Jobs |-> NoCheckpoint]
    /\ visits = [j \in Jobs |-> {}]
    /\ messages = [c \in Cursors |-> [generation |-> 0, account |-> 0]]
    /\ usage = {}
    /\ task = [w \in Workers |-> Idle]
    /\ controls = 0
    /\ path = [j \in Jobs |-> <<>>]

----------------------------------------------------------------------------
(* Scheduling.                                                             *)

Cancelled(r, error) ==
    [status |-> "cancelled", attempts |-> r.attempts, worker |-> None, generation |-> r.generation, error |-> error]

(* The job's row with another status, number of attempts and worker. *)
UpdatedRow(r, st, attempts, w) ==
    [status |-> st, attempts |-> attempts, worker |-> w, generation |-> r.generation, error |-> r.error]

(* Delete the checkpoint and the cursor visits of the jobs in S. *)
Forget(S) ==
    /\ checkpoint' = [j \in Jobs |-> IF j \in S THEN NoCheckpoint ELSE checkpoint[j]]
    /\ visits' = [j \in Jobs |-> IF j \in S THEN {} ELSE visits[j]]
    /\ path' = [j \in Jobs |-> IF j \in S THEN <<>> ELSE path[j]]

(* enqueue, of a dedup key that has no job; with one it changes nothing. *)
Enqueue(j) ==
    /\ job[j].status = "absent"
    /\ job' = [job EXCEPT ![j] = [status |-> "pending", attempts |-> 0, worker |-> None,
                                  generation |-> generation, error |-> "none"]]
    /\ UNCHANGED <<connection, future, checkpoint, visits, path, written, task, controls>>

StaleJobs == {j \in Jobs : job[j].status \in Live /\ job[j].generation # generation}

(* cancel_stale_jobs: the first of them. *)
Swept == {j \in StaleJobs : Cardinality({k \in StaleJobs : k < j}) < MaxRecoveries}

(* The jobs that claim looks at. *)
Lane == {j \in Jobs : job[j].status \in Live /\ job[j].generation = generation}

Earlier(j) == {k \in Lane : k < j}

Exhausted(j) == job[j].status = "running" /\ j \notin future /\ job[j].attempts + 1 >= MaxAttempts

(* The abandoned jobs without a further attempt at the head of the lane:   *)
(* one of them fails in each round of the loop.                            *)
Spent == {j \in Lane : /\ \A k \in Earlier(j) \cup {j} : Exhausted(k)
                       /\ Cardinality(Earlier(j)) < MaxRecoveries}

(* The job of the last round. *)
Claimable(j) ==
    /\ j \in Lane /\ j \notin future
    /\ ~Exhausted(j)
    /\ Earlier(j) = Spent
    /\ Cardinality(Spent) < MaxRecoveries

(* Mutant: it costs nothing. *)
ClaimedAttempts_free(r) == r.attempts

(* An abandoned lease costs an attempt. *)
ClaimedAttempts(r) == IF r.status = "running" THEN r.attempts + 1 ELSE r.attempts

(* claim_with_policy, which returns the job h, or None. *)
ClaimWithPolicy(w) ==
    /\ task[w].at = "idle"
    /\ \E h \in Jobs \cup {0} :
        /\ IF h = 0 THEN \A j \in Jobs : ~Claimable(j) ELSE Claimable(h)
        /\ job' = [j \in Jobs |->
              IF j \in Swept THEN Cancelled(job[j], "stale")
              ELSE IF j \in Spent THEN UpdatedRow(job[j], "failed", MaxAttempts, None)
              ELSE IF j = h THEN UpdatedRow(job[j], "running", ClaimedAttempts(job[j]), w)
              ELSE job[j]]
        /\ future' = (future \ Swept) \cup ({h} \ {0})
        /\ Forget(Swept)
        /\ task' = IF h = 0 THEN task
                   ELSE [task EXCEPT ![w] = NoPage("cursor", h, ClaimedAttempts(job[h]), job[h].generation,
                                                   "pending")]
    /\ UNCHANGED <<connection, written, controls>>

(* run_after or leased_until is reached. *)
Elapse(j) ==
    /\ j \in future
    /\ future' = future \ {j}
    /\ UNCHANGED <<connection, job, checkpoint, visits, path, written, task, controls>>

----------------------------------------------------------------------------
(* Service.process: one page of the claimed job.                           *)

At(w, phase) == task[w].at = phase

Go(w, t) == task' = [task EXCEPT ![w] = t]

(* Mutant: the lease is not looked at. *)
Locked_generation(w) == job[task[w].job].generation = generation

(* lock *)
Locked(w) ==
    LET r == job[task[w].job] IN
    /\ r.status = "running"
    /\ r.worker = w
    /\ r.generation = generation
    /\ task[w].job \in future

(* The place where the error of a failed lock leads. *)
Unlocked(w) == IF job[task[w].job].generation # generation THEN "stale" ELSE "idle"

(* The checkpoint is none, or of the claim's generation. *)
Known(w) == checkpoint[task[w].job].generation \in {0, task[w].generation}

(* The task after the error: nothing, or cancel_stale. *)
Ended(w, phase) == IF phase = "idle" THEN Idle ELSE NoPage(phase, task[w].job, 0, 0, "pending")

(* Repository.cursor *)
ReadCursor(w) ==
    /\ At(w, "cursor")
    /\ IF Locked(w) /\ Known(w)
       THEN Go(w, [task[w] EXCEPT !.at = "resolve", !.cursor = checkpoint[task[w].job].cursor])
       ELSE Go(w, Ended(w, IF Locked(w) THEN "stale" ELSE Unlocked(w)))
    /\ UNCHANGED <<connection, rows, written, controls>>

(* fetch, until it has the credentials (Credentials.resolve).  It looks    *)
(* at the generation first; the connection may be another one by the time  *)
(* that its credentials are resolved.                                      *)
Resolve(w) ==
    /\ At(w, "resolve")
    /\ \/ generation # task[w].generation /\ Go(w, Ended(w, "stale"))
       \/ status = "active" /\ Go(w, [task[w] EXCEPT !.at = "send", !.secret = secret, !.account = account])
    /\ UNCHANGED <<connection, rows, written, controls>>

(* The second look at the generation, and runner.sync_list. *)
Send(w) ==
    /\ At(w, "send")
    /\ IF generation # task[w].generation
       THEN Go(w, Ended(w, "stale"))
       ELSE \E p \in Pages :
            /\ p.cursor = task[w].cursor
            /\ Go(w, [task[w] EXCEPT !.at = "commit", !.next = p.next, !.records = p.records])
    /\ UNCHANGED <<connection, rows, written, controls>>

Failing(w, final) ==
    NoPage("fail", task[w].job, 0, 0,
           IF final \/ task[w].attempts + 1 >= MaxAttempts THEN "failed" ELSE "pending")

(* fetch fails: the connection is not active, its credentials cannot be    *)
(* resolved, or the runner fails; some causes are final.                   *)
FetchFails(w) ==
    /\ task[w].at \in {"resolve", "send"}
    /\ \E final \in BOOLEAN : Go(w, Failing(w, final))
    /\ UNCHANGED <<connection, rows, written, controls>>

(* The connection is as it was when the page was fetched. *)
Unmoved(w) == status = "active" /\ secret = task[w].secret /\ generation = task[w].generation

(* Mutant: cursors are not remembered. *)
Cycle_never(w) == FALSE

(* The page's cursor was visited, or the one after it. *)
Cycle(w) ==
    \/ task[w].cursor \in visits[task[w].job]
    \/ task[w].next \in visits[task[w].job] \ {Start}

(* The result of commit_page_checked. *)
Verdict(w) ==
    LET t == task[w] IN
    IF t.next # Start /\ t.next = t.cursor THEN "cycle"
    ELSE IF ~Locked(w) THEN Unlocked(w)
    ELSE IF ~Unmoved(w) \/ ~Known(w) THEN "stale"
    ELSE IF checkpoint[t.job].cursor # t.cursor THEN "idle"
    ELSE IF Cycle(w) THEN "cycle"
    ELSE "ok"

(* commit_page_for_connection, when it commits.  It may still fail for     *)
(* the worker.                                                             *)
CommitPage(w) ==
    LET t == task[w] IN
    /\ At(w, "commit")
    /\ Verdict(w) = "ok"
    /\ job' = [job EXCEPT ![t.job] = UpdatedRow(@, IF t.next = Start THEN "succeeded" ELSE "pending", @.attempts, None)]
    /\ future' = future \ {t.job}
    /\ checkpoint' = [checkpoint EXCEPT ![t.job] = [cursor |-> t.next, generation |-> t.generation]]
    /\ visits' = [visits EXCEPT ![t.job] = @ \cup {t.cursor}]
    /\ path' = [path EXCEPT ![t.job] = Append(@, [cursor |-> t.cursor, next |-> t.next,
                                                  records |-> t.records, account |-> t.account])]
    /\ IF t.records = 0 THEN UNCHANGED written
       ELSE /\ messages' = [messages EXCEPT ![t.cursor] = [generation |-> t.generation,
                                                           account |-> t.account]]
            /\ usage' = usage \cup {<<t.job, t.cursor>>}
    /\ Go(w, Idle) \/ Go(w, Failing(w, FALSE))
    /\ UNCHANGED <<connection, controls>>

(* ... and when it does not. *)
CommitFails(w) ==
    /\ At(w, "commit")
    /\ \/ Verdict(w) = "cycle" /\ Go(w, Failing(w, TRUE))
       \/ Verdict(w) \in {"stale", "idle"} /\ Go(w, Ended(w, Verdict(w)))
       \/ Go(w, Failing(w, FALSE))
    /\ UNCHANGED <<connection, rows, written, controls>>

(* fail_with_error *)
FailWithError(w) ==
    LET t == task[w] IN
    /\ At(w, "fail")
    /\ IF Locked(w)
       THEN /\ job' = [job EXCEPT ![t.job] = UpdatedRow(@, t.fate, @.attempts + 1, None)]
            /\ future' = IF t.fate = "pending" THEN future ELSE future \ {t.job}
       ELSE UNCHANGED <<job, future>>
    /\ Go(w, Idle)
    /\ UNCHANGED <<connection, checkpoint, visits, path, written, controls>>

(* cancel_stale *)
CancelStale(w) ==
    LET j == task[w].job IN
    /\ At(w, "stale")
    /\ IF job[j].status = "running" /\ job[j].worker = w /\ job[j].generation # generation
       THEN /\ job' = [job EXCEPT ![j] = Cancelled(@, "stale")]
            /\ future' = future \ {j}
            /\ Forget({j})
       ELSE UNCHANGED rows
    /\ Go(w, Idle)
    /\ UNCHANGED <<connection, written, controls>>

(* The worker crashes, is out of time for its lease, or a transaction      *)
(* fails: what was not committed is gone.                                  *)
Stop(w) ==
    /\ task[w].at # "idle"
    /\ Go(w, Idle)
    /\ UNCHANGED <<connection, rows, written, controls>>

----------------------------------------------------------------------------
(* The operator's controls.                                                *)

Actions == {"RunNow", "ResetAttempts", "Cancel"}

StaleCancelled(j) == job[j].status = "cancelled" /\ job[j].error = "stale"

Restartable(j) ==
    \/ job[j].status = "pending"
    \/ job[j].status = "running" /\ j \notin future
    \/ StaleCancelled(j)

Allowed(j, action) ==
    CASE action = "RunNow" -> Restartable(j)
      [] action = "ResetAttempts" -> Restartable(j) \/ job[j].status = "failed"
      [] action = "Cancel" -> job[j].status \in Live

(* The row after RunNow and ResetAttempts. *)
Restarted(j, action) ==
    [status |-> "pending", worker |-> None, generation |-> generation,
     attempts |-> IF action = "RunNow" THEN job[j].attempts ELSE 0, error |-> "none"]

(* control_in_transaction *)
Control(j, action) ==
    /\ controls < MaxControls
    /\ Allowed(j, action)
    /\ job' = [job EXCEPT ![j] = IF action = "Cancel" THEN Cancelled(@, "operator")
                                 ELSE Restarted(j, action)]
    /\ future' = future \ {j}
    /\ Forget(IF action # "Cancel" /\ job[j].generation # generation THEN {j} ELSE {})
    /\ controls' = controls + 1
    /\ UNCHANGED <<connection, written, task>>

(* The connection changes. *)
Connect == BindingNext /\ UNCHANGED <<rows, written, task, controls>>

----------------------------------------------------------------------------

Step(w) ==
    \/ ReadCursor(w) \/ Resolve(w) \/ Send(w) \/ FetchFails(w)
    \/ CommitPage(w) \/ CommitFails(w) \/ FailWithError(w) \/ CancelStale(w)

Next ==
    \/ \E j \in Jobs : Enqueue(j) \/ Elapse(j)
    \/ \E j \in Jobs, action \in Actions : Control(j, action)
    \/ \E w \in Workers : ClaimWithPolicy(w) \/ Step(w) \/ Stop(w)
    \/ Connect

Spec == Init /\ [][Next]_vars

(* Time passes, and every worker goes on unless it stops: a call to the    *)
(* runner has a deadline, and the daemon claims again after each cycle.    *)
Fairness ==
    /\ \A j \in Jobs : WF_vars(Elapse(j))
    /\ \A w \in Workers : WF_vars(ClaimWithPolicy(w)) /\ WF_vars(Step(w))

FairSpec == Spec /\ Fairness

(***************************************************************************)
(* Properties.                                                             *)
(***************************************************************************)

(* The pages committed by a job since its last restart (commit_page_       *)
(* checked), whichever workers fetched them, follow one another from the   *)
(* first page without a gap and without repetition, and those with records *)
(* are charged.  The job has succeeded exactly if the last one has no      *)
(* successor.                                                              *)
PagesFormChain ==
    \A j \in Jobs :
        LET p == path[j] IN
        /\ \A i \in DOMAIN p :
            /\ p[i].cursor = IF i = 1 THEN Start ELSE p[i - 1].next
            /\ \A k \in DOMAIN p : p[k].cursor = p[i].cursor => k = i
            /\ p[i].records = 1 => <<j, p[i].cursor>> \in usage
        /\ job[j].status = "succeeded" <=> p # <<>> /\ p[Len(p)].next = Start

(* A stored message carries the generation of the account it was fetched   *)
(* from, and a job's pages all come from the account of its generation,    *)
(* although the connection may be bound to another account between any two *)
(* of the calls of fetch and commit_page_checked.  Readers select messages *)
(* by the connection's generation.                                         *)
MessagesBelong ==
    /\ \A c \in Cursors : messages[c].generation = messages[c].account
    /\ \A j \in Jobs : \A i \in DOMAIN path[j] : path[j][i].account = job[j].generation

Succeeded(j) == job[j].status = "succeeded"

OperatorCancelled(j) == job[j].status = "cancelled" /\ job[j].error = "operator"

(* What a job has reached is not undone by a worker that comes late: a     *)
(* job that succeeded or that an operator cancelled keeps its row,         *)
(* checkpoint and pages for good, and a job that failed or was cancelled   *)
(* for its generation is restarted by an operator only.                    *)
EndedIsFinal ==
    [][\A j \in Jobs :
        /\ Succeeded(j) \/ OperatorCancelled(j)
             => <<job[j], checkpoint[j], path[j]>>' = <<job[j], checkpoint[j], path[j]>>
        /\ job[j].status \in {"failed", "cancelled"} /\ job'[j] # job[j] => controls' = controls + 1]_vars

(* Every job comes to an end: a provider that repeats cursors, workers     *)
(* that stop while they hold a lease and jobs before it in its lane can    *)
(* only delay it, because an abandoned lease costs an attempt and the      *)
(* generations that are left behind are swept.                             *)
JobsEnd == \A j \in Jobs : job[j].status \in Live ~> job[j].status \notin Live

============================================================================
