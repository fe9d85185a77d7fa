# A TLA+ verification of appcall

appcall is a control plane for calling third-party applications on behalf of
projects: a Rust server (HTTP API, dashboard, MCP gateway, workers, a durable
workflow engine) over PostgreSQL and SQLite, and a Bun process that runs the
connectors. The parts that are hard to get right are those in which work that
has effects in the outside world is retried, timed out, cancelled, recovered
after a crash or taken over by another process. This project models those parts
in TLA+, checks them with TLC on small instances, and proves the central
properties with TLAPS for every instance.

## 1. The system and its models

Sizes are lines of source.

| part | source | what is hard | model |
|---|---|---|---|
| workflow engine | `crates/appcall-engine` (2371) | crashes between transactions, late and repeated results, effects of unknown outcome, capacity, wakeups through five different paths | `Engine`, `Effect` |
| engine host | `crates/appcall-engine-http` (1125) | fairness of the loop | the loop, in `Engine` |
| circuit breaker | `appcall-actions/src/circuit.rs` (112) | stale guards, dropped futures | `Circuit` |
| action execution, claims, reservations | `crates/appcall-actions` (4483), the outcomes of `crates/appcall-runner-client` | a deadline racing the answer, lease takeover, refunds | `Claims` |
| sync jobs, worker | `crates/appcall-sync` (1406), `crates/appcall-worker` (781) | expired leases, rebound connections, head-of-line blocking | `Sync` |
| webhook events | `crates/appcall-events` (1071), `appcall-api/src/streaming.rs` | duplicates, savepoints, positions drawn before they are committed | `Events` |
| OAuth lifecycle, connections and secrets, setup form | `crates/appcall-oauth` (902), `appcall-store` (562), `appcall-setup`, triggers in `migrations` | a crash between intent and answer, reconnection meanwhile, cleanup beside both | `Lifecycle`, `Binding` |
| engine PostgreSQL store, provider onboarding, MCP gateway, rate limiter, runner, supervisor | | see `components` in `PROJECT.json` | not modelled |
| dashboard, authentication, connector catalog, CLI, runtime, connectors | | stateless, sequential, or data | not modelled |

How they interact: an API or MCP request becomes an action execution, guarded by
a claim, a reservation and the circuit breaker, and is run by the runner; a
workflow's activities are executed by native handlers on threads of the engine
host; webhooks enqueue sync jobs that workers claim; connections and their
secrets, refreshed by the OAuth lifecycle, are read by all of them and carry a
generation so that work begun with old credentials is recognised.

The last interaction is composed explicitly. `Binding` is what the rest of the
system relies on about a connection. `Sync` and `Events` extend it: their
connection changes by any step of `Binding`, at any time. `Lifecycle` models the
code that really changes connections, and is shown to implement `Binding`. What
is proved of `Sync` and `Events` therefore holds of them running beside `Lifecycle`.

`PROJECT.json` lists every component with its status, the source lines that each
definition translates (`map`), and under `hazards` the places in the code where an
untested order of events could go wrong, with the properties that cover them.

Names ending in a word after an underscore, introduced by a comment "Mutant", are
plausible mistakes used to test that the properties can fail. They are not part of
any specification.

## 2. The models

### Engine

`Engine` covers `engine.rs`, `store.rs`, `types.rs`, the relevant part of
`context.rs`, and the drive loop of `appcall-engine-http/src/actor.rs`.

*Persisted state.* `run` is the `RunRecord` (state, failure reason, wakeup,
position in the history, signals, children, successor, parent, audit length);
`task` the tasks of its activity commands (state, attempt, owner epoch, and the
accounting of the retry budget); `column` the `wakeup` column of the row, which the
store sets on its own in two places and which can therefore differ from the
record; `epoch` the owner epoch. *Memory*: `dispatched` (capacity), `parked`,
`threads` (handlers executing), and `phase`, `driven`, `loop`, `stack`, the
call in progress. *History variables* for properties: `maybe`, the attempts of an
effect that may have happened (removed by a refusal or by an operator's proof), and
`invoked`.

*Granularity.* Engine calls run one at a time (`&mut self`), and every call is made of
SQLite transactions. One action is one transaction; a call of several transactions
is several actions, between which only a crash (`open`) may come. The
exceptions are the refusal of an attempt (`Refuse`) and its result (`Settle`, for
`complete` and `fail`): the save of the run and the saves that wake parked runs are one
action. A crash between these transactions is therefore not explored. It would leave
parked runs that were not woken; a parked run has a ready task, so that it
`requires_recovery` and `open` makes it due, as it does after a crash at any other moment.

*Workflow code* is deterministic and replays against its history, so it is a
constant sequence of commands per run: activities (awaited or detached), timers,
signals, children, a select over several sources, continue-as-new. Code that
misbehaves (different commands on replay, a panic, blocking on nothing) is the action
`drive_fault`. Clock values are reduced to what they decide, None, due or
later; the deadlines that have passed are a parameter of `drive`.

*Hosts.* With `Embedded = FALSE` the host is the daemon: it drives what
`runnable` returns, prepares what was just dispatched, and delivers each
result once, from a thread. With `Embedded = TRUE` any caller of the public API is
allowed: any run is driven, attempts are prepared late or repeatedly, results come
early, late and twice.

| definition | code |
|---|---|
| `start`, `signal`, `resume` | the calls of the same names |
| `cancel`, `cancel_descend`, `cancel_finish` | `cancel` and its recursion, one step per save |
| `drive`, `drive_cancelled`, `drive_stopped`, `drive_suspended` | `drive` up to its loop: recovery, retries, lookup |
| `drive_value` … `drive_spent` | one turn of the loop, by what it comes to |
| `prepare_registered`, `prepare_unresolved`, `reject_dispatch` | `prepare_registered_at`, `reject_dispatch` |
| `complete`, `fail` | `complete_registered_at`, `fail_at`, with `release_dispatch` |
| `reconcile`, `reconcile_refused` | `reconcile_inner` |
| `open` | a crash, and `SqliteStore::open` |
| `Commit` | `Store::commit`, with the parent's wakeup, and `release_dispatch`'s saves |

`Effect` is the abstract life of one activity: created, dispatched, invoked, settled,
in doubt, repeated only if that is safe, disproved. `EffectsFollowProtocol` says that
each step of `Engine` is a step or a stutter of `Effect` for every activity at
once, with the mapping `state <- task[e].state`, `attempt <- task[e].attempt`,
`maybe <- maybe[e]`.

### Circuit

One key of the breaker: the `State` struct, and the `Admission` guards held
by any number of callers. `admit`, `refuse`, `resolve` and `drop` are the code's;
`CooldownElapses` is the passing of time. A guard of an older generation changes
nothing, and a probe that is dropped gives its slot back.

### Claims

The execution of actions (`service.rs`) over the tables of `postgres_store.rs` and
`policy_postgres.rs`, and the operator's `reconcile_action_claim` (`claims.rs`).

*State.* `claim`, `record`, `audit`, `res` and `usage` are the tables; `exec` is
what each request is doing in memory, with the `DispatchEvidence` of its attempts;
`effect` is a history variable, what the request did at the provider.

*Granularity.* A call on the database is one transaction under the project's and the
key's lock: one definition, with `ok` for whether it returns Ok. The exception is
`finish_read_timeout`, which selects its reservation before it takes the locks
(`select_reservation`) and acts on what it selected afterwards. A request may be
dropped between any two steps, by its deadline (`deadline`) or by a client or
process that is gone (`Abandon`). The code runs database calls on blocking threads,
which outlive the request: a dropped call may still be carried out later (`Late`). A
call may fail (`Fails`), also after it has committed (`AnswerLost`).

| definition | code |
|---|---|
| `acquire`, `release_pending`, `mark_dispatched`, `finish_…` | the calls of the claim store |
| `reserve`, `bind`, `release_quota_reservation`, `Swept`, `Recovered` | `policy_postgres.rs`, with the sweep at the start of every reservation |
| `After`, `AfterFailure`, `Returns`, `prepare`, `record_replay` | the order of calls in `execute_inner` and `dispatch` |
| `begin_attempt`, `combine`, `Answered`, `Failed`, `attempts` | `evidence.rs` and the retry loop |
| `proven_not_dispatched`, `provider_succeeded`, `provider_failed` | the operator's resolutions |

*The runner's report* is `MayReport`, from `runner_error_outcome` of the runner client:
NotDispatched is reported only of failures before the action's handler started, and any
other outcome, a refusal by the provider included, leaves open what was done before.

*Assumed of the outside*: the operator's evidence is true and concerns a request that can
do no more (`Evidence`).

*Abstractions*: one project and one month; requests of one key have one identity
(`acquire` refuses another identity without a change); leases and reservations run
out at any time, which covers every clock; the circuit, credentials and policy checks
of `prepare` are a choice between going on and giving up.

### Sync

The jobs of one connection and operation: `claim` orders only such jobs among each
other. `job`, `checkpoint`, `visits`, `messages`, `usage` are tables, `task` is what
each worker does in memory, `path` is a history variable, the pages that a job has
committed since its last restart. Every method of `Repository` is one transaction:
`Enqueue`, `ClaimWithPolicy` (with its sweep of stale jobs and its loop over
exhausted ones), `ReadCursor`, `CommitPage`/`CommitFails`, `FailWithError`,
`CancelStale`, `Control`. The steps of `fetch` between them are `Resolve`, `Send` and
`FetchFails`. A worker may stop between any two (`Stop`).

A lease is recognised by (`worker_id`, `leased_until`). Default worker ids may coincide
across hosts, but the two together name a claim, and a worker holds one claim at a
time, so in the model the lease is named by its worker. Two jobs of a lane may overlap
when an earlier one is enqueued or restarted while a later one runs; nothing in the
repository says otherwise.

### Binding and Lifecycle

`Binding`: a token refresh replaces the secret and keeps account and generation;
anything else that makes other credentials current starts a new generation. So a
generation names one provider account.

`Lifecycle` is the code that changes the row of a connection: `PrepareRefresh` and
`FinishTokens`/`FinishError`/`FinishRefused` (`lifecycle.rs`), `Start` and `Callback`
(`authorization.rs`), `TestConnection`/`ResolveHealth`/`RecordTest` and `Disconnect`
(`appcall-api`), `Save`/`SaveValidated` (`appcall-setup`), `ExpireStaleAuthorizing`
and `Cleanup` (`appcall-store`), and the trigger that computes the generation
(`UpdateRow`). Calls to the provider lie between transactions; the caller may stop
there (`Crash`) or be overtaken. Whether a token needs a refresh, and whether an
envelope is old enough to be cleaned up, is left open, which allows more than the
clock does. `Save` also compares `last_test_status` in the code; leaving that out
again allows more. Mappings of the refinement: a connection is "refreshing" while its
intent is a dispatched refresh of the current secret.

### Events

`ReadConnection`, `AcceptChecked` and `CommitEvent` are the webhook route and
`accept_checked`; the position of an event is drawn from the sequence before its
transaction commits, so the two are separate steps. `Dispatch` and `DispatchFails` are
one row of `dispatch_pending` with its savepoint; `Replay`; `Poll`, `SendFrame`,
`Resume` and `List` are the event stream and its client. The order in which due rows
are taken is left open, the paging of the history is one step, the owner of the
connection does not change, and rows from before the latest migration (NULL keys or
generations) are left out. An event of an older generation may be dispatched into the
current one; nothing in the repository says otherwise.

## 3. Runs

| run | instance | shows |
|---|---|---|
| `circuit` | five callers, threshold 2 | the breaker opens at the threshold, lets one probe through, closes only by its success, and the probe's slot always comes back |
| `effects` | the daemon; an unsafe and a safe activity in flight together, a successor, two restarts, two attempts, missing payloads and implementations | reports of unknown outcomes and their cause, the retry budget, no lost wakeup, slots are handlers, final results, the fence of cancellation, the refinement of `Effect` |
| `tree` | any caller of the API; a parent, a child that continues twice (once more than the chain may be long), a grandchild whose id a client may have taken, timers, faulty code, full limits | no repetition of an unsafe effect, no lost wakeup, cancellation covers the tree, a completed run has joined everything, how a run ended is final |
| `live` | the daemon; parent and child compete for one slot and one parking place, one restart | cancellations are carried out, parked runs get their turn |
| `mutations` | two mutations with one key, a read without | one mutation at most reaches the provider, and is fenced for good |
| `reads` | two reads with one key, two attempts each, hard limit 1 | the ledger agrees with the reservations, refunds only of what never ran, the limit holds, a known outcome is final |
| `recovery` | two mutations with one key | expected violation, section 5 |
| `sync` | two workers, one job, three pages of which two may form a cycle, two generations, three secrets, two controls | pages form a chain, messages belong to their account, ended jobs are final |
| `lanes` | two jobs, one worker, two pages, two secrets | every job ends |
| `events` | two requests at a time, two events, one key, two attempts, one replay, a streaming client | a webhook is accepted once and as verified, the stream is complete, dispatch is atomic and its failures are counted |
| `lifecycle` | two callers, three secrets, two authorizations, both kinds of connector | needed secrets are kept, refresh tokens are not sent twice, late tokens are lost, replacements are not, `Binding` is implemented |
| `rotation` | the same, smaller | expected violation, section 5 |

*Bounds.* Engine: two activities are the least for which one result can arrive while
another is uncertain; two attempts distinguish the first from a repeated one; three
epochs let recovery itself be interrupted. The limits of the code (256, 1024, 128)
are set to 1 or 2 so that they are reached; the code compares with them and does
nothing else. Circuit: five callers at threshold 2 let one stale guard survive the
opening while two probes are sent. Claims: takeover, late calls and the operator's
interference each need one other request of the same key; in `mutations` the bound
`OneKey` lets either the two mutations or the read begin, not both, as they meet
only in the quota. Sync: two workers give the late and the new holder of a lease,
two controls a cancellation after a restart; three secrets give a refresh and a
rebinding; `MaxRecoveries` (32 in the code) is 1 so that a claim can reach it.
Events: with two requests one event can be drawn before and committed after
another is tried. Lifecycle: two callers give the overtaken one and the one that
overtakes. All the safety properties but those named in section 4 are
proved without bounds.

*Symmetry* is used where callers, workers, requests or receivers are interchangeable
and no liveness is checked.

*Deadlock* is not checked: finished workflows, requests and jobs, and an instance that
has used its restarts, really stop.

*Fairness.* `live`: the host thread carries on with a call it has begun (weak
fairness of the turns, the preparation and the cancellation walk). Its loop returns to
`runnable` after each pass, which lists due rows by wakeup and id, at most 32:
with no more than 32 due runs each is driven, whatever happens in between, which is
strong fairness of `DriveStep`. A handler that was invoked returns, and its
result waits in a channel until the thread takes it: strong fairness of
`ResultStep`. Nothing is assumed about clients, operators or restarts. `circuit`:
every admitted call ends, by an answer or because the deadline drops its future.
`lanes`: time passes (a lease runs out, a backoff ends), the daemon claims again
after every cycle, and a worker goes on with its page, since the runner's calls have
deadlines; it may still stop at any point. Nothing is assumed of the operator or the
connection, which can change only boundedly often.

## 4. Proofs

Every theorem holds for all values of the constants, under the assumptions named in the
modules (limits are positive, identifiers are distinct, programs are sequences
whose children are runs). Each proof module has an inductive invariant `IInv`, a lemma or
step per action that it is preserved, and theorems that follow from it. `IInv` is needed
because the properties say what must not be seen, and not what the other actors hold in
memory that could make it happen with their next step; most conjuncts of `IInv` are
about that memory.

**EngineProofs**: `TypeCorrect`, `UnsafeRunsOnce`, `UnknownIsCaused`,
`ImplementsEffect` (the refinement of `Effect`), `ResultsAreFinal`,
`CancellationFences` and `BudgetIsKept` (`RetryBudget`), for both kinds of host.
`UnsafeOnce` is not inductive: nothing in it relates the attempts that may exist to the
state of the task. `IInv` adds

- `UnsafeAttempts`: for an unsafe effect, the attempts that may have run are at most
  the current one, none while the task is Absent or Ready, and the task is never
  Retrying; this is why a dispatch, which needs Ready, cannot be a second one;
- `AbsentTasks`: a task that was never created has attempt 0;
- `LoopDrivable`: the run in drive's loop has a state from which drive enters it, and so
  a loop never overwrites OutcomeUnknown or a cancellation;
- `WalkBegun`: during a cancellation walk the stack is not empty;
- `UnknownHasCause` itself.

`StepGood` has one step of its proof per action: it satisfies `Good`, the conjunction of
the per-step facts, and with that preserves `IInv`. The theorems follow from
`Inductive == Spec => []IInv /\ [][Good]_vars`. The budget needs `BudgetInv` besides: every
invocation is covered by a charged execution of its task, and an attempt in flight has a
charge left and has not used it, so that neither `infer_execution` after a crash nor a
refusal loses count.

**EngineHostProofs**: for the daemon `UncertaintyIsReported`, `SlotsAreOfHandlers`,
`CancellationCoversTree` and `EndsAreFinal`. The host thread's memory (`MemoryInv`) is an
induction of its own (`StepMemory`); what it says of the runs (`RunsInv`) is another that
uses it (`NextHost`), in which each property is the reason of another. `HostInv` is made of

- `UncertainIsReported` itself and its converse `DoubtInv`: a run whose unknown outcome
  nobody has looked into has an uncertain task or has used up its retries. So a result of
  another task that finds no uncertain task left cannot set a run going that a
  cancellation walk has already counted as settled;
- `CancelCoversTree` and `LinksExist` (what a run names as child or successor was created),
  with `WalkFenced`: whatever is on the stack of a walk is fenced, and so gets no more
  children while the walk is below it;
- `Slots`, `Prepared` and `Started`: which slots are in use in each phase, that nothing
  happens to a run between the dispatch and the preparation of its attempt, and that the
  attempt of an executing handler is never one that is still to be started. This is where
  the daemon is needed.

`HostStep` lists the edges of a run's life. `EndIsFinal` is read off it, and so is that a
settled run stays settled, which `CancelCoversTree` needs.

**EngineTreeProofs**: `CompletionIsJoined` (`CompletedJoined`) and `WakeupsAreKept`
(`NoLostWakeup`), for both kinds of host. They look at the same step of many actions, so that is stated once:
`Shape` (in `EngineProofs`) says which records a step writes, what it leaves unscheduled
and whom it wakes, and `StepShape` that every action has this shape. It needs `LoopInv`:
in drive's loop recover has dealt with the attempts of earlier owners, and timers run out
only as seen by a drive. On top of it there are two invariants.

- `TreeInv`, preserved by every step of that shape (`StepTree`): children and successors
  name their parent, only a run that has continued has a successor, and of the runs that
  name a parent the last of every chain is the one that `latest_run` finds from some child
  (`Tip`). The last is why joining the recorded children joins everything that the run
  began, and why the end of a run that continued wakes the right parent.
- `WakeInv`: a running run that is not scheduled has issued its command, waits for it
  (`Blocks`: the task, signal or source has not arrived, and the chain of a child has not
  ended), and has nothing to dispatch or to recover unless it is parked behind an attempt;
  and a preparation writes back no more than its dispatch saved. `StepWakeful` goes through
  the shapes, `StepPhase` through the phases.

`latest_run` follows at most `MaxHops` links, as a recursive function. What it computes is
proved by taking a least counterexample (`HopsExist`, `HopsIn`, `HopsMove`), with the least
element of a set of numbers from the library. In this module, in `EngineHostProofs` and in
`ClaimsProofs`, `Library` collects what is used of the library. It is a hypothesis of the
lemmas and proved at the end (`LibraryFacts`), where the theorems about finite sets come
into scope; no theorem depends on it as an assumption.

**CircuitProofs**: `TypeCorrect`, `ProbeIsExclusive`, `OpenBreakerAdmitsProbes`,
`OpensAtThreshold`, `OnlyTheProbeCloses`. The four invariants are inductive together with
`GuardsAndProbeTiming`: no guard comes from a future generation, and a probe is out only
after the cooldown.

**ClaimsProofs**: `TypeCorrect`, `Fenced` (`DispatchFence`),
`AtMostOneEffect` (`SingleEffect`), `RefundsAreUnused` (`RefundedNeverRan`),
`KnownOutcomeIsFinal` (`KnownIsFinal`), `LedgerHasNoGap` (`Ledger`), `QuotaIsKept`
(`Quota`). Steps that make a call come first, then the others. `Executions` says that the
evidence of an execution covers what it did, and which calls can be left behind by a
dropped request; `Claimed` that a request at the runner holds its dispatched claim and
that a key with an output has none; `Reserved` that a reservation is made, bound and
dispatched before anything is sent, and that what was refunded is not sent;
`Selection` what `finish_read_timeout` may assume of the reservation it selected
before it had the locks. `SingleEffect` follows from `DispatchFence`: two mutations that
reached the provider would both hold the key or both have left its output.

The ledger has an invariant of its own on top of `IInv`. `LedgerInv` adds to `Ledger` and
`Quota` that a dispatched reservation of a key is bound, so that `finish_read_timeout` selects
no dispatched reservation but its own; and that one it has selected stays dispatched or
settled while the request holds its key, unless the operator declares the read failed.
`LedgerStep` says how a row and its charge may change together, and each call is shown to be
such a change. For the limit, `reserve` counts charges and active reservations; that
this bounds the settled and active ones follows from `Ledger`, as every settled
reservation has a charge of its own.

**SyncProofs**: `TypeCorrect`, `PagesAreAChain`, `MessagesAreOfTheirAccount`,
`EndedJobsAreFinal`. `Chained` ties the committed pages to the checkpoint (where they
end) and to the visited cursors (which they are), so that the comparison of
`commit_page_checked` extends the chain; `Informed` says that a task's secret comes with
one account, so that an unchanged secret is an unchanged account; `Accounts` is what
`Binding` gives; `Budgeted` keeps the attempts within their type.

**LifecycleProofs**: `TypeCorrect`, `CredentialsAreKept`, `RotationIsFenced`,
`LateTokensAreLost`, `ReplacementsAreNotLost`, `BindingIsImplemented` (the refinement).
`Dispatched` and `Copies` describe what callers carry across a call to the provider,
`Intended` the refresh intent, `Rotated` that a token once sent belongs to a replaced
secret or to a connection whose outcome is open, `Overtaken` that an overtaken caller
finds another attempt, another secret or a disconnected row.

**EventsProofs**: `TypeCorrect`, `WebhooksAreAcceptedOnce`, `WebhooksAreVerified`,
`StreamIsComplete`, `DispatchIsAtomic`, `ClosedRowsAreFinal`. `Inserting` is what
the advisory lock gives, that at most one event is drawn and not committed and that it is the
last; with `Streaming` (the page continues the cursor without a gap) the stream skips
nothing. `Admitted` carries the unchanged revision to the acceptance.

*Only model-checked.* Liveness (`ProbeReturned`, `CancelEnds`, `ParkedIsWoken`,
`JobsEnd`): fairness is out of the prover's reach.

*Only proved.* The type invariants of all modules but `Engine`, and `ClosedIsFinal` of
`Events`, are proved and not checked by a run. `CancelCoversTree` and `EndIsFinal` are
checked by `tree` for callers of the API whose payloads are present, and proved for the
daemon.

## 5. Where the code and its comments disagree

- *Recovered calls are metered twice* (run `recovery`). The recovery of an expired
  dispatched reservation meters the call, "conservatively charged once" by its
  comment and by the migration; if the operator then declares the call successful,
  `reconcile_action_claim` meters it again under the request's own key.
- *Unknown rotations are retried* (run `rotation`). A test of the repository says that a
  rotation of unknown outcome is never retried. The start of an authorization
  overwrites the intent that says so; a connection test that runs before the
  callback then sends the same refresh token again. `RotationFenced` states, and
  `RotationIsFenced` proves, that this is the only way.

Three observations about the engine for which no run is kept:

- `drive` skips the save of a waiting run whose record did not change. When a child ends
  while the parent waits for something else, the store makes the parent's row due
  without changing its record; the drive that follows skips the save, and the row
  stays due. The host drives the run again on every pass until something else changes
  it. No wakeup is lost.
- `reject_dispatch`, and a preparation with a missing payload, take a run out of
  OutcomeUnknown, after which other tasks are dispatched while the uncertain one waits;
  the comment of `resume` says it must be reconciled first. This takes an embedding host;
  under the daemon `UncertainIsReported` holds. The uncertain effect itself is never
  repeated in either case (`UnsafeRunsOnce`). In the same way a late preparation with a
  missing payload brings a run that failed with its retries used up back to NeedsInput, also
  one whose parent is cancelled; under the daemon `EndsAreFinal` and
  `CancellationCoversTree` exclude this.

- `prepare_registered` saves the record that the dispatch left, with its wakeup, and the
  store copies that into the row. An embedding host may prepare an attempt long after it
  was dispatched; if a child has ended in between, and has made the row of its parent due,
  the preparation takes that back. The run is then not due although it could go on, until
  the end of the attempt wakes it. The daemon prepares at once. `NoLostWakeup` names this
  as its third case, and `WakeupsAreKept` proves that there is no other.

And one about sync: a job whose connection is bound to another account starts over, and
the id of a usage event is made of the job and the cursor (`repository.rs`, line 536). A
page with a cursor that a page of the earlier account had counts as charged by that
page's event. `PagesFormChain` asks that a page with records has its usage event, and not
for whose page it was made.

And one about the ledger: `Ledger` names an exception, a read that the operator declares
failed while `finish_read_timeout` waits for its locks is metered although its capacity was
released. Nothing in the repository promises otherwise.

## 6. Abstractions and limits

- Engine: two wakeups in the future count as equal; the code compares milliseconds, and
  would save once more where the model does not. The limit of 32 due runs per pass is not
  modelled (see fairness). `reconcile` without an outcome believes the operator's
  evidence. `maybe` counts an attempt from its dispatch, although the daemon starts the
  handler only after preparation: an over-approximation. Errors of payload resolvers other
  than a missing payload, and failures of the store itself, end the call; the host thread
  stops on them, which is `open`. Payload contents, encryption of the history, summaries
  and listings are left out.
- Claims: send and account limits are ways for a call to fail; the content of outputs
  and logs is left out. The circuit is not composed with Claims: it only decides whether
  `prepare` goes on.
- Sync: `SKIP LOCKED` lets a claim find nothing while another runs, which is a stutter.
  The contents of pages are reduced to whether there are records.
- Bounds on controls, secrets, generations, authorizations and replays are constants of
  the models; the proofs hold for each value of them.
- Not modelled: the engine's PostgreSQL store (the same transactions with a session
  fence), provider onboarding, the MCP session table, the rate limiter, the Bun runner
  and its supervisor, the generation host of the worker. The parts without state of their
  own are listed in `PROJECT.json`.
- Extent: `map` names about 5,300 lines of source: some two fifths of the files it touches,
  and most of `engine.rs`, `postgres_store.rs` and the stores' transactions. That is under
  4% of the repository's roughly 144,000 lines, the bulk of which is connector code and
  tables, the dashboard, and request handling. Nothing here says anything about those.
