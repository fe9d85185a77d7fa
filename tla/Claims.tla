------------------------------- MODULE Claims -------------------------------
(***************************************************************************)
(* The execution of actions (appcall-actions): the calls that service.rs   *)
(* makes, in order, on the idempotency claims, quota reservations and      *)
(* usage ledger of postgres_store.rs and policy_postgres.rs, and the       *)
(* operator's reconciliation of claims.rs.                                 *)
(*                                                                         *)
(* Each call is one transaction under the project's quota lock and the     *)
(* key's lock, so it is one step; finish_read_timeout selects its          *)
(* reservation before it has the locks, and takes two.  A request may be   *)
(* dropped between any two steps: by its deadline, by a client that has    *)
(* gone, or by a crash.  A call in flight runs on a blocking thread, and   *)
(* may be carried out after that (exec.late).  Any call may fail, also     *)
(* after having committed.                                                 *)
(*                                                                         *)
(* All requests are of one project and one month.  Requests of one key     *)
(* have the same identity (connection, action, input); acquire refuses     *)
(* another identity without a change.  Leases and reservations run out at  *)
(* any time.  Calls that only write logs are left out.                     *)
(***************************************************************************)
EXTENDS Integers, FiniteSets

CONSTANTS
    Requests,       \* request ids
    Keys,           \* idempotency keys
    Key,            \* Requests -> Keys \cup {None}: the key a request carries
    ReadOnly,       \* the requests whose operation is read only
    HardLimit,      \* action_calls_hard
    Tries,          \* attempts of a read (3)
    None

Claim == [req : Requests, dispatched : BOOLEAN, expired : BOOLEAN]

ASSUME ClaimsAssumption ==
    /\ None \notin Keys \cup Requests \cup Claim \cup {"succeeded", "failed"}
    /\ IsFiniteSet(Requests)
    /\ Key \in [Requests -> Keys \cup {None}]
    /\ ReadOnly \subseteq Requests
    /\ \A p, q \in Requests : Key[p] = Key[q] /\ Key[p] # None => (p \in ReadOnly <=> q \in ReadOnly)
    /\ HardLimit \in Nat
    /\ Tries \in Nat \ {0}

VARIABLES
    claim,          \* action_idempotency_claims, by key
    record,         \* action_idempotency_records: the request whose output is kept
    audit,          \* provider_outcome_known audits of a key
    res,            \* action_usage_reservations and their charges, by request
    usage,          \* usage_events, by metering key
    exec,           \* in memory: the execution of each request
    effect          \* history: what the request did at the provider

database == <<claim, record, audit, res, usage>>
vars == <<database, exec, effect>>

Outcomes == {"NotDispatched", "ResponseReceived", "Unknown"}

(* The calls on the database, named after the functions. *)
Calls == {"acquire", "release_pending", "reserve", "bind", "mark_dispatched", "release_not_dispatched",
          "finish_success", "finish_not_dispatched", "release_quota", "finish_read_failure",
          "finish_read_timeout"}

(* What an execution is about to do. *)
Places == Calls \cup {"prepare", "send", "run", "record_replay", "over"}

Active == {"pending", "dispatched"}

Reservation == [state : Active \cup {"none", "released", "settled"},
                at : Nat,               \* created_at
                bound : BOOLEAN,        \* request_id is set
                expired : BOOLEAN,
                refunded : BOOLEAN]     \* the refunded_at of its charges

Hits == {"none", "failed", "done"}

Execution == [at : Places,
              late : SUBSET Calls,      \* calls that outlive their request
              tries : 0..Tries,
              outcome : Outcomes, prior : Outcomes,     \* DispatchEvidence
              hit : Hits,               \* what the attempt does at the provider
              begun : BOOLEAN,          \* finish_read_timeout has selected
              seen : SUBSET [of : Requests, state : Active]]     \* this row

TypeOK ==
    /\ claim \in [Keys -> Claim \cup {None}]
    /\ record \in [Keys -> Requests \cup {None}]
    /\ audit \in [Keys -> {"succeeded", "failed", None}]
    /\ res \in [Requests -> Reservation]
    /\ usage \subseteq {"action", "recovery"} \X Requests
    /\ exec \in [Requests -> Execution]
    /\ effect \in [Requests -> Hits]

NoReservation == [state |-> "none", at |-> 0, bound |-> FALSE, expired |-> FALSE, refunded |-> FALSE]

Init ==
    /\ claim = [k \in Keys |-> None]
    /\ record = [k \in Keys |-> None]
    /\ audit = [k \in Keys |-> None]
    /\ res = [q \in Requests |-> NoReservation]
    /\ usage = {}
    /\ exec = [q \in Requests |-> [at |-> "acquire", late |-> {}, tries |-> 0,
                                   outcome |-> "NotDispatched", prior |-> "NotDispatched",
                                   hit |-> "none", begun |-> FALSE, seen |-> {}]]
    /\ effect = [q \in Requests |-> "none"]

----------------------------------------------------------------------------
(* The calls.  `ok` tells whether the call returns Ok.                     *)

Keyed(q) == Key[q] # None

Holds(q) == Keyed(q) /\ claim[Key[q]] # None /\ claim[Key[q]].req = q

(* The claim that the finishing calls look for. *)
Owned(q) == Keyed(q) => Holds(q) /\ claim[Key[q]].dispatched

(* DELETE ... WHERE request_id = q. *)
Cleared(q) == IF Holds(q) THEN [claim EXCEPT ![Key[q]] = None] ELSE claim

ClearedPending(q) ==
    IF Holds(q) /\ ~claim[Key[q]].dispatched THEN [claim EXCEPT ![Key[q]] = None] ELSE claim

Released(r) == [r EXCEPT !.state = "released"]

Settled(r) == [r EXCEPT !.state = "settled"]

(* refund_reservation_charges: charges that were not refunded yet are. *)
Refunded(r) == [r EXCEPT !.refunded = TRUE]

Same(ok, result) == ok = result /\ UNCHANGED database

(* Mutant: an expired lease is taken over although it was dispatched. *)
Takeable_dispatched(k) ==
    /\ record[k] = None
    /\ audit[k] = None
    /\ claim[k] # None => claim[k].expired

(* Mutant: the kept output is not looked for. *)
Takeable_recorded(k) ==
    /\ audit[k] = None
    /\ claim[k] # None => claim[k].expired /\ ~claim[k].dispatched

(* Mutant: the operator's audit is not looked for. *)
Takeable_audited(k) ==
    /\ record[k] = None
    /\ claim[k] # None => claim[k].expired /\ ~claim[k].dispatched

(* A key is free, or held by a claim that was not dispatched and whose     *)
(* lease has run out.                                                      *)
Takeable(k) ==
    /\ record[k] = None
    /\ audit[k] = None
    /\ claim[k] # None => claim[k].expired /\ ~claim[k].dispatched

(* acquire; not ok also stands for an answer from the record. *)
acquire(q, ok) ==
    \/ /\ Keyed(q) /\ Takeable(Key[q]) /\ ok
       /\ claim' = [claim EXCEPT ![Key[q]] = [req |-> q, dispatched |-> FALSE, expired |-> FALSE]]
       /\ UNCHANGED <<record, audit, res, usage>>
    \/ Keyed(q) /\ ~Takeable(Key[q]) /\ Same(ok, FALSE)
    \/ ~Keyed(q) /\ Same(ok, TRUE)

release_pending(q, ok) ==
    /\ ok
    /\ claim' = ClearedPending(q)
    /\ UNCHANGED <<record, audit, res, usage>>

(* expire_pending_quota and recover_expired_dispatched_quota. *)
Swept ==
    [p \in Requests |-> CASE res[p].expired /\ res[p].state = "pending" -> Released(Refunded(res[p]))
                          [] res[p].expired /\ res[p].state = "dispatched" -> Settled(res[p])
                          [] OTHER -> res[p]]

(* Mutant: a recovered call is not metered. *)
Recovered_unmetered == {}

Recovered == {<<"recovery", p>> : p \in {r \in Requests : res[r].expired /\ res[r].state = "dispatched"}}

(* Mutant: the request itself is not counted. *)
Projected_others ==
    Cardinality(usage \cup Recovered) + Cardinality({p \in Requests : Swept[p].state \in Active})

(* usage_snapshot, after the sweep. *)
Projected ==
    Cardinality(usage \cup Recovered) + Cardinality({p \in Requests : Swept[p].state \in Active}) + 1

(* created_at counts the reservations. *)
Made == {p \in Requests : res[p].state # "none"}

(* reserve; what it swept is kept when the request is denied. *)
reserve(q, ok) ==
    /\ ok = (HardLimit > 0 => Projected <= HardLimit)
    /\ usage' = usage \cup Recovered
    /\ res' = IF ok THEN [Swept EXCEPT ![q] = [NoReservation EXCEPT !.state = "pending", !.at = Cardinality(Made) + 1]]
              ELSE Swept
    /\ UNCHANGED <<claim, record, audit>>

(* bind_reservation_identity. *)
bind(q, ok) ==
    \/ /\ Keyed(q) /\ res[q].state \in Active /\ ok
       /\ res' = [res EXCEPT ![q].bound = TRUE]
       /\ UNCHANGED <<claim, record, audit, usage>>
    \/ Keyed(q) /\ res[q].state \notin Active /\ Same(ok, FALSE)
    \/ ~Keyed(q) /\ Same(ok, TRUE)

MayDispatch(q) ==
    /\ res[q].state = "pending" /\ ~res[q].expired
    /\ Keyed(q) => Holds(q) /\ ~claim[Key[q]].expired /\ ~claim[Key[q]].dispatched

(* mark_dispatched_checked_with_reservation.  A reservation that is        *)
(* dispatched already is left as it is.                                    *)
mark_dispatched(q, ok) ==
    \/ /\ MayDispatch(q) /\ ok
       /\ claim' = IF Keyed(q) THEN [claim EXCEPT ![Key[q]].dispatched = TRUE] ELSE claim
       /\ res' = [res EXCEPT ![q].state = "dispatched"]
       /\ UNCHANGED <<record, audit, usage>>
    \/ ~MayDispatch(q) /\ Same(ok, res[q].state = "dispatched" /\ (Keyed(q) => Holds(q)))

(* release_quota_reservation with allow_dispatched.  The claim goes if the *)
(* call is to clear it and the reservation was active, or if it was never  *)
(* dispatched.                                                             *)
release_quota_reservation(q, clear_claim, refund_charges, ok) ==
    LET active == res[q].state \in Active
    IN  /\ ok
        /\ res' = [res EXCEPT ![q] = CASE active /\ refund_charges -> Released(Refunded(res[q]))
                                       [] active /\ ~refund_charges -> Released(res[q])
                                       [] OTHER -> res[q]]
        /\ claim' = IF clear_claim /\ active THEN Cleared(q) ELSE ClearedPending(q)
        /\ UNCHANGED <<record, audit, usage>>

(* write_usage: the event's key is the request, so it is written once. *)
Metered(q) == usage \cup {<<"action", q>>}

(* finish_with_reservation with an output.  (With an error code it only    *)
(* writes the log.)                                                        *)
finish_success(q, ok) ==
    LET known == ~Owned(q) /\ res[q].state = "settled" /\ record[Key[q]] # None
        good  == Owned(q) /\ res[q].state \in {"dispatched", "settled"}
    IN  \/ /\ good /\ ok
           /\ record' = IF Keyed(q) /\ record[Key[q]] = None THEN [record EXCEPT ![Key[q]] = q] ELSE record
           /\ usage' = IF res[q].state = "dispatched" THEN Metered(q) ELSE usage
           /\ res' = [res EXCEPT ![q] = Settled(res[q])]
           /\ claim' = Cleared(q)
           /\ UNCHANGED audit
        \/ ~good /\ Same(ok, known)

(* finish_not_dispatched_with_reservation. *)
finish_not_dispatched(q, ok) ==
    LET good == Owned(q) /\ res[q].state = "dispatched"
    IN  \/ /\ good /\ ok
           /\ res' = [res EXCEPT ![q] = Released(Refunded(res[q]))]
           /\ claim' = Cleared(q)
           /\ UNCHANGED <<record, audit, usage>>
        \/ ~good /\ Same(ok, FALSE)

(* finish_read_failure_with_reservation. *)
finish_read_failure(q, ok) ==
    LET good == Owned(q) /\ res[q].state # "pending"
    IN  \/ /\ good /\ ok
           /\ usage' = IF res[q].state = "dispatched" THEN Metered(q) ELSE usage
           /\ res' = IF res[q].state = "dispatched" THEN [res EXCEPT ![q] = Settled(res[q])] ELSE res
           /\ claim' = Cleared(q)
           /\ UNCHANGED <<record, audit>>
        \/ ~good /\ Same(ok, FALSE)

(* The reservation that finish_read_timeout takes for the request's own:   *)
(* the newest active one of the key that is bound to it or to nobody.      *)
Candidates(q) ==
    {p \in Requests : /\ Key[p] = Key[q]
                      /\ res[p].state \in Active
                      /\ p = q \/ ~res[p].bound}

Newest(q) == {p \in Candidates(q) : \A o \in Candidates(q) : res[o].at <= res[p].at}

(* finish_read_timeout, from its locks on: it goes by the state it         *)
(* selected and the outcome of the attempts; its updates have no effect on *)
(* a reservation that has left that state.                                 *)
finish_read_timeout(q, ok) ==
    LET served(r) == r.state = "dispatched" /\ claim[Key[q]].dispatched /\ exec[q].outcome # "NotDispatched"
        settle    == {r.of : r \in {s \in exec[q].seen : served(s)}}
        release   == {r.of : r \in exec[q].seen} \ settle
    IN  \/ /\ Holds(q) /\ ok
           /\ res' = [p \in Requests |->
                CASE p \in settle /\ res[p].state = "dispatched" -> Settled(res[p])
                  [] p \in release /\ res[p].state \in Active -> Released(Refunded(res[p]))
                  [] p \in release /\ res[p].state \notin Active -> Refunded(res[p])
                  [] OTHER -> res[p]]
           /\ usage' = IF settle # {} THEN Metered(q) ELSE usage
           /\ claim' = Cleared(q)
           /\ UNCHANGED <<record, audit>>
        \/ ~Holds(q) /\ Same(ok, TRUE)

call(c, q, ok) ==
    \/ c = "acquire" /\ acquire(q, ok)
    \/ c = "release_pending" /\ release_pending(q, ok)
    \/ c = "reserve" /\ reserve(q, ok)
    \/ c = "bind" /\ bind(q, ok)
    \/ c = "mark_dispatched" /\ mark_dispatched(q, ok)
    \/ c = "release_not_dispatched" /\ release_quota_reservation(q, TRUE, TRUE, ok)
    \/ c = "release_quota" /\ release_quota_reservation(q, FALSE, FALSE, ok)
    \/ c = "finish_success" /\ finish_success(q, ok)
    \/ c = "finish_not_dispatched" /\ finish_not_dispatched(q, ok)
    \/ c = "finish_read_failure" /\ finish_read_failure(q, ok)
    \/ c = "finish_read_timeout" /\ finish_read_timeout(q, ok)

----------------------------------------------------------------------------
(* The execution of a request: execute_inner and dispatch.                 *)

(* Where the execution goes from a call. *)
After(q, c, ok) ==
    CASE c = "acquire" /\ ok -> "prepare"
      [] c = "reserve" -> IF ok THEN "bind" ELSE "release_pending"
      [] c = "bind" -> IF ok THEN "mark_dispatched" ELSE "release_not_dispatched"
      [] c = "mark_dispatched" -> IF ok THEN "send" ELSE "release_not_dispatched"
      [] c = "release_not_dispatched" /\ ok -> "release_pending"
      [] c = "release_quota" /\ ok /\ q \in ReadOnly -> "finish_read_failure"
      [] OTHER -> "over"

Goto(q, place) == exec' = [exec EXCEPT ![q].at = place, ![q].begun = FALSE, ![q].seen = {}]

(* finish_read_timeout may go on from its locks. *)
Ready(q, c) == (c = "finish_read_timeout") = exec[q].begun

(* The call is made and answered. *)
Returns(q) ==
    /\ Ready(q, exec[q].at)
    /\ \E ok \in BOOLEAN : call(exec[q].at, q, ok) /\ Goto(q, After(q, exec[q].at, ok))
    /\ UNCHANGED effect

(* The call fails: the project is disabled, the connection has changed, a  *)
(* send or account limit is reached, or the database is unavailable.       *)
Fails(q) ==
    /\ exec[q].at \in Calls
    /\ Goto(q, After(q, exec[q].at, FALSE))
    /\ UNCHANGED <<database, effect>>

(* The call has committed when the connection to the database breaks. *)
AnswerLost(q) ==
    /\ Ready(q, exec[q].at)
    /\ \E ok \in BOOLEAN : call(exec[q].at, q, ok)
    /\ Goto(q, After(q, exec[q].at, FALSE))
    /\ UNCHANGED effect

(* A call is carried out after its request has been dropped.  The calls of *)
(* a request share one connection, behind a mutex.                         *)
Late(q) ==
    \E c \in exec[q].late :
        /\ Ready(q, c)
        /\ \E ok \in BOOLEAN : call(c, q, ok)
        /\ exec' = [exec EXCEPT ![q].late = @ \ {c}, ![q].begun = FALSE, ![q].seen = {}]
        /\ UNCHANGED effect

(* finish_read_timeout, up to its locks. *)
select_reservation(q) ==
    /\ "finish_read_timeout" \in exec[q].late \cup {exec[q].at}
    /\ ~exec[q].begun
    /\ exec' = [exec EXCEPT ![q].begun = TRUE,
                            ![q].seen = {[of |-> p, state |-> res[p].state] : p \in Newest(q)}]
    /\ UNCHANGED <<database, effect>>

(* prepare (the circuit, credentials, policy and input checks) and         *)
(* prepare_replay.                                                         *)
prepare(q) ==
    /\ exec[q].at = "prepare"
    /\ \E next \in {"reserve", "release_pending"} : Goto(q, next)
    /\ UNCHANGED <<database, effect>>

Worse(old, new) == IF old = "done" \/ new = "none" THEN old ELSE new

(* begin_attempt: the runner is called; `hit` is what comes of it at the   *)
(* provider, whether or not anybody learns of it.                          *)
begin_attempt(q) ==
    /\ exec[q].at = "send"
    /\ \E hit \in Hits :
        /\ exec' = [exec EXCEPT ![q].at = "run", ![q].tries = @ + 1, ![q].hit = hit,
                                ![q].prior = exec[q].outcome, ![q].outcome = "Unknown"]
        /\ effect' = [effect EXCEPT ![q] = Worse(@, hit)]
    /\ UNCHANGED database

(* Mutant: the last attempt decides. *)
combine_last(prior, current) == current

combine(prior, current) ==
    IF "Unknown" \in {prior, current} THEN "Unknown"
    ELSE IF "ResponseReceived" \in {prior, current} THEN "ResponseReceived"
    ELSE "NotDispatched"

finish_attempt(q, outcome, place) ==
    exec' = [exec EXCEPT ![q].at = place, ![q].outcome = outcome,
                         ![q].tries = IF place = "send" THEN @ ELSE 0,
                         ![q].prior = "NotDispatched", ![q].hit = "none"]

(* The runner returns an output, which is valid or not. *)
Answered(q) ==
    /\ exec[q].at = "run" /\ exec[q].hit = "done"
    /\ \E place \in {"record_replay", IF q \in ReadOnly THEN "finish_read_failure" ELSE "over"} :
        finish_attempt(q, combine(exec[q].prior, "ResponseReceived"), place)
    /\ UNCHANGED <<database, effect>>

attempts(q) == IF q \in ReadOnly THEN Tries ELSE 1

(* Where the execution goes from a last attempt that failed. *)
AfterFailure(q, outcome) ==
    CASE outcome = "NotDispatched" -> "finish_not_dispatched"
      [] outcome = "ResponseReceived" -> "release_quota"
      [] outcome = "Unknown" -> "over"

(* runner_error_outcome: a failure counts as NotDispatched only if it was  *)
(* raised before the handler of the action started.  A refusal by the      *)
(* provider says nothing of the requests that the action made before.      *)
MayReport(outcome, hit) == outcome = "NotDispatched" => hit = "none"

(* The runner returns a failure, which is transient or not. *)
Failed(q) ==
    /\ exec[q].at = "run"
    /\ \E o \in Outcomes, transient \in BOOLEAN :
        LET outcome == combine(exec[q].prior, o)
        IN  /\ MayReport(o, exec[q].hit)
            /\ finish_attempt(q, outcome, IF transient /\ exec[q].tries < attempts(q)
                                          THEN "send" ELSE AfterFailure(q, outcome))
    /\ UNCHANGED <<database, effect>>

record_replay(q) ==
    /\ exec[q].at = "record_replay"
    /\ \E next \in {"finish_success", "over"} : Goto(q, next)
    /\ UNCHANGED <<database, effect>>

(* The call in flight, if any, may have been started when a request is     *)
(* dropped.                                                                *)
Drop(q, place) ==
    /\ \E started \in SUBSET ({exec[q].at} \cap Calls) :
        /\ exec[q].begun => started # {}
        /\ exec' = [exec EXCEPT ![q].at = place, ![q].late = @ \cup started,
                                ![q].tries = 0, ![q].prior = "NotDispatched", ![q].hit = "none"]
    /\ UNCHANGED <<database, effect>>

(* The timeout around dispatch; finish_read_timeout does nothing for a     *)
(* request without a key.                                                  *)
deadline(q) ==
    /\ exec[q].at \notin {"acquire", "finish_read_timeout", "over"}
    /\ Drop(q, IF q \in ReadOnly /\ Keyed(q) THEN "finish_read_timeout" ELSE "over")

(* The client has gone, or the process has died. *)
Abandon(q) == exec[q].at # "over" /\ Drop(q, "over")

----------------------------------------------------------------------------
(* Leases and reservations run out. *)

LeaseExpires(k) ==
    /\ claim[k] # None /\ ~claim[k].expired
    /\ claim' = [claim EXCEPT ![k].expired = TRUE]
    /\ UNCHANGED <<record, audit, res, usage, exec, effect>>

ReservationExpires(q) ==
    /\ res[q].state \in Active /\ ~res[q].expired
    /\ res' = [res EXCEPT ![q].expired = TRUE]
    /\ UNCHANGED <<claim, record, audit, usage, exec, effect>>

----------------------------------------------------------------------------
(* reconcile_action_claim: the operator resolves a dispatched claim whose  *)
(* lease has run out, from what is known of the provider.                  *)

(* load_reservation: no other reservation of the key is active. *)
Alone(q) == \A p \in Requests \ {q} : Key[p] = Key[q] => res[p].state \notin Active

Reconcilable(q) ==
    /\ Holds(q)
    /\ record[Key[q]] = None /\ audit[Key[q]] = None
    /\ claim[Key[q]].dispatched /\ claim[Key[q]].expired
    /\ Alone(q) /\ res[q].bound

(* The operator's evidence (external): what the request did, once it can   *)
(* do no more.                                                             *)
Evidence(q, hit) == exec[q].at \notin {"send", "run"} /\ effect[q] = hit

proven_not_dispatched(q) ==
    /\ Reconcilable(q) /\ Evidence(q, "none")
    /\ res[q].state # "settled"
    /\ res' = [res EXCEPT ![q] = Released(Refunded(@))]
    /\ claim' = Cleared(q)
    /\ UNCHANGED <<record, audit, usage, exec, effect>>

provider_succeeded(q) ==
    /\ Reconcilable(q) /\ Evidence(q, "done")
    /\ res[q].state \in {"dispatched", "settled"}
    /\ usage' = Metered(q)
    /\ res' = [res EXCEPT ![q] = Settled(@)]
    /\ audit' = [audit EXCEPT ![Key[q]] = "succeeded"]
    /\ UNCHANGED <<claim, record, exec, effect>>

provider_failed(q) ==
    /\ Reconcilable(q) /\ Evidence(q, "failed")
    /\ res[q].state # "settled"
    /\ res' = [res EXCEPT ![q] = Released(@)]
    /\ audit' = [audit EXCEPT ![Key[q]] = "failed"]
    /\ UNCHANGED <<claim, record, usage, exec, effect>>

----------------------------------------------------------------------------
Step(q) ==
    \/ Returns(q)
    \/ Fails(q)
    \/ AnswerLost(q)
    \/ Late(q)
    \/ select_reservation(q)
    \/ prepare(q)
    \/ begin_attempt(q)
    \/ Answered(q)
    \/ Failed(q)
    \/ record_replay(q)
    \/ deadline(q)
    \/ Abandon(q)
    \/ ReservationExpires(q)

Reconcile(q) ==
    \/ proven_not_dispatched(q)
    \/ provider_succeeded(q)
    \/ provider_failed(q)

Next ==
    \/ \E q \in Requests : Step(q) \/ Reconcile(q)
    \/ \E k \in Keys : LeaseExpires(k)

Spec == Init /\ [][Next]_vars

----------------------------------------------------------------------------
(* Properties. *)

(* A mutation that has reached the provider is fenced for good: its own    *)
(* dispatched claim holds the key, or its output is kept under it.         *)
DispatchFence ==
    \A q \in Requests \ ReadOnly :
        Keyed(q) /\ effect[q] # "none" =>
            \/ Holds(q) /\ claim[Key[q]].dispatched
            \/ record[Key[q]] = q

(* Of all mutations with one key, at most one reaches the provider. *)
SingleEffect ==
    \A p, q \in Requests \ ReadOnly :
        Keyed(p) /\ Key[p] = Key[q] /\ effect[p] # "none" /\ effect[q] # "none" => p = q

Charged(q) == \E kind \in {"action", "recovery"} : <<kind, q>> \in usage

(* A settled reservation is metered, and so is a request whose output is   *)
(* kept.  A metered one is settled, but for a read that the operator has   *)
(* declared failed while finish_read_timeout waited for its locks.         *)
Ledger ==
    /\ \A q \in Requests : res[q].state = "settled" => Charged(q)
    /\ \A q \in Requests : Charged(q) => \/ res[q].state = "settled"
                                         \/ q \in ReadOnly /\ Keyed(q) /\ audit[Key[q]] = "failed"
    /\ \A k \in Keys : record[k] # None => res[record[k]].state = "settled"

(* Charges are refunded only of a request that never reached the provider. *)
RefundedNeverRan == \A q \in Requests : res[q].refunded => effect[q] = "none"

(* The reservations that are active or settled stay within the hard limit, *)
(* also as calls are recovered, refunded and reconciled.                   *)
Quota ==
    HardLimit > 0 =>
        Cardinality({q \in Requests : res[q].state \in Active \cup {"settled"}}) <= HardLimit

(* Once the outcome of a key is known, no request with it reaches the      *)
(* provider any more.                                                      *)
KnownIsFinal ==
    [][\A q \in Requests : Keyed(q) /\ (record[Key[q]] # None \/ audit[Key[q]] # None)
                                => effect'[q] = effect[q]]_vars

(* recover_expired_dispatched_quota: a recovered call is charged once. *)
UsageOnce == \A q \in Requests : ~({<<"action", q>>, <<"recovery", q>>} \subseteq usage)
============================================================================
