------------------------------- MODULE Events -------------------------------
(***************************************************************************)
(* Webhook events (appcall-events): their acceptance, the outbox that      *)
(* turns them into sync jobs and usage, replay, and the event stream of    *)
(* appcall-api.                                                            *)
(*                                                                         *)
(* The events are those of one connection, which is Binding: other parts   *)
(* of the system change it at any time.  An event is named by its          *)
(* stream_position, which a sequence hands out at the INSERT; the row is   *)
(* visible to others from the COMMIT on.  The owner of the connection      *)
(* (external_account_id) does not change, and every row has the columns of *)
(* the last migration.                                                     *)
(***************************************************************************)
EXTENDS Binding, FiniteSets

CONSTANTS
    Receivers,      \* requests of the webhook route
    Keys,           \* idempotency keys of the provider
    NoKey,          \* "": the provider sends none
    MaxEvents,      \* bound: values of the sequence
    MaxDispatch,    \* attempts of an outbox row (10)
    MaxReplays      \* bound: replays

ASSUME EventsAssumption ==
    /\ NoKey \notin Keys
    /\ {MaxEvents, MaxDispatch, MaxGeneration, MaxSecret} \subseteq Nat \ {0}
    /\ MaxReplays \in Nat

VARIABLES
    last,           \* the sequence
    event,          \* webhook_events with webhook_outbox, by position
    future,         \* positions whose next_attempt_at lies ahead
    jobs,           \* sync_jobs scheduled: <<position, 0>>, or n of its replay n
    usage,          \* usage_events of kind webhook_event, by position
    receiver,       \* in memory: what each request is doing
    replays,        \* number of replays
    cursor,         \* id of the last frame that the client of the stream has
    page,           \* in memory: the frames of the stream not yet delivered
    seen            \* history: events the client has got

outbox == <<event, future, jobs, usage>>
stream == <<cursor, page, seen>>
vars == <<connection, last, outbox, receiver, replays, stream>>

Positions == 1..MaxEvents

(* "inserted" is not committed. *)
Event == [status : {"absent", "inserted", "pending", "dispatched", "dead_letter"},
          key : Keys \cup {NoKey}, generation : 0..MaxGeneration,
          kind : {"sync", "event_only"}, attempts : 0..MaxDispatch]

(* row: whether the connection's row is still the one that was read, that  *)
(* is, whether connection_revision is; generation: the one that was read.  *)
Receiver == [at : {"idle", "verifying", "inserted"}, row : {"same", "updated"},
             generation : 0..MaxGeneration, position : 0..MaxEvents]

TypeOK ==
    /\ status \in Statuses
    /\ secret \in 0..MaxSecret
    /\ generation \in 1..MaxGeneration
    /\ account \in 1..MaxGeneration
    /\ last \in 0..MaxEvents
    /\ event \in [Positions -> Event]
    /\ future \subseteq Positions
    /\ jobs \subseteq Positions \X (0..MaxReplays)
    /\ usage \subseteq Positions
    /\ receiver \in [Receivers -> Receiver]
    /\ replays \in 0..MaxReplays
    /\ cursor \in 0..MaxEvents
    /\ page \subseteq Positions
    /\ seen \subseteq Positions

NoEvent == [status |-> "absent", key |-> NoKey, generation |-> 0, kind |-> "event_only", attempts |-> 0]

Idle == [at |-> "idle", row |-> "updated", generation |-> 0, position |-> 0]

Init ==
    /\ BindingInit /\ secret = 1
    /\ last = 0
    /\ event = [p \in Positions |-> NoEvent]
    /\ future = {}
    /\ jobs = {}
    /\ usage = {}
    /\ receiver = [r \in Receivers |-> Idle]
    /\ replays = 0
    /\ cursor = 0
    /\ page = {}
    /\ seen = {}

Committed(p) == event[p].status \in {"pending", "dispatched", "dead_letter"}

----------------------------------------------------------------------------
(* ingest, and the webhook route: the row of the connection is read, the   *)
(* runner verifies and parses the request, and the event is accepted.      *)

(* The advisory lock on the project, and the locked row of the connection. *)
Unlocked == \A r \in Receivers : receiver[r].at # "inserted"

(* get_with_revision, connection_revision_snapshot *)
ReadConnection(r) ==
    /\ receiver[r].at = "idle"
    /\ status = "active"
    /\ receiver' = [receiver EXCEPT ![r] = [at |-> "verifying", row |-> "same",
                                            generation |-> generation, position |-> 0]]
    /\ UNCHANGED <<connection, last, outbox, replays, stream>>

(* Mutant: the revision is not compared. *)
Unchanged_active(r) == status = "active"

(* The row is as it was when the request was let in. *)
Unchanged(r) == status = "active" /\ receiver[r].row = "same"

(* Mutant: only events still in the outbox are looked at. *)
Duplicate_pending(key) ==
    /\ key # NoKey
    /\ \E p \in Positions : event[p].status = "pending" /\ event[p].key = key
                            /\ event[p].generation = generation

Duplicate(key) ==
    /\ key # NoKey
    /\ \E p \in Positions : Committed(p) /\ event[p].key = key /\ event[p].generation = generation

(* accept_checked, up to the COMMIT of a new event. *)
AcceptChecked(r, key, kind) ==
    /\ receiver[r].at = "verifying"
    /\ Unlocked
    /\ Unchanged(r)
    /\ ~Duplicate(key)
    /\ last < MaxEvents
    /\ last' = last + 1
    /\ event' = [event EXCEPT ![last + 1] = [status |-> "inserted", key |-> key, generation |-> generation,
                                             kind |-> kind, attempts |-> 0]]
    /\ receiver' = [receiver EXCEPT ![r] = [at |-> "inserted", row |-> receiver[r].row,
                                            generation |-> receiver[r].generation, position |-> last + 1]]
    /\ UNCHANGED <<connection, future, jobs, usage, replays, stream>>

(* The COMMIT. *)
CommitEvent(r) ==
    LET p == receiver[r].position IN
    /\ receiver[r].at = "inserted"
    /\ event' = [event EXCEPT ![p].status = "pending"]
    /\ receiver' = [receiver EXCEPT ![r] = Idle]
    /\ UNCHANGED <<connection, last, future, jobs, usage, replays, stream>>

(* The request ends without an event: it is not verified, refused, a       *)
(* duplicate, or its process stops.                                        *)
EndRequest(r) ==
    LET p == receiver[r].position IN
    /\ receiver[r].at # "idle"
    /\ event' = IF receiver[r].at = "inserted" THEN [event EXCEPT ![p] = NoEvent] ELSE event
    /\ receiver' = [receiver EXCEPT ![r] = Idle]
    /\ UNCHANGED <<connection, last, future, jobs, usage, replays, stream>>

(* Every update of the connection's row makes another connection_revision. *)
Updated == [r \in Receivers |-> [at |-> receiver[r].at, row |-> "updated",
                                 generation |-> receiver[r].generation,
                                 position |-> receiver[r].position]]

Connect ==
    /\ Unlocked
    /\ BindingNext \/ UNCHANGED connection
    /\ receiver' = Updated
    /\ UNCHANGED <<last, outbox, replays, stream>>

----------------------------------------------------------------------------
(* dispatch_pending: one row of the outbox, in one transaction.            *)

Due(p) == event[p].status = "pending" /\ p \notin future

(* dispatch, in its savepoint. *)
Dispatch(p) ==
    /\ Due(p)
    /\ event[p].kind = "sync" => status = "active"
    /\ jobs' = IF event[p].kind = "sync" THEN jobs \cup {<<p, 0>>} ELSE jobs
    /\ usage' = usage \cup {p}
    /\ event' = [event EXCEPT ![p].status = "dispatched"]
    /\ UNCHANGED <<connection, last, future, receiver, replays, stream>>

(* Mutant: the savepoint is not rolled back. *)
DispatchFails_kept(p) ==
    LET attempts == IF event[p].attempts + 1 < MaxDispatch THEN event[p].attempts + 1 ELSE MaxDispatch IN
    /\ Due(p)
    /\ event' = [event EXCEPT ![p] =
                   [status |-> IF attempts >= MaxDispatch THEN "dead_letter" ELSE "pending",
                    key |-> event[p].key, generation |-> event[p].generation, kind |-> event[p].kind,
                    attempts |-> attempts]]
    /\ future' = IF attempts >= MaxDispatch THEN future ELSE future \cup {p}
    /\ usage' = usage \cup {p}
    /\ UNCHANGED <<connection, last, jobs, receiver, replays, stream>>

(* ... which fails at any of its statements, and is rolled back. *)
DispatchFails(p) ==
    LET attempts == IF event[p].attempts + 1 < MaxDispatch THEN event[p].attempts + 1 ELSE MaxDispatch IN
    /\ Due(p)
    /\ event' = [event EXCEPT ![p] =
                   [status |-> IF attempts >= MaxDispatch THEN "dead_letter" ELSE "pending",
                    key |-> event[p].key, generation |-> event[p].generation, kind |-> event[p].kind,
                    attempts |-> attempts]]
    /\ future' = IF attempts >= MaxDispatch THEN future ELSE future \cup {p}
    /\ UNCHANGED <<connection, last, jobs, usage, receiver, replays, stream>>

(* next_attempt_at is reached. *)
Elapse(p) ==
    /\ p \in future
    /\ future' = future \ {p}
    /\ UNCHANGED <<connection, last, event, jobs, usage, receiver, replays, stream>>

(* replay *)
Replay(p) ==
    /\ replays < MaxReplays
    /\ Committed(p)
    /\ event[p].kind = "sync" /\ status = "active"
    /\ replays' = replays + 1
    /\ jobs' = jobs \cup {<<p, replays + 1>>}
    /\ UNCHANGED <<connection, last, event, future, usage, receiver, stream>>

----------------------------------------------------------------------------
(* The stream of the events of a project (streaming.rs).                   *)

(* poll: the first events after the cursor, up to p. *)
Poll(p) ==
    /\ page = {}
    /\ Committed(p) /\ p > cursor
    /\ page' = {q \in Positions : Committed(q) /\ cursor < q /\ q <= p}
    /\ UNCHANGED <<connection, last, outbox, receiver, replays, cursor, seen>>

(* Mutant: the cursor of the page is sent with its first frame. *)
SendFrame_page(p) ==
    /\ p \in page
    /\ \A q \in page : p <= q
    /\ page' = page \ {p}
    /\ cursor' \in {q \in page : \A o \in page : o <= q}
    /\ seen' = seen \cup {p}
    /\ UNCHANGED <<connection, last, outbox, receiver, replays>>

(* send: the next frame of the page. *)
SendFrame(p) ==
    /\ p \in page
    /\ \A q \in page : p <= q
    /\ page' = page \ {p}
    /\ cursor' = p
    /\ seen' = seen \cup {p}
    /\ UNCHANGED <<connection, last, outbox, receiver, replays>>

(* The stream breaks off: the client resumes it after the last frame that  *)
(* it has got.                                                             *)
Resume ==
    /\ page # {}
    /\ page' = {}
    /\ UNCHANGED <<connection, last, outbox, receiver, replays, cursor, seen>>

(* list: a client begins with the history, and goes on with the stream     *)
(* after the snapshot_cursor of its first page, which is p.                *)
List(p) ==
    /\ page = {}
    /\ Committed(p) /\ \A q \in Positions : Committed(q) => q <= p
    /\ p > cursor
    /\ cursor' = p
    /\ seen' = seen \cup {q \in Positions : Committed(q)}
    /\ UNCHANGED <<connection, last, outbox, receiver, replays, page>>

----------------------------------------------------------------------------

Next ==
    \/ \E r \in Receivers :
        \/ ReadConnection(r) \/ CommitEvent(r) \/ EndRequest(r)
        \/ \E key \in Keys \cup {NoKey}, kind \in {"sync", "event_only"} : AcceptChecked(r, key, kind)
    \/ \E p \in Positions :
        \/ Dispatch(p) \/ DispatchFails(p) \/ Elapse(p) \/ Replay(p)
        \/ Poll(p) \/ SendFrame(p) \/ List(p)
    \/ Connect \/ Resume

Spec == Init /\ [][Next]_vars

(***************************************************************************)
(* Properties.                                                             *)
(***************************************************************************)

(* The provider may deliver a webhook any number of times, to several      *)
(* processes at once, and tokens may be refreshed in between: for a        *)
(* generation of the connection it is accepted once (accept_checked).      *)
AcceptedOnce ==
    \A p, q \in Positions :
        /\ Committed(p) /\ Committed(q)
        /\ event[p].key = event[q].key /\ event[p].key # NoKey
        /\ event[p].generation = event[q].generation
        => p = q

(* An event belongs to the generation for which the request was let in     *)
(* and verified, although the connection may be bound anew during the      *)
(* calls to the runner.                                                    *)
AcceptedAsVerified ==
    \A r \in Receivers :
        receiver[r].at = "inserted" => event[receiver[r].position].generation = receiver[r].generation

(* A client of the stream misses no event: it has got every event up to    *)
(* its cursor, although events are inserted concurrently and become        *)
(* visible only when they are committed, and although the stream may       *)
(* break off at any frame.  (Positions are handed out and committed under  *)
(* the advisory lock of accept_checked.)                                   *)
StreamComplete == \A p \in Positions : Committed(p) /\ p <= cursor => p \in seen

Delivered(p) ==
    /\ p \in usage <=> event[p].status = "dispatched"
    /\ <<p, 0>> \in jobs <=> event[p].status = "dispatched" /\ event[p].kind = "sync"

Counted(p) ==
    /\ p \in future => event[p].status = "pending" /\ event[p].attempts > 0
    /\ event[p].status = "dead_letter" <=> event[p].attempts = MaxDispatch

(* Usage and the sync job of an event come with its dispatch and not       *)
(* otherwise, whatever failed before (Delivered).  Of a failed attempt the *)
(* count is all that is kept: a row that waits for its next attempt has    *)
(* counted one, and it is a dead letter exactly when it has used them up   *)
(* (Counted).                                                              *)
EffectsOfDispatch == \A p \in Positions : Delivered(p) /\ Counted(p)

(* An outbox row that is dispatched or a dead letter is closed: neither a  *)
(* replay, nor a delivery of the same webhook, nor a worker whose query    *)
(* came first opens it again.                                              *)
ClosedIsFinal ==
    [][\A p \in Positions :
        event[p].status \in {"dispatched", "dead_letter"} => event'[p] = event[p]]_vars

============================================================================
