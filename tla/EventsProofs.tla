---------------------------- MODULE EventsProofs ----------------------------
(***************************************************************************)
(* Theorems about module Events, for any requests, keys and bounds.        *)
(***************************************************************************)
EXTENDS Events, TLAPS

(* A generation names one account. *)
Accounts == account = generation

(* The row that a request compares has the generation that it has read. *)
Admitted ==
    \A r \in Receivers :
        /\ receiver[r].at # "idle" /\ receiver[r].row = "same" => receiver[r].generation = generation
        /\ receiver[r].at = "inserted" => /\ receiver[r].row = "same"
                                          /\ receiver[r].position = last
                                          /\ last # 0
                                          /\ event[last].status = "inserted"
                                          /\ event[last].generation = generation

(* One transaction at a time inserts, and what it inserts comes last. *)
Inserting ==
    /\ \A r, s \in Receivers : receiver[r].at = "inserted" /\ receiver[s].at = "inserted" => r = s
    /\ \A p \in Positions : event[p].status = "inserted" => \E r \in Receivers : receiver[r].at = "inserted"
    /\ \A p \in Positions : event[p].status # "absent" => p <= last
    /\ \A p \in Positions : event[p].status = "inserted" => p = last

(* No webhook is there twice, committed or not. *)
Unique ==
    \A p, q \in Positions :
        /\ event[p].status # "absent" /\ event[q].status # "absent"
        /\ event[p].key = event[q].key /\ event[p].key # NoKey
        /\ event[p].generation = event[q].generation
        => p = q

(* The page continues the cursor, which is an event, without a gap. *)
Streaming ==
    /\ cursor # 0 => cursor \in Positions /\ Committed(cursor)
    /\ \A p \in page : Committed(p) /\ cursor < p
    /\ \A p \in page : \A q \in Positions : Committed(q) /\ cursor < q /\ q <= p => q \in page

IInv == /\ TypeOK /\ Accounts /\ Admitted /\ Inserting /\ Unique /\ Streaming
        /\ StreamComplete /\ EffectsOfDispatch

----------------------------------------------------------------------------
(* The invariant holds initially, and is preserved.                        *)

LEMMA InitInvariant == Init => IInv
<1> SUFFICES ASSUME Init PROVE IInv
  OBVIOUS
<1> USE EventsAssumption DEF Init, BindingInit
<1>1. NoEvent \in Event /\ NoEvent.status = "absent" /\ Idle \in Receiver /\ Idle.at = "idle"
  BY DEF NoEvent, Event, Idle, Receiver
<1>2. /\ \A p \in Positions : event[p].status = "absent"
      /\ \A r \in Receivers : receiver[r].at = "idle"
  BY <1>1
<1>3. TypeOK
  BY <1>1 DEF TypeOK, Statuses
<1>4. Accounts /\ Admitted /\ Inserting /\ Unique
  BY <1>2 DEF Accounts, Admitted, Inserting, Unique
<1>5. Streaming /\ StreamComplete /\ \A p \in Positions : Delivered(p)
  BY <1>2 DEF Streaming, StreamComplete, Delivered, Positions
<1>6. \A p \in Positions : Counted(p)
  <2>1. \A p \in Positions : event[p].attempts = 0
    BY DEF NoEvent
  <2>2. QED
    BY <1>2, <2>1 DEF Counted
<1>7. QED
  BY <1>3, <1>4, <1>5, <1>6 DEF IInv, EffectsOfDispatch

(* A request reads the row, or ends without having inserted. *)
LEMMA OnlyReceiver ==
    ASSUME IInv, NEW r \in Receivers, NEW c \in Receiver, receiver' = [receiver EXCEPT ![r] = c],
           receiver[r].at # "inserted", c.at # "inserted",
           c.at # "idle" => c.generation = generation,
           UNCHANGED <<connection, last, outbox, replays, stream>>
    PROVE  IInv'
<1> USE DEF IInv, connection, outbox, stream
<1>1. /\ receiver'[r] = c
      /\ \A s \in Receivers : s # r => receiver'[s] = receiver[s]
      /\ receiver' \in [Receivers -> Receiver]
  BY DEF TypeOK
<1>2. TypeOK' /\ Accounts'
  BY <1>1 DEF TypeOK, Accounts
<1>3. Admitted'
  BY <1>1 DEF Admitted
<1>4. Inserting'
  BY <1>1 DEF Inserting
<1>5. Unique' /\ Streaming' /\ StreamComplete' /\ EffectsOfDispatch'
  BY DEF Unique, Streaming, StreamComplete, EffectsOfDispatch, Delivered, Counted, Committed
<1>6. QED
  BY <1>2, <1>3, <1>4, <1>5

(* The INSERT of a new event. *)
LEMMA Accepting ==
    ASSUME IInv, NEW r \in Receivers, NEW key \in Keys \cup {NoKey}, NEW kind \in {"sync", "event_only"},
           AcceptChecked(r, key, kind)
    PROVE  IInv'
<1> USE DEF IInv
<1> DEFINE e == [status |-> "inserted", key |-> key, generation |-> generation, kind |-> kind, attempts |-> 0]
           c == [at |-> "inserted", row |-> receiver[r].row, generation |-> receiver[r].generation,
                 position |-> last + 1]
<1>1. /\ receiver[r].at = "verifying" /\ Unlocked /\ Unchanged(r) /\ ~Duplicate(key)
      /\ last < MaxEvents /\ last' = last + 1
      /\ event' = [event EXCEPT ![last + 1] = e]
      /\ receiver' = [receiver EXCEPT ![r] = c]
      /\ UNCHANGED <<status, secret, generation, account, future, jobs, usage, replays, cursor, page, seen>>
  BY DEF AcceptChecked, connection, stream
<1>2. last + 1 \in Positions /\ last \in Nat
  BY <1>1, EventsAssumption DEF TypeOK, Positions
<1>3. e \in Event /\ c \in Receiver
  BY <1>2, EventsAssumption DEF TypeOK, Event, Receiver, Positions
<1>4. /\ event'[last + 1] = e
      /\ \A p \in Positions : p # last + 1 => event'[p] = event[p]
      /\ event' \in [Positions -> Event]
  BY <1>1, <1>2, <1>3 DEF TypeOK
<1>5. /\ receiver'[r] = c
      /\ \A s \in Receivers : s # r => receiver'[s] = receiver[s] /\ receiver[s].at # "inserted"
      /\ receiver' \in [Receivers -> Receiver]
  BY <1>1, <1>3 DEF TypeOK, Unlocked
<1>6. /\ event[last + 1].status = "absent"
      /\ \A p \in Positions : event[p].status # "inserted"
  BY <1>1, <1>2 DEF Inserting, Unlocked
<1>7. TypeOK' /\ Accounts'
  BY <1>1, <1>2, <1>4, <1>5 DEF TypeOK, Accounts, Positions
<1>8. Admitted'
  BY <1>1, <1>2, <1>4, <1>5 DEF Admitted, Unchanged
<1>9. Inserting'
  BY <1>1, <1>2, <1>4, <1>5, <1>6 DEF Inserting, Positions
<1>10. Unique'
  <2>1. \A p \in Positions : event[p].status # "absent" => Committed(p)
    BY <1>6 DEF TypeOK, Event, Committed
  <2>2. \A p \in Positions : event[p].status # "absent" /\ event[p].key = key /\ key # NoKey
                               => event[p].generation # generation
    BY <1>1, <2>1 DEF Duplicate
  <2>3. QED
    BY <1>2, <1>4, <2>2 DEF Unique
<1>11. Streaming' /\ StreamComplete'
  <2>1. \A p \in Positions : Committed(p)' <=> Committed(p)
    BY <1>2, <1>4, <1>6 DEF Committed
  <2>2. Streaming'
    BY <1>1, <2>1 DEF Streaming, TypeOK
  <2>3. StreamComplete'
    BY <1>1, <2>1 DEF StreamComplete
  <2>4. QED
    BY <2>2, <2>3
<1>12. EffectsOfDispatch'
  <2>1. ASSUME NEW p \in Positions PROVE Delivered(p)'
    BY <1>1, <1>2, <1>4, <1>6 DEF EffectsOfDispatch, Delivered
  <2>2. ASSUME NEW p \in Positions PROVE Counted(p)'
    BY <1>1, <1>2, <1>4, <1>6, EventsAssumption DEF EffectsOfDispatch, Counted
  <2>3. QED
    BY <2>1, <2>2 DEF EffectsOfDispatch
<1>13. QED
  BY <1>7, <1>8, <1>9, <1>10, <1>11, <1>12

(* The COMMIT: what becomes visible lies behind every cursor. *)
LEMMA Committing ==
    ASSUME IInv, NEW r \in Receivers, CommitEvent(r)
    PROVE  IInv'
<1> USE DEF IInv
<1>1. /\ receiver[r].at = "inserted"
      /\ event' = [event EXCEPT ![last].status = "pending"]
      /\ receiver' = [receiver EXCEPT ![r] = Idle]
      /\ UNCHANGED <<status, secret, generation, account, last, future, jobs, usage, replays, cursor, page, seen>>
  BY DEF CommitEvent, connection, stream, Admitted
<1>2. last \in Positions /\ event[last].status = "inserted"
  BY <1>1 DEF Admitted, TypeOK, Positions
<1>3. /\ event'[last] = [event[last] EXCEPT !.status = "pending"]
      /\ \A p \in Positions : p # last => event'[p] = event[p]
  BY <1>1, <1>2 DEF TypeOK
<1>4. /\ event'[last].status = "pending" /\ event'[last].key = event[last].key
      /\ event'[last].generation = event[last].generation /\ event'[last].kind = event[last].kind
      /\ event'[last] \in Event
  BY <1>2, <1>3 DEF TypeOK, Event
<1>5. event' \in [Positions -> Event]
  BY <1>1, <1>2, <1>3, <1>4 DEF TypeOK
<1>6. Idle \in Receiver /\ Idle.at = "idle"
  BY EventsAssumption DEF Idle, Receiver
<1>7. /\ receiver'[r] = Idle
      /\ \A s \in Receivers : s # r => receiver'[s] = receiver[s] /\ receiver[s].at # "inserted"
      /\ receiver' \in [Receivers -> Receiver]
  BY <1>1, <1>6 DEF TypeOK, Inserting
<1>8. TypeOK' /\ Accounts'
  BY <1>1, <1>5, <1>7 DEF TypeOK, Accounts
<1>9. Admitted'
  BY <1>1, <1>6, <1>7 DEF Admitted
<1>10. Inserting'
  BY <1>1, <1>2, <1>3, <1>4, <1>6, <1>7 DEF Inserting
<1>11. Unique'
  <2>1. \A p \in Positions : /\ event'[p].key = event[p].key /\ event'[p].generation = event[p].generation
                             /\ event'[p].status = "absent" <=> event[p].status = "absent"
    BY <1>2, <1>3, <1>4
  <2>2. QED
    BY <2>1 DEF Unique
<1>12. \A p \in Positions : IF p = last THEN ~Committed(p) /\ Committed(p)' ELSE Committed(p)' <=> Committed(p)
  BY <1>1, <1>2, <1>3, <1>4 DEF Committed
<1>13. /\ cursor < last
       /\ \A p \in page : p < last
  BY <1>1, <1>2, <1>12 DEF Streaming, Inserting, Committed, TypeOK, Positions
<1>14. Streaming'
  BY <1>1, <1>12, <1>13 DEF Streaming, TypeOK, Positions
<1>15. StreamComplete'
  BY <1>1, <1>12, <1>13 DEF StreamComplete, TypeOK, Positions
<1>16. EffectsOfDispatch'
  <2>1. ASSUME NEW p \in Positions PROVE Delivered(p)'
    BY <1>1, <1>2, <1>3, <1>4 DEF EffectsOfDispatch, Delivered
  <2>2. event'[last].attempts = event[last].attempts
    BY <1>2, <1>3 DEF TypeOK, Event
  <2>3. ASSUME NEW p \in Positions PROVE Counted(p)'
    BY <1>1, <1>2, <1>3, <1>4, <2>2 DEF EffectsOfDispatch, Counted
  <2>4. QED
    BY <2>1, <2>3 DEF EffectsOfDispatch
<1>17. QED
  BY <1>8, <1>9, <1>10, <1>11, <1>14, <1>15, <1>16

(* The ROLLBACK. *)
LEMMA Aborting ==
    ASSUME IInv, NEW r \in Receivers, EndRequest(r), receiver[r].at = "inserted"
    PROVE  IInv'
<1> USE DEF IInv
<1>1. /\ event' = [event EXCEPT ![last] = NoEvent]
      /\ receiver' = [receiver EXCEPT ![r] = Idle]
      /\ UNCHANGED <<status, secret, generation, account, last, future, jobs, usage, replays, cursor, page, seen>>
  BY DEF EndRequest, connection, stream, Admitted
<1>2. last \in Positions /\ event[last].status = "inserted"
  BY DEF Admitted, TypeOK, Positions
<1>3. /\ NoEvent \in Event /\ NoEvent.status = "absent"
      /\ Idle \in Receiver /\ Idle.at = "idle"
  BY EventsAssumption DEF NoEvent, Event, Idle, Receiver
<1>4. /\ event'[last] = NoEvent
      /\ \A p \in Positions : p # last => event'[p] = event[p]
      /\ event' \in [Positions -> Event]
  BY <1>1, <1>2, <1>3 DEF TypeOK
<1>5. /\ receiver'[r] = Idle
      /\ \A s \in Receivers : s # r => receiver'[s] = receiver[s] /\ receiver[s].at # "inserted"
      /\ receiver' \in [Receivers -> Receiver]
  BY <1>1, <1>3 DEF TypeOK, Inserting
<1>6. TypeOK' /\ Accounts'
  BY <1>1, <1>4, <1>5 DEF TypeOK, Accounts
<1>7. Admitted'
  BY <1>1, <1>3, <1>5 DEF Admitted
<1>8. Inserting'
  BY <1>1, <1>2, <1>3, <1>4, <1>5 DEF Inserting
<1>9. Unique'
  BY <1>2, <1>3, <1>4 DEF Unique
<1>10. \A p \in Positions : Committed(p)' <=> Committed(p)
  BY <1>2, <1>3, <1>4 DEF Committed
<1>11. Streaming' /\ StreamComplete'
  BY <1>1, <1>10 DEF Streaming, StreamComplete, TypeOK
<1>12. EffectsOfDispatch'
  <2>1. ASSUME NEW p \in Positions PROVE Delivered(p)'
    BY <1>1, <1>2, <1>3, <1>4 DEF EffectsOfDispatch, Delivered
  <2>2. NoEvent.attempts = 0
    BY DEF NoEvent
  <2>3. ASSUME NEW p \in Positions PROVE Counted(p)'
    BY <1>1, <1>2, <1>3, <1>4, <2>2, EventsAssumption DEF EffectsOfDispatch, Counted
  <2>4. QED
    BY <2>1, <2>3 DEF EffectsOfDispatch
<1>13. QED
  BY <1>6, <1>7, <1>8, <1>9, <1>11, <1>12

(* The connection changes, or only its row does. *)
LEMMA Connecting ==
    ASSUME IInv, Connect
    PROVE  IInv'
<1> USE DEF IInv
<1>1. /\ Unlocked
      /\ BindingNext \/ UNCHANGED connection
      /\ receiver' = Updated
      /\ UNCHANGED <<last, event, future, jobs, usage, replays, cursor, page, seen>>
  BY DEF Connect, outbox, stream
<1>2. /\ receiver' \in [Receivers -> Receiver]
      /\ \A r \in Receivers : receiver'[r].at = receiver[r].at /\ receiver'[r].row = "updated"
  BY <1>1 DEF Updated, TypeOK, Receiver
<1>3. TypeOK' /\ Accounts'
  <2>1. /\ status' \in Statuses /\ secret' \in 0..MaxSecret
        /\ generation' \in 1..MaxGeneration /\ account' = generation'
    BY <1>1, EventsAssumption DEF TypeOK, Accounts, connection, BindingNext, BeginRefresh, FinishRefresh, Deactivate,
       Rebind, Statuses
  <2>2. QED
    BY <1>1, <1>2, <2>1 DEF TypeOK, Accounts
<1>4. Admitted' /\ Inserting'
  BY <1>1, <1>2 DEF Admitted, Inserting, Unlocked
<1>5. Unique' /\ Streaming' /\ StreamComplete' /\ EffectsOfDispatch'
  BY <1>1 DEF Unique, Streaming, StreamComplete, EffectsOfDispatch, Delivered, Counted, Committed
<1>6. QED
  BY <1>3, <1>4, <1>5

(* A committed event goes on in the outbox. *)
LEMMA Outgoing ==
    ASSUME IInv, NEW p \in Positions, event[p].status = "pending",
           NEW e \in Event, event' = [event EXCEPT ![p] = e],
           e.status \in {"pending", "dispatched", "dead_letter"},
           e.key = event[p].key, e.generation = event[p].generation, e.kind = event[p].kind,
           future' \subseteq Positions, jobs' \subseteq Positions \X (0..MaxReplays), usage' \subseteq Positions,
           p \in usage' <=> e.status = "dispatched",
           <<p, 0>> \in jobs' <=> e.status = "dispatched" /\ e.kind = "sync",
           p \in future' => e.status = "pending" /\ e.attempts > 0,
           e.status = "dead_letter" <=> e.attempts = MaxDispatch,
           \A q \in Positions : q # p => (q \in usage' <=> q \in usage) /\ (<<q, 0>> \in jobs' <=> <<q, 0>> \in jobs),
           \A q \in Positions : q # p => (q \in future' => q \in future),
           UNCHANGED <<connection, last, receiver, replays, stream>>
    PROVE  IInv'
<1> USE DEF IInv, connection, stream
<1>1. /\ event'[p] = e
      /\ \A q \in Positions : q # p => event'[q] = event[q]
      /\ event' \in [Positions -> Event]
  BY DEF TypeOK
<1>2. TypeOK' /\ Accounts'
  BY <1>1 DEF TypeOK, Accounts
<1>3. \A q \in Positions : /\ event'[q].key = event[q].key /\ event'[q].generation = event[q].generation
                           /\ event'[q].status = "absent" <=> event[q].status = "absent"
                           /\ event'[q].status = "inserted" <=> event[q].status = "inserted"
                           /\ Committed(q)' <=> Committed(q)
  BY <1>1 DEF Committed
<1>4. Admitted'
  BY <1>3 DEF Admitted, TypeOK, Positions
<1>5. Inserting' /\ Unique'
  BY <1>3 DEF Inserting, Unique
<1>6. Streaming' /\ StreamComplete'
  BY <1>3 DEF Streaming, StreamComplete, TypeOK
<1>7. EffectsOfDispatch'
  <2>1. ASSUME NEW q \in Positions PROVE Delivered(q)'
    BY <1>1 DEF EffectsOfDispatch, Delivered
  <2>2. ASSUME NEW q \in Positions PROVE Counted(q)'
    BY <1>1 DEF EffectsOfDispatch, Counted
  <2>3. QED
    BY <2>1, <2>2 DEF EffectsOfDispatch
<1>8. QED
  BY <1>2, <1>4, <1>5, <1>6, <1>7

LEMMA Dispatching ==
    ASSUME IInv, NEW p \in Positions, Dispatch(p)
    PROVE  IInv'
<1> USE DEF IInv
<1> DEFINE e == [event[p] EXCEPT !.status = "dispatched"]
<1>1. /\ event[p].status = "pending" /\ p \notin future /\ event' = [event EXCEPT ![p] = e]
      /\ jobs' = IF event[p].kind = "sync" THEN jobs \cup {<<p, 0>>} ELSE jobs
      /\ usage' = usage \cup {p}
      /\ UNCHANGED <<connection, last, future, receiver, replays, stream>>
  BY DEF Dispatch, Due
<1>2. /\ e \in Event /\ e.status = "dispatched"
      /\ e.key = event[p].key /\ e.generation = event[p].generation /\ e.kind = event[p].kind
  BY DEF TypeOK, Event
<1>3. ~(<<p, 0>> \in jobs)
  BY <1>1 DEF EffectsOfDispatch, Delivered
<1>4. jobs' \subseteq Positions \X (0..MaxReplays) /\ usage' \subseteq Positions
  BY <1>1, EventsAssumption DEF TypeOK
<1>5. <<p, 0>> \in jobs' <=> e.kind = "sync"
  BY <1>1, <1>2, <1>3
<1>6. \A q \in Positions : q # p => (q \in usage' <=> q \in usage) /\ (<<q, 0>> \in jobs' <=> <<q, 0>> \in jobs)
  BY <1>1
<1>7. future' \subseteq Positions
  BY <1>1 DEF TypeOK
<1>8. e.attempts = event[p].attempts /\ event[p].attempts # MaxDispatch
  BY <1>1 DEF EffectsOfDispatch, Counted, TypeOK, Event
<1> HIDE DEF e
<1>9. QED
  BY <1>1, <1>2, <1>4, <1>5, <1>6, <1>7, <1>8, Outgoing

LEMMA NotDispatching ==
    ASSUME IInv, NEW p \in Positions, DispatchFails(p)
    PROVE  IInv'
<1> USE DEF IInv
<1> DEFINE n == IF event[p].attempts + 1 < MaxDispatch THEN event[p].attempts + 1 ELSE MaxDispatch
           e == [status |-> IF n >= MaxDispatch THEN "dead_letter" ELSE "pending", key |-> event[p].key,
                 generation |-> event[p].generation, kind |-> event[p].kind, attempts |-> n]
<1>1. /\ event[p].status = "pending" /\ event' = [event EXCEPT ![p] = e]
      /\ future' = IF n >= MaxDispatch THEN future ELSE future \cup {p}
      /\ p \notin future
      /\ UNCHANGED <<connection, last, jobs, usage, receiver, replays, stream>>
  BY DEF DispatchFails, Due
<1>2. n \in 0..MaxDispatch
  BY EventsAssumption DEF TypeOK, Event
<1>3. /\ e \in Event /\ e.status \in {"pending", "dead_letter"}
      /\ e.key = event[p].key /\ e.generation = event[p].generation /\ e.kind = event[p].kind
  BY <1>2 DEF TypeOK, Event
<1>4. p \notin usage /\ <<p, 0>> \notin jobs
  BY <1>1 DEF EffectsOfDispatch, Delivered
<1>5. future' \subseteq Positions /\ jobs' \subseteq Positions \X (0..MaxReplays) /\ usage' \subseteq Positions
  BY <1>1 DEF TypeOK
<1>6. /\ p \in future' => e.status = "pending" /\ e.attempts > 0
      /\ e.status = "dead_letter" <=> e.attempts = MaxDispatch
      /\ \A q \in Positions : q # p => (q \in future' => q \in future)
  BY <1>1, <1>2, EventsAssumption DEF TypeOK, Event
<1> HIDE DEF e
<1>7. QED
  BY <1>1, <1>3, <1>4, <1>5, <1>6, Outgoing

(* The clock, replays and the stream. *)
LEMMA Reading ==
    ASSUME IInv, NEW p \in Positions, Elapse(p) \/ Replay(p) \/ Poll(p) \/ SendFrame(p) \/ List(p)
    PROVE  IInv'
<1> USE DEF IInv
<1>1. UNCHANGED <<status, secret, generation, account, last, event, usage, receiver>>
  BY DEF Elapse, Replay, Poll, SendFrame, List, connection, outbox
<1>2. \A q \in Positions : Committed(q)' <=> Committed(q)
  BY <1>1 DEF Committed
<1>3. TypeOK' /\ Accounts'
  <2>1. /\ future' \subseteq Positions
        /\ page' \subseteq Positions /\ seen' \subseteq Positions /\ cursor' \in 0..MaxEvents
    <3>1. future' \subseteq Positions /\ page' \subseteq Positions
      BY DEF TypeOK, Elapse, Replay, Poll, SendFrame, List, outbox, stream
    <3>2. seen' \subseteq Positions
      BY DEF TypeOK, Elapse, Replay, Poll, SendFrame, List, stream
    <3>3. cursor' \in {cursor, p} /\ p \in 0..MaxEvents
      BY EventsAssumption DEF Elapse, Replay, Poll, SendFrame, List, stream, Positions
    <3>4. QED
      BY <3>1, <3>2, <3>3 DEF TypeOK
  <2>2. jobs' \subseteq Positions \X (0..MaxReplays) /\ replays' \in 0..MaxReplays
    <3>1. CASE UNCHANGED <<jobs, replays>>
      BY <3>1 DEF TypeOK
    <3>2. CASE Replay(p)
      <4>1. replays + 1 \in 0..MaxReplays
        BY <3>2, EventsAssumption DEF TypeOK, Replay
      <4>2. QED
        BY <3>2, <4>1 DEF TypeOK, Replay
    <3>3. QED
      BY <3>1, <3>2 DEF Elapse, Poll, SendFrame, List, outbox
  <2>3. QED
    BY <1>1, <2>1, <2>2 DEF TypeOK, Accounts
<1>4. Admitted' /\ Inserting' /\ Unique'
  BY <1>1 DEF Admitted, Inserting, Unique
<1>5. Streaming' /\ StreamComplete'
  <2>1. CASE UNCHANGED stream
    BY <1>2, <2>1 DEF Streaming, StreamComplete, stream, TypeOK
  <2>2. CASE Poll(p)
    BY <1>2, <2>2 DEF Poll, Streaming, StreamComplete, TypeOK, Positions
  <2>3. CASE SendFrame(p)
    <3>1. \A q \in Positions : Committed(q) /\ cursor < q /\ q <= p => q = p
      BY <2>3 DEF SendFrame, Streaming, Positions
    <3>2. Streaming'
      BY <1>2, <2>3 DEF SendFrame, Streaming, TypeOK, Positions
    <3>3. StreamComplete'
      BY <1>2, <2>3, <3>1 DEF SendFrame, StreamComplete, TypeOK, Positions
    <3>4. QED
      BY <3>2, <3>3
  <2>4. CASE List(p)
    BY <1>2, <2>4 DEF List, Streaming, StreamComplete, TypeOK, Positions
  <2>5. QED
    BY <2>1, <2>2, <2>3, <2>4 DEF Elapse, Replay
<1>6. EffectsOfDispatch'
  <2>1. \A q \in Positions : <<q, 0>> \in jobs' <=> <<q, 0>> \in jobs
    BY DEF TypeOK, Elapse, Replay, Poll, SendFrame, List, outbox
  <2>2. ASSUME NEW q \in Positions PROVE Delivered(q)'
    BY <1>1, <2>1 DEF EffectsOfDispatch, Delivered
  <2>3. future' \subseteq future
    BY DEF Elapse, Replay, Poll, SendFrame, List, outbox
  <2>4. ASSUME NEW q \in Positions PROVE Counted(q)'
    BY <1>1, <2>3 DEF EffectsOfDispatch, Counted
  <2>5. QED
    BY <2>2, <2>4 DEF EffectsOfDispatch
<1>7. QED
  BY <1>3, <1>4, <1>5, <1>6

LEMMA NextInvariant == IInv /\ [Next]_vars => IInv'
<1> SUFFICES ASSUME IInv, [Next]_vars PROVE IInv'
  OBVIOUS
<1>1. Idle \in Receiver /\ Idle.at = "idle"
  BY EventsAssumption DEF Idle, Receiver
<1>2. ASSUME NEW r \in Receivers, ReadConnection(r) PROVE IInv'
  <2> DEFINE c == [at |-> "verifying", row |-> "same", generation |-> generation, position |-> 0]
  <2>1. c \in Receiver /\ c.at = "verifying" /\ c.generation = generation
    BY EventsAssumption DEF Receiver, IInv, TypeOK
  <2>2. QED
    BY <1>2, <2>1, OnlyReceiver DEF ReadConnection
<1>3. ASSUME NEW r \in Receivers, EndRequest(r), receiver[r].at # "inserted" PROVE IInv'
  BY <1>1, <1>3, OnlyReceiver DEF EndRequest, outbox
<1>4. CASE Resume
  BY <1>4 DEF Resume, IInv, TypeOK, Accounts, Admitted, Inserting, Unique, Streaming, StreamComplete,
     EffectsOfDispatch, Delivered, Counted, Committed, connection, outbox
<1>5. CASE UNCHANGED vars
  BY <1>5 DEF vars, IInv, TypeOK, Accounts, Admitted, Inserting, Unique, Streaming, StreamComplete,
     EffectsOfDispatch, Delivered, Counted, Committed, connection, outbox, stream
<1>6. QED
  BY <1>2, <1>3, <1>4, <1>5, Accepting, Committing, Aborting, Connecting, Dispatching, NotDispatching, Reading
     DEF Next

THEOREM Invariant == Spec => []IInv
  BY InitInvariant, NextInvariant, PTL DEF Spec

----------------------------------------------------------------------------
(* The properties.                                                         *)

(* Rows, requests and the stream keep their types. *)
THEOREM TypeCorrect == Spec => []TypeOK
<1>1. IInv => TypeOK
  BY DEF IInv
<1>2. QED
  BY <1>1, Invariant, PTL

(* Within a generation a webhook is accepted once. *)
THEOREM WebhooksAreAcceptedOnce == Spec => []AcceptedOnce
<1>1. IInv => AcceptedOnce
  BY DEF IInv, Unique, AcceptedOnce, Committed
<1>2. QED
  BY <1>1, Invariant, PTL

(* ... and for the generation for which it was verified. *)
THEOREM WebhooksAreVerified == Spec => []AcceptedAsVerified
<1>1. IInv => AcceptedAsVerified
  BY DEF IInv, Admitted, AcceptedAsVerified
<1>2. QED
  BY <1>1, Invariant, PTL

(* No client of the stream misses an event. *)
THEOREM StreamIsComplete == Spec => []StreamComplete
<1>1. IInv => StreamComplete
  BY DEF IInv
<1>2. QED
  BY <1>1, Invariant, PTL

(* Jobs and usage come with the dispatch. *)
THEOREM DispatchIsAtomic == Spec => []EffectsOfDispatch
<1>1. IInv => EffectsOfDispatch
  BY DEF IInv
<1>2. QED
  BY <1>1, Invariant, PTL

(* A closed row of the outbox stays closed. *)
THEOREM ClosedRowsAreFinal == Spec => ClosedIsFinal
<1> DEFINE Final == \A p \in Positions : event[p].status \in {"dispatched", "dead_letter"} => event'[p] = event[p]
<1>1. IInv /\ [Next]_vars => [Final]_vars
  <2> SUFFICES ASSUME IInv, Next PROVE Final
    OBVIOUS
  <2>1. CASE UNCHANGED event
    BY <2>1
  <2>2. ASSUME NEW r \in Receivers, NEW key \in Keys \cup {NoKey}, NEW kind \in {"sync", "event_only"},
               AcceptChecked(r, key, kind)
        PROVE  Final
    <3>1. last + 1 \in Nat /\ \A p \in Positions : p > last => event[p].status = "absent"
      BY DEF IInv, Inserting, TypeOK, Positions
    <3>2. QED
      BY <2>2, <3>1 DEF AcceptChecked, IInv, TypeOK, Positions
  <2>3. ASSUME NEW r \in Receivers, CommitEvent(r) \/ (EndRequest(r) /\ receiver[r].at = "inserted") PROVE Final
    <3>1. event[receiver[r].position].status = "inserted"
      BY <2>3 DEF CommitEvent, IInv, Admitted
    <3>2. QED
      BY <2>3, <3>1 DEF CommitEvent, EndRequest, IInv, TypeOK
  <2>4. ASSUME NEW p \in Positions, Dispatch(p) \/ DispatchFails(p) PROVE Final
    BY <2>4 DEF Dispatch, DispatchFails, Due, IInv, TypeOK
  <2>5. QED
    BY <2>1, <2>2, <2>3, <2>4 DEF Next, ReadConnection, EndRequest, Elapse, Replay, Poll, SendFrame, List, Connect,
       Resume, outbox
<1>2. QED
  BY <1>1, Invariant, PTL DEF Spec, ClosedIsFinal

============================================================================
