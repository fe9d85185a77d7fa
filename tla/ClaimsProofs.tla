---------------------------- MODULE ClaimsProofs ----------------------------
(***************************************************************************)
(* Theorems about module Claims, for any requests, keys and limits.        *)
(***************************************************************************)
EXTENDS Claims, TLAPS

(* The calls that a request is about to make or has left behind. *)
Doing(q) == {exec[q].at} \cup exec[q].late

Running == {"send", "run"}

(* What is done before the runner is called, or when it has said that      *)
(* nothing was sent.                                                       *)
Unsent == {"acquire", "prepare", "reserve", "bind", "mark_dispatched", "release_pending",
           "release_not_dispatched", "finish_not_dispatched"}

(* What only reads do. *)
Reading == {"finish_read_failure", "finish_read_timeout"}

(* The executions: calls are left behind only by a dropped request, the    *)
(* evidence covers what happened, and a request past its deadline never    *)
(* acquires its key again.                                                 *)
Executing(q) ==
    /\ exec[q].at \notin {"finish_read_timeout", "over"} => exec[q].late = {}
    /\ \A c, d \in exec[q].late : c = d \/ "finish_read_timeout" \in {c, d}
    /\ \A c \in Doing(q) : c \in Unsent => exec[q].outcome = "NotDispatched"
    /\ \A c \in Doing(q) : c \in Reading => q \in ReadOnly
    /\ exec[q].at = "run" =>
          /\ exec[q].outcome = "Unknown"
          /\ exec[q].prior = "NotDispatched" /\ exec[q].hit = "none" => effect[q] = "none"
    /\ exec[q].outcome = "NotDispatched" => effect[q] = "none"
    /\ "finish_read_timeout" \in Doing(q) => "acquire" \notin Doing(q) /\ Keyed(q)
    /\ exec[q].begun => "finish_read_timeout" \in Doing(q)
    /\ ~exec[q].begun => exec[q].seen = {}
    /\ exec[q].at = "send" => exec[q].tries < Tries
    /\ exec[q].at \notin Running => exec[q].tries = 0

Executions == \A q \in Requests : Executing(q)

(* The claims: a key with an output has no claim, a request at the runner  *)
(* holds its key, and whoever may have reached the provider is dispatched. *)
Claimed ==
    /\ \A k \in Keys : claim[k] # None =>
          /\ record[k] = None
          /\ Key[claim[k].req] = k
          /\ audit[k] # None => claim[k].dispatched
    /\ \A q \in Requests : Keyed(q) /\ exec[q].at \in Running =>
          Holds(q) /\ claim[Key[q]].dispatched /\ audit[Key[q]] = None
    /\ \A q \in Requests : Holds(q) /\ exec[q].outcome # "NotDispatched" => claim[Key[q]].dispatched

(* The reservations: they are made, bound and dispatched in this order,    *)
(* before anything is sent, and what is refunded is not sent any more.     *)
ReservedFor(q) ==
    /\ \A c \in Doing(q) : c \in {"acquire", "prepare", "reserve"} => res[q].state = "none"
    /\ exec[q].at \in {"bind", "mark_dispatched"} => res[q].state \notin {"none", "dispatched"}
    /\ \A c \in Doing(q) : c = "mark_dispatched" /\ Keyed(q) => res[q].bound
    /\ res[q].state = "none" => ~res[q].bound
    /\ res[q].state \in {"none", "pending"} =>
          effect[q] = "none" /\ exec[q].at \notin Running /\ ~res[q].refunded
    /\ Keyed(q) /\ ~res[q].bound => effect[q] = "none" /\ exec[q].at \notin Running
    /\ res[q].refunded => effect[q] = "none" /\ exec[q].at \notin Running

Reserved == \A q \in Requests : ReservedFor(q)

(* What finish_read_timeout has selected: a reservation of the key.  If    *)
(* the request still holds the key, nobody has sent anything on another's  *)
(* reservation since, and nothing was sent on its own if it was pending.   *)
Selection ==
    \A q \in Requests : \A r \in exec[q].seen :
        /\ Key[r.of] = Key[q]
        /\ res[r.of].state # "none"
        /\ r.of # q /\ Holds(q) => effect[r.of] = "none"
        /\ r.of = q /\ r.state = "pending" => effect[q] = "none"

IInv == TypeOK /\ Executions /\ Claimed /\ Reserved /\ Selection /\ DispatchFence

(* What is used of the library of finite sets.  It is a hypothesis of the  *)
(* lemmas below and proved before the theorems.                            *)
Library ==
    /\ \A S, T : IsFiniteSet(T) /\ S \in SUBSET T => IsFiniteSet(S) /\ Cardinality(S) <= Cardinality(T)
    /\ \A S : IsFiniteSet(S) => Cardinality(S) \in Nat
    /\ \A S, T : IsFiniteSet(S) /\ IsFiniteSet(T) =>
          IsFiniteSet(S \cup T) /\ Cardinality(S \cup T) <= Cardinality(S) + Cardinality(T)
    /\ \A x : IsFiniteSet({x}) /\ Cardinality({x}) = 1
    /\ Cardinality({}) = 0
    /\ \A U, B : U \subseteq {"action", "recovery"} \X Requests /\ (\A p \in B : \E kind : <<kind, p>> \in U) =>
          IsFiniteSet(U) /\ IsFiniteSet(B) /\ Cardinality(B) <= Cardinality(U)

----------------------------------------------------------------------------
(* Types. *)

DatabaseTypes ==
    /\ claim \in [Keys -> Claim \cup {None}]
    /\ record \in [Keys -> Requests \cup {None}]
    /\ audit \in [Keys -> {"succeeded", "failed", None}]
    /\ res \in [Requests -> Reservation]
    /\ usage \subseteq {"action", "recovery"} \X Requests

(* The ways a transaction changes a reservation row keep its other columns. *)
LEMMA Rows ==
    ASSUME NEW r \in Reservation
    PROVE  /\ Released(r) \in Reservation
           /\ Settled(r) \in Reservation
           /\ Refunded(r) \in Reservation
           /\ Released(r).state = "released" /\ Released(r).bound = r.bound /\ Released(r).refunded = r.refunded
           /\ Settled(r).state = "settled" /\ Settled(r).bound = r.bound /\ Settled(r).refunded = r.refunded
           /\ Refunded(r).state = r.state /\ Refunded(r).bound = r.bound /\ Refunded(r).refunded
  BY ZenonT(60) DEF Reservation, Released, Settled, Refunded

(* A new reservation row. *)
LEMMA NewRow ==
    ASSUME Library, NEW r, r = [NoReservation EXCEPT !.state = "pending", !.at = Cardinality(Made) + 1]
    PROVE  r \in Reservation /\ r.state = "pending" /\ ~r.bound /\ ~r.refunded
<1>1. IsFiniteSet(Made)
  BY ZenonT(60), ClaimsAssumption DEF Library, Made
<1>2. Cardinality(Made) + 1 \in Nat
  BY <1>1 DEF Library
<1>3. NoReservation \in Reservation
  BY DEF NoReservation, Reservation
<1>4. r \in Reservation
  BY ZenonT(60), <1>2, <1>3 DEF Reservation, Active
<1>5. QED
  BY <1>4 DEF NoReservation

(* A request with a key has one of Keys. *)
LEMMA KeyOfRequest == ASSUME NEW q \in Requests, Keyed(q) PROVE Key[q] \in Keys
  BY ClaimsAssumption DEF Keyed

(* Deleting a claim. *)
LEMMA ClearedType ==
    ASSUME TypeOK, NEW q \in Requests
    PROVE  /\ Cleared(q) \in [Keys -> Claim \cup {None}]
           /\ ClearedPending(q) \in [Keys -> Claim \cup {None}]
  BY KeyOfRequest DEF Cleared, ClearedPending, TypeOK, Holds

(* What finish_read_timeout does to a reservation. *)
TimeoutRow(q, p) ==
    \/ res'[p] = res[p]
    \/ res'[p] = Settled(res[p]) /\ res[p].state = "dispatched"
    \/ /\ \E r \in exec[q].seen : /\ r.of = p
                                  /\ ~(/\ r.state = "dispatched" /\ claim[Key[q]].dispatched
                                       /\ exec[q].outcome # "NotDispatched")
       /\ \/ res'[p] = Refunded(res[p]) /\ res[p].state \notin Active
          \/ res'[p] = Released(Refunded(res[p]))

LEMMA TimeoutRows ==
    ASSUME NEW q \in Requests, NEW ok, finish_read_timeout(q, ok), Holds(q)
    PROVE  /\ res' = [p \in Requests |-> res'[p]]
           /\ \A p \in Requests : TimeoutRow(q, p)
<1> DEFINE served(r) == r.state = "dispatched" /\ claim[Key[q]].dispatched /\ exec[q].outcome # "NotDispatched"
           settle == {r.of : r \in {s \in exec[q].seen : served(s)}}
           release == {r.of : r \in exec[q].seen} \ settle
           row(p) == CASE p \in settle /\ res[p].state = "dispatched" -> Settled(res[p])
                       [] p \in release /\ res[p].state \in Active -> Released(Refunded(res[p]))
                       [] p \in release /\ res[p].state \notin Active -> Refunded(res[p])
                       [] OTHER -> res[p]
<1>1. res' = [p \in Requests |-> row(p)]
  BY DEF finish_read_timeout
<1>2. ASSUME NEW p \in release
      PROVE  \E r \in exec[q].seen : r.of = p /\ ~served(r)
  OBVIOUS
<1> HIDE DEF served, settle, release
<1>3. ASSUME NEW p \in Requests
      PROVE  \/ row(p) = res[p]
             \/ row(p) = Settled(res[p]) /\ res[p].state = "dispatched"
             \/ /\ p \in release
                /\ \/ row(p) = Refunded(res[p]) /\ res[p].state \notin Active
                   \/ row(p) = Released(Refunded(res[p]))
  OBVIOUS
<1> HIDE DEF row
<1>4. QED
  BY ZenonT(60), <1>1, <1>2, <1>3 DEF TimeoutRow, served

(* Every transaction keeps the database well typed. *)
LEMMA CallType ==
    ASSUME Library, TypeOK, NEW q \in Requests, NEW c, NEW ok \in BOOLEAN, call(c, q, ok)
    PROVE  DatabaseTypes'
<1>0. DatabaseTypes
  BY DEF TypeOK, DatabaseTypes
<1>same. ASSUME UNCHANGED database PROVE DatabaseTypes'
  BY <1>0, <1>same DEF DatabaseTypes, database
<1>row. res[q] \in Reservation
  BY DEF TypeOK
<1>metered. Metered(q) \subseteq {"action", "recovery"} \X Requests
  BY DEF TypeOK, Metered
<1>1. CASE acquire(q, ok)
  <2>1. CASE Keyed(q) /\ claim' = [claim EXCEPT ![Key[q]] = [req |-> q, dispatched |-> FALSE, expired |-> FALSE]]
             /\ UNCHANGED <<record, audit, res, usage>>
    BY <2>1, <1>0, KeyOfRequest DEF DatabaseTypes, Claim
  <2>2. QED
    BY <1>1, <2>1, <1>same DEF acquire, Same
<1>2. CASE release_pending(q, ok)
  BY <1>2, <1>0, ClearedType DEF release_pending, DatabaseTypes
<1>swept. Swept \in [Requests -> Reservation]
  <2>1. ASSUME NEW p \in Requests
        PROVE  (CASE res[p].expired /\ res[p].state = "pending" -> Released(Refunded(res[p]))
                  [] res[p].expired /\ res[p].state = "dispatched" -> Settled(res[p])
                  [] OTHER -> res[p]) \in Reservation
    <3>1. res[p] \in Reservation
      BY DEF TypeOK
    <3>2. QED
      BY <3>1, Rows
  <2>2. QED
    BY <2>1 DEF Swept
<1>3. CASE reserve(q, ok)
  <2>1. usage' \subseteq {"action", "recovery"} \X Requests
    BY <1>3, <1>0 DEF reserve, Recovered, DatabaseTypes
  <2>2. res' \in [Requests -> Reservation]
    BY <1>3, <1>swept, NewRow DEF reserve
  <2>3. QED
    BY <1>3, <1>0, <2>1, <2>2 DEF reserve, DatabaseTypes
<1>4. CASE bind(q, ok)
  <2>1. CASE res' = [res EXCEPT ![q].bound = TRUE] /\ UNCHANGED <<claim, record, audit, usage>>
    <3>1. [res[q] EXCEPT !.bound = TRUE] \in Reservation
      BY ZenonT(60), <1>row DEF Reservation
    <3>2. QED
      BY <2>1, <3>1, <1>0 DEF DatabaseTypes
  <2>2. QED
    BY <1>4, <2>1, <1>same DEF bind, Same
<1>5. CASE mark_dispatched(q, ok)
  <2>1. CASE /\ MayDispatch(q)
             /\ claim' = IF Keyed(q) THEN [claim EXCEPT ![Key[q]].dispatched = TRUE] ELSE claim
             /\ res' = [res EXCEPT ![q].state = "dispatched"]
             /\ UNCHANGED <<record, audit, usage>>
    <3>1. [res[q] EXCEPT !.state = "dispatched"] \in Reservation
      BY <1>row DEF Reservation, Active
    <3>2. res' \in [Requests -> Reservation]
      BY <2>1, <3>1, <1>0 DEF DatabaseTypes
    <3>3. Keyed(q) => claim[Key[q]] \in Claim
      BY <2>1, <1>0, KeyOfRequest DEF MayDispatch, Holds, DatabaseTypes
    <3>4. Keyed(q) => [claim[Key[q]] EXCEPT !.dispatched = TRUE] \in Claim
      BY ZenonT(60), <3>3 DEF Claim
    <3>5. claim' \in [Keys -> Claim \cup {None}]
      BY <2>1, <3>4, <1>0, KeyOfRequest DEF DatabaseTypes
    <3>6. QED
      BY <2>1, <3>2, <3>5, <1>0 DEF DatabaseTypes
  <2>2. QED
    BY <1>5, <2>1, <1>same DEF mark_dispatched, Same
<1>6. ASSUME NEW clear \in BOOLEAN, NEW refund \in BOOLEAN, release_quota_reservation(q, clear, refund, ok)
      PROVE  DatabaseTypes'
  BY <1>6, <1>0, <1>row, Rows, ClearedType DEF release_quota_reservation, DatabaseTypes
<1>7. CASE finish_success(q, ok)
  <2>1. CASE /\ record' = IF Keyed(q) /\ record[Key[q]] = None THEN [record EXCEPT ![Key[q]] = q] ELSE record
             /\ usage' = IF res[q].state = "dispatched" THEN Metered(q) ELSE usage
             /\ res' = [res EXCEPT ![q] = Settled(res[q])]
             /\ claim' = Cleared(q)
             /\ UNCHANGED audit
    BY <2>1, <1>0, <1>row, <1>metered, Rows, ClearedType, KeyOfRequest DEF DatabaseTypes
  <2>2. QED
    BY <1>7, <2>1, <1>same DEF finish_success, Same
<1>8. CASE finish_not_dispatched(q, ok)
  <2>1. CASE /\ res' = [res EXCEPT ![q] = Released(Refunded(res[q]))]
             /\ claim' = Cleared(q)
             /\ UNCHANGED <<record, audit, usage>>
    BY <2>1, <1>0, <1>row, Rows, ClearedType DEF DatabaseTypes
  <2>2. QED
    BY <1>8, <2>1, <1>same DEF finish_not_dispatched, Same
<1>9. CASE finish_read_failure(q, ok)
  <2>1. CASE /\ usage' = IF res[q].state = "dispatched" THEN Metered(q) ELSE usage
             /\ res' = IF res[q].state = "dispatched" THEN [res EXCEPT ![q] = Settled(res[q])] ELSE res
             /\ claim' = Cleared(q)
             /\ UNCHANGED <<record, audit>>
    BY <2>1, <1>0, <1>row, <1>metered, Rows, ClearedType DEF DatabaseTypes
  <2>2. QED
    BY <1>9, <2>1, <1>same DEF finish_read_failure, Same
<1>10. CASE finish_read_timeout(q, ok)
  <2>1. ASSUME NEW p \in Requests, TimeoutRow(q, p)
        PROVE  res'[p] \in Reservation
    <3>1. res[p] \in Reservation
      BY DEF TypeOK
    <3>2. QED
      BY <2>1, <3>1, Rows DEF TimeoutRow
  <2>2. CASE ~Holds(q)
    BY <1>10, <2>2, <1>same DEF finish_read_timeout, Same
  <2>3. CASE Holds(q)
    <3>1. res' \in [Requests -> Reservation]
      BY ZenonT(60), <1>10, <2>1, <2>3, TimeoutRows
    <3>2. usage' \in {usage, Metered(q)} /\ claim' = Cleared(q) /\ UNCHANGED <<record, audit>>
      BY <1>10, <2>3 DEF finish_read_timeout
    <3>3. QED
      BY <3>1, <3>2, <1>0, <1>metered, ClearedType DEF DatabaseTypes
  <2>4. QED
    BY <2>2, <2>3
<1>11. QED
  BY ZenonT(60), <1>1, <1>2, <1>3, <1>4, <1>5, <1>6, <1>7, <1>8, <1>9, <1>10 DEF call

(* How the steps change an execution. *)
ExecTypes == exec \in [Requests -> Execution]

Others(q) == \A p \in Requests : p # q => exec'[p] = exec[p]

SameEvidence(q) ==
    /\ exec'[q].outcome = exec[q].outcome /\ exec'[q].prior = exec[q].prior
    /\ exec'[q].hit = exec[q].hit /\ exec'[q].tries = exec[q].tries

LEMMA GotoFields ==
    ASSUME ExecTypes, NEW q \in Requests, NEW place \in Places, Goto(q, place)
    PROVE  /\ ExecTypes' /\ Others(q) /\ SameEvidence(q)
           /\ exec'[q].at = place /\ exec'[q].late = exec[q].late
           /\ exec'[q].begun = FALSE /\ exec'[q].seen = {}
<1>1. exec[q] \in Execution
  BY DEF ExecTypes
<1>2. [exec[q] EXCEPT !.at = place, !.begun = FALSE, !.seen = {}] \in Execution
  BY <1>1, Zenon DEF Execution
<1>3. exec' = [exec EXCEPT ![q] = [exec[q] EXCEPT !.at = place, !.begun = FALSE, !.seen = {}]]
  BY Zenon DEF Goto, ExecTypes
<1>4. QED
  BY <1>1, <1>2, <1>3 DEF ExecTypes, Others, SameEvidence, Execution

LEMMA LateFields ==
    ASSUME ExecTypes, NEW q \in Requests, NEW c,
           exec' = [exec EXCEPT ![q].late = @ \ {c}, ![q].begun = FALSE, ![q].seen = {}]
    PROVE  /\ ExecTypes' /\ Others(q) /\ SameEvidence(q)
           /\ exec'[q].at = exec[q].at /\ exec'[q].late = exec[q].late \ {c}
           /\ exec'[q].begun = FALSE /\ exec'[q].seen = {}
<1>1. exec[q] \in Execution
  BY DEF ExecTypes
<1>2. [exec[q] EXCEPT !.late = @ \ {c}, !.begun = FALSE, !.seen = {}] \in Execution
  BY <1>1, Zenon DEF Execution
<1>3. exec' = [exec EXCEPT ![q] = [exec[q] EXCEPT !.late = @ \ {c}, !.begun = FALSE, !.seen = {}]]
  BY Zenon DEF ExecTypes
<1>4. QED
  BY <1>1, <1>2, <1>3 DEF ExecTypes, Others, SameEvidence, Execution

LEMMA SelectFields ==
    ASSUME TypeOK, NEW q \in Requests, select_reservation(q)
    PROVE  /\ ExecTypes' /\ Others(q) /\ SameEvidence(q)
           /\ exec'[q].at = exec[q].at /\ exec'[q].late = exec[q].late
           /\ exec'[q].begun = TRUE
           /\ exec'[q].seen = {[of |-> p, state |-> res[p].state] : p \in Newest(q)}
<1> DEFINE row == {[of |-> p, state |-> res[p].state] : p \in Newest(q)}
<1>1. row \subseteq [of : Requests, state : Active]
  BY DEF Newest, Candidates
<1>2. exec' = [exec EXCEPT ![q].begun = TRUE, ![q].seen = row]
  BY DEF select_reservation
<1> HIDE DEF row
<1>3. /\ ExecTypes' /\ Others(q) /\ SameEvidence(q)
      /\ exec'[q].at = exec[q].at /\ exec'[q].late = exec[q].late
      /\ exec'[q].begun = TRUE /\ exec'[q].seen = row
  BY ZenonT(60), <1>1, <1>2 DEF TypeOK, ExecTypes, Others, SameEvidence, Execution
<1>4. QED
  BY <1>3 DEF row

LEMMA BeginFields ==
    ASSUME TypeOK, NEW q \in Requests, begin_attempt(q), exec[q].tries < Tries
    PROVE  /\ ExecTypes' /\ Others(q)
           /\ exec'[q].at = "run" /\ exec'[q].late = exec[q].late
           /\ exec'[q].begun = exec[q].begun /\ exec'[q].seen = exec[q].seen
           /\ exec'[q].prior = exec[q].outcome /\ exec'[q].outcome = "Unknown"
           /\ effect' = [effect EXCEPT ![q] = Worse(@, exec'[q].hit)]
           /\ exec'[q].hit \in Hits
<1>1. PICK hit \in Hits :
         /\ exec' = [exec EXCEPT ![q].at = "run", ![q].tries = @ + 1, ![q].hit = hit,
                                 ![q].prior = exec[q].outcome, ![q].outcome = "Unknown"]
         /\ effect' = [effect EXCEPT ![q] = Worse(@, hit)]
  BY ZenonT(60) DEF begin_attempt
<1> DEFINE new == [exec[q] EXCEPT !.at = "run", !.tries = @ + 1, !.hit = hit,
                                  !.prior = exec[q].outcome, !.outcome = "Unknown"]
<1>2. exec[q] \in Execution /\ ExecTypes
  BY DEF ExecTypes, TypeOK
<1>3. exec[q].tries + 1 \in 0..Tries /\ "Unknown" \in Outcomes /\ "run" \in Places /\ exec[q].outcome \in Outcomes
  BY <1>2, ClaimsAssumption DEF Execution, Outcomes, Places
<1>4. exec' = [exec EXCEPT ![q] = new]
  BY <1>1, <1>2, Zenon DEF ExecTypes
<1>5. new \in Execution
  BY <1>2, <1>3, Zenon DEF Execution
<1>6. /\ new.at = "run" /\ new.late = exec[q].late /\ new.begun = exec[q].begun /\ new.seen = exec[q].seen
      /\ new.prior = exec[q].outcome /\ new.outcome = "Unknown" /\ new.hit = hit
  BY <1>2 DEF Execution
<1> HIDE DEF new
<1>7. exec'[q] = new /\ Others(q) /\ ExecTypes'
  BY <1>2, <1>4, <1>5 DEF ExecTypes, Others
<1>8. QED
  BY ZenonT(60), <1>1, <1>6, <1>7

LEMMA FinishFields ==
    ASSUME ExecTypes, NEW q \in Requests, NEW outcome \in Outcomes, NEW place \in Places,
           finish_attempt(q, outcome, place)
    PROVE  /\ ExecTypes' /\ Others(q)
           /\ exec'[q].at = place /\ exec'[q].late = exec[q].late
           /\ exec'[q].begun = exec[q].begun /\ exec'[q].seen = exec[q].seen
           /\ exec'[q].outcome = outcome
           /\ exec'[q].tries = IF place = "send" THEN exec[q].tries ELSE 0
<1> DEFINE tries == IF place = "send" THEN exec[q].tries ELSE 0
           new == [exec[q] EXCEPT !.at = place, !.outcome = outcome, !.tries = tries,
                                  !.prior = "NotDispatched", !.hit = "none"]
<1>1. exec[q] \in Execution
  BY DEF ExecTypes
<1>2. tries \in 0..Tries /\ "NotDispatched" \in Outcomes /\ "none" \in Hits
  BY <1>1, ClaimsAssumption DEF Execution, Outcomes, Hits
<1>3. exec' = [exec EXCEPT ![q] = new]
  BY Zenon DEF finish_attempt, ExecTypes
<1> HIDE DEF tries
<1>4. new \in Execution
  BY <1>1, <1>2, Zenon DEF Execution
<1>5. /\ new.at = place /\ new.late = exec[q].late /\ new.begun = exec[q].begun /\ new.seen = exec[q].seen
      /\ new.outcome = outcome /\ new.tries = tries
  BY <1>1 DEF Execution
<1> HIDE DEF new
<1>6. exec'[q] = new /\ Others(q) /\ ExecTypes'
  BY ZenonT(60), <1>3, <1>4 DEF ExecTypes, Others
<1>7. QED
  BY <1>5, <1>6 DEF tries

LEMMA DropFields ==
    ASSUME ExecTypes, NEW q \in Requests, NEW place \in Places, Drop(q, place)
    PROVE  /\ ExecTypes' /\ Others(q)
           /\ exec'[q].at = place /\ exec'[q].outcome = exec[q].outcome
           /\ exec'[q].begun = exec[q].begun /\ exec'[q].seen = exec[q].seen
           /\ exec'[q].tries = 0
           /\ \E started \in SUBSET ({exec[q].at} \cap Calls) :
                  (exec[q].begun => started # {}) /\ exec'[q].late = exec[q].late \cup started
<1>1. PICK started \in SUBSET ({exec[q].at} \cap Calls) :
         /\ exec[q].begun => started # {}
         /\ exec' = [exec EXCEPT ![q].at = place, ![q].late = @ \cup started,
                                 ![q].tries = 0, ![q].prior = "NotDispatched", ![q].hit = "none"]
  BY ZenonT(60) DEF Drop
<1> DEFINE new == [exec[q] EXCEPT !.at = place, !.late = @ \cup started,
                                  !.tries = 0, !.prior = "NotDispatched", !.hit = "none"]
<1>2. exec[q] \in Execution
  BY DEF ExecTypes
<1>3. 0 \in 0..Tries /\ "NotDispatched" \in Outcomes /\ "none" \in Hits
  BY ClaimsAssumption DEF Outcomes, Hits
<1>4. exec[q].late \cup started \in SUBSET Calls
  BY <1>2 DEF Execution
<1>5. exec' = [exec EXCEPT ![q] = new]
  BY <1>1, Zenon DEF ExecTypes
<1>6. new \in Execution
  BY <1>2, <1>3, <1>4, Zenon DEF Execution
<1>7. /\ new.at = place /\ new.late = exec[q].late \cup started /\ new.begun = exec[q].begun
      /\ new.seen = exec[q].seen /\ new.outcome = exec[q].outcome /\ new.tries = 0
  BY <1>2 DEF Execution
<1> HIDE DEF new
<1>8. exec'[q] = new /\ Others(q) /\ ExecTypes'
  BY <1>5, <1>6 DEF ExecTypes, Others
<1>9. QED
  BY ZenonT(60), <1>1, <1>7, <1>8

----------------------------------------------------------------------------
(* What a call may do, in one formula for all calls. *)

ClaimStep(c, q) ==
    \A k \in Keys :
        \/ claim'[k] = claim[k]
        \/ /\ claim'[k] = None
           /\ Key[q] = k /\ Holds(q)
           /\ ~claim[k].dispatched \/ c \in Unsent \cup Reading \/ record'[k] = q
        \/ /\ c = "acquire" /\ Key[q] = k /\ Takeable(k)
           /\ claim'[k].req = q
        \/ /\ c = "mark_dispatched" /\ Key[q] = k /\ Holds(q)
           /\ ~claim[k].dispatched /\ claim'[k].req = q /\ claim'[k].dispatched

RecordStep(q) ==
    \A k \in Keys :
        \/ record'[k] = record[k]
        \/ /\ Key[q] = k /\ record[k] = None /\ record'[k] = q
           /\ Holds(q) /\ claim[k].dispatched /\ claim'[k] = None

SameRow(p) == res'[p].state = res[p].state /\ res'[p].bound = res[p].bound /\ res'[p].refunded = res[p].refunded

(* The charges of p may be refunded. *)
Refundable(p) == effect[p] = "none" /\ exec[p].at \notin Running

EndedRow(p) ==
    /\ res[p].state # "none" /\ res'[p].state \in {"released", "settled"}
    /\ res'[p].bound = res[p].bound
    /\ res'[p].refunded = res[p].refunded \/ Refundable(p)

ReservedRow(p) == res'[p].state = "pending" /\ ~res'[p].bound /\ ~res'[p].refunded

BoundRow(p) ==
    /\ res[p].state # "none" /\ res'[p].state = res[p].state
    /\ res'[p].bound /\ res'[p].refunded = res[p].refunded

DispatchedRow(p) ==
    /\ res[p].state = "pending" /\ res'[p].state = "dispatched"
    /\ res'[p].bound = res[p].bound /\ res'[p].refunded = res[p].refunded

RowStep(c, q) ==
    \A p \in Requests :
        \/ SameRow(p)
        \/ EndedRow(p)
        \/ c = "reserve" /\ p = q /\ ReservedRow(p)
        \/ c = "bind" /\ p = q /\ BoundRow(p)
        \/ c = "mark_dispatched" /\ p = q /\ DispatchedRow(p)

(* What a call has done if it is answered with Ok. *)
OkStep(c, q) ==
    /\ c = "reserve" => res'[q].state = "pending"
    /\ c = "bind" /\ Keyed(q) => res'[q].bound
    /\ c = "mark_dispatched" =>
          \/ res[q].state = "dispatched"
          \/ /\ DispatchedRow(q)
             /\ Keyed(q) => Holds(q) /\ ~claim[Key[q]].dispatched /\ Holds(q)' /\ claim'[Key[q]].dispatched

CallStep(c, q, ok) ==
    /\ ClaimStep(c, q) /\ RecordStep(q) /\ RowStep(c, q)
    /\ ok => OkStep(c, q)
    /\ audit' = audit

(* Nothing is done. *)
LEMMA Nothing ==
    ASSUME NEW c, NEW q, NEW ok, UNCHANGED database, ok => OkStep(c, q)
    PROVE  CallStep(c, q, ok)
  BY DEF CallStep, database, ClaimStep, RecordStep, RowStep, SameRow

(* A request has done nothing while it is about to make, or has left       *)
(* behind, a call of Unsent, and is not at the runner while a call is made.*)
LEMMA NotSent ==
    ASSUME IInv, NEW q \in Requests, NEW c \in Doing(q)
    PROVE  /\ c \in Unsent => effect[q] = "none"
           /\ c \in Calls => exec[q].at \notin Running
  BY DEF IInv, Executions, Executing, Doing, Unsent, Running, Calls

(* The claims after a delete. *)
LEMMA ClearedClaim ==
    ASSUME IInv, NEW q \in Requests, NEW k \in Keys
    PROVE  /\ \/ Cleared(q)[k] = claim[k]
              \/ Cleared(q)[k] = None /\ Key[q] = k /\ Holds(q)
           /\ Holds(q) /\ Key[q] = k => Cleared(q)[k] = None
           /\ \/ ClearedPending(q)[k] = claim[k]
              \/ ClearedPending(q)[k] = None /\ Key[q] = k /\ Holds(q) /\ ~claim[k].dispatched
<1>1. claim \in [Keys -> Claim \cup {None}]
  BY DEF IInv, TypeOK
<1>2. CASE Holds(q)
  <2>1. Keyed(q)
    BY <1>2 DEF Holds
  <2>2. Key[q] \in Keys
    BY <2>1, KeyOfRequest
  <2>3. QED
    BY <1>1, <1>2, <2>2 DEF Cleared, ClearedPending
<1>3. CASE ~Holds(q)
  BY <1>3 DEF Cleared, ClearedPending
<1>4. QED
  BY <1>2, <1>3

LEMMA AcquireStep ==
    ASSUME IInv, NEW q \in Requests, NEW ok \in BOOLEAN, acquire(q, ok)
    PROVE  CallStep("acquire", q, ok)
<1>0. OkStep("acquire", q)
  BY DEF OkStep
<1>1. CASE UNCHANGED database
  BY ZenonT(60), <1>0, <1>1, Nothing
<1>2. CASE /\ Keyed(q) /\ Takeable(Key[q])
           /\ claim' = [claim EXCEPT ![Key[q]] = [req |-> q, dispatched |-> FALSE, expired |-> FALSE]]
           /\ UNCHANGED <<record, audit, res, usage>>
  <2>1. ClaimStep("acquire", q)
    BY ZenonT(60), <1>2, KeyOfRequest DEF IInv, TypeOK, ClaimStep
  <2>2. QED
    BY ZenonT(60), <1>0, <1>2, <2>1 DEF CallStep, RecordStep, RowStep, SameRow
<1>3. QED
  BY <1>1, <1>2 DEF acquire, Same

LEMMA ReleasePendingStep ==
    ASSUME IInv, NEW q \in Requests, NEW ok \in BOOLEAN, release_pending(q, ok)
    PROVE  CallStep("release_pending", q, ok)
<1>1. ClaimStep("release_pending", q)
  BY ClearedClaim DEF ClaimStep, release_pending
<1>2. QED
  BY ZenonT(60), <1>1 DEF CallStep, OkStep, release_pending, RecordStep, RowStep, SameRow

LEMMA ReserveStep ==
    ASSUME Library, IInv, NEW q \in Requests, NEW ok \in BOOLEAN, reserve(q, ok)
    PROVE  CallStep("reserve", q, ok)
<1>1. ASSUME NEW p \in Requests, res'[p] = Swept[p]
      PROVE  SameRow(p) \/ EndedRow(p)
  <2>1. res[p] \in Reservation
    BY DEF IInv, TypeOK
  <2>2. CASE res[p].expired /\ res[p].state = "pending"
    <3>1. res'[p] = Released(Refunded(res[p]))
      BY <1>1, <2>2 DEF Swept
    <3>2. Refundable(p)
      BY <2>2 DEF IInv, Reserved, ReservedFor, Refundable
    <3>3. QED
      BY <2>1, <2>2, <3>1, <3>2, Rows DEF EndedRow
  <2>3. CASE res[p].expired /\ res[p].state = "dispatched"
    <3>1. res'[p] = Settled(res[p])
      BY <1>1, <2>3 DEF Swept
    <3>2. QED
      BY <2>1, <2>3, <3>1, Rows DEF EndedRow
  <2>4. CASE ~(res[p].expired /\ res[p].state \in {"pending", "dispatched"})
    BY <1>1, <2>4 DEF Swept, SameRow
  <2>5. QED
    BY <2>2, <2>3, <2>4
<1>2. Swept = [p \in Requests |-> Swept[p]]
  BY DEF Swept
<1>3. ASSUME NEW p \in Requests, p # q \/ ~ok PROVE res'[p] = Swept[p]
  BY <1>2, <1>3 DEF reserve
<1>4. ok => ReservedRow(q)
  BY ZenonT(60), <1>2, NewRow DEF reserve, ReservedRow
<1>5. RowStep("reserve", q)
  BY <1>1, <1>3, <1>4 DEF RowStep
<1>6. QED
  BY <1>4, <1>5 DEF CallStep, OkStep, reserve, ClaimStep, RecordStep, ReservedRow

LEMMA BindStep ==
    ASSUME IInv, NEW q \in Requests, NEW ok \in BOOLEAN, bind(q, ok)
    PROVE  CallStep("bind", q, ok)
<1>1. CASE UNCHANGED database /\ (ok => ~Keyed(q))
  BY <1>1, Nothing DEF OkStep
<1>2. CASE /\ res[q].state \in Active
           /\ res' = [res EXCEPT ![q].bound = TRUE]
           /\ UNCHANGED <<claim, record, audit, usage>>
  <2>1. res \in [Requests -> Reservation]
    BY DEF IInv, TypeOK
  <2>2. res'[q] = [res[q] EXCEPT !.bound = TRUE]
    BY <1>2, <2>1
  <2>3. BoundRow(q)
    BY <1>2, <2>1, <2>2 DEF BoundRow, Reservation, Active
  <2>4. \A p \in Requests : p # q => SameRow(p)
    BY <1>2, <2>1 DEF SameRow
  <2>5. RowStep("bind", q)
    BY <2>3, <2>4 DEF RowStep
  <2>6. QED
    BY <1>2, <2>3, <2>5 DEF CallStep, OkStep, ClaimStep, RecordStep, BoundRow
<1>3. QED
  BY <1>1, <1>2 DEF bind, Same

LEMMA MarkStep ==
    ASSUME IInv, NEW q \in Requests, NEW ok \in BOOLEAN, mark_dispatched(q, ok)
    PROVE  CallStep("mark_dispatched", q, ok)
<1>1. CASE UNCHANGED database /\ (ok => res[q].state = "dispatched")
  BY <1>1, Nothing DEF OkStep
<1>2. CASE /\ MayDispatch(q)
           /\ claim' = IF Keyed(q) THEN [claim EXCEPT ![Key[q]].dispatched = TRUE] ELSE claim
           /\ res' = [res EXCEPT ![q].state = "dispatched"]
           /\ UNCHANGED <<record, audit, usage>>
  <2>1. res \in [Requests -> Reservation] /\ claim \in [Keys -> Claim \cup {None}]
    BY DEF IInv, TypeOK
  <2>2. res'[q] = [res[q] EXCEPT !.state = "dispatched"]
    BY <1>2, <2>1
  <2>3. DispatchedRow(q)
    BY <1>2, <2>1, <2>2 DEF DispatchedRow, Reservation, MayDispatch
  <2>4. \A p \in Requests : p # q => SameRow(p)
    BY <1>2, <2>1 DEF SameRow
  <2>5. RowStep("mark_dispatched", q)
    BY <2>3, <2>4 DEF RowStep
  <2>6. ASSUME Keyed(q)
        PROVE  /\ Key[q] \in Keys /\ Holds(q) /\ ~claim[Key[q]].dispatched
               /\ claim'[Key[q]] \in Claim /\ claim'[Key[q]].req = q /\ claim'[Key[q]].dispatched
               /\ \A k \in Keys : k # Key[q] => claim'[k] = claim[k]
    <3>1. Key[q] \in Keys
      BY <2>6, KeyOfRequest
    <3>2. Holds(q) /\ ~claim[Key[q]].dispatched
      BY <1>2, <2>6 DEF MayDispatch
    <3>3. claim[Key[q]] \in Claim /\ claim[Key[q]].req = q
      BY <2>1, <3>1, <3>2 DEF Holds
    <3>4. claim'[Key[q]] = [claim[Key[q]] EXCEPT !.dispatched = TRUE]
      BY ZenonT(60), <1>2, <2>1, <2>6, <3>1
    <3>5. claim'[Key[q]] \in Claim /\ claim'[Key[q]].req = q /\ claim'[Key[q]].dispatched
      BY ZenonT(60), <3>3, <3>4 DEF Claim
    <3>6. \A k \in Keys : k # Key[q] => claim'[k] = claim[k]
      BY <1>2, <2>1, <2>6
    <3>7. QED
      BY <3>1, <3>2, <3>5, <3>6
  <2>7. ClaimStep("mark_dispatched", q)
    BY ZenonT(60), <1>2, <2>6 DEF ClaimStep
  <2>8. Keyed(q) => Holds(q)'
    BY <2>6, ClaimsAssumption DEF Holds, Keyed
  <2>9. OkStep("mark_dispatched", q)
    BY <2>3, <2>6, <2>8 DEF OkStep
  <2>10. QED
    BY <1>2, <2>5, <2>7, <2>9 DEF CallStep, RecordStep
<1>3. QED
  BY <1>1, <1>2 DEF mark_dispatched, Same

(* Several calls change only the row of q, and end it. *)
LEMMA EndsOwn ==
    ASSUME IInv, NEW c, NEW q \in Requests, NEW row,
           res' = [res EXCEPT ![q] = row],
           \/ row = res[q]
           \/ row = Settled(res[q]) /\ res[q].state # "none"
           \/ row = Released(res[q]) /\ res[q].state # "none"
           \/ row = Released(Refunded(res[q])) /\ res[q].state # "none" /\ Refundable(q)
    PROVE  RowStep(c, q)
<1>1. res \in [Requests -> Reservation] /\ res[q] \in Reservation
  BY DEF IInv, TypeOK
<1>2. res'[q] = row /\ \A p \in Requests : p # q => res'[p] = res[p]
  BY <1>1
<1>3. SameRow(q) \/ EndedRow(q)
  BY <1>1, <1>2, Rows DEF SameRow, EndedRow
<1>4. QED
  BY <1>2, <1>3 DEF RowStep, SameRow

LEMMA ReleaseStep ==
    ASSUME IInv, NEW q \in Requests, NEW c \in Doing(q), NEW ok \in BOOLEAN,
           \/ c = "release_not_dispatched" /\ release_quota_reservation(q, TRUE, TRUE, ok)
           \/ c = "release_quota" /\ release_quota_reservation(q, FALSE, FALSE, ok)
    PROVE  CallStep(c, q, ok)
<1>1. CASE c = "release_not_dispatched" /\ release_quota_reservation(q, TRUE, TRUE, ok)
  <2>1. Refundable(q)
    BY <1>1, NotSent DEF Refundable, Unsent, Calls
  <2>2. RowStep(c, q)
    BY ZenonT(60), <1>1, <2>1, EndsOwn DEF release_quota_reservation, Active
  <2>3. ClaimStep(c, q)
    BY <1>1, ClearedClaim DEF ClaimStep, release_quota_reservation, Unsent
  <2>4. QED
    BY <1>1, <2>2, <2>3 DEF CallStep, OkStep, RecordStep, release_quota_reservation
<1>2. CASE c = "release_quota" /\ release_quota_reservation(q, FALSE, FALSE, ok)
  <2>2. RowStep(c, q)
    BY ZenonT(60), <1>2, EndsOwn DEF release_quota_reservation, Active
  <2>3. ClaimStep(c, q)
    BY <1>2, ClearedClaim DEF ClaimStep, release_quota_reservation
  <2>4. QED
    BY <1>2, <2>2, <2>3 DEF CallStep, OkStep, RecordStep, release_quota_reservation
<1>3. QED
  BY ZenonT(60), <1>1, <1>2

LEMMA SuccessStep ==
    ASSUME IInv, NEW q \in Requests, NEW ok \in BOOLEAN, finish_success(q, ok)
    PROVE  CallStep("finish_success", q, ok)
<1>0. OkStep("finish_success", q)
  BY DEF OkStep
<1>1. CASE UNCHANGED database
  BY <1>0, <1>1, Nothing
<1>2. CASE /\ Owned(q) /\ res[q].state \in {"dispatched", "settled"}
           /\ record' = IF Keyed(q) /\ record[Key[q]] = None THEN [record EXCEPT ![Key[q]] = q] ELSE record
           /\ res' = [res EXCEPT ![q] = Settled(res[q])]
           /\ claim' = Cleared(q)
           /\ UNCHANGED audit
  <2>1. RowStep("finish_success", q)
    BY ZenonT(60), <1>2, EndsOwn
  <2>2. Keyed(q) => Key[q] \in Keys /\ Holds(q) /\ claim[Key[q]].dispatched /\ record[Key[q]] = None
    BY <1>2, KeyOfRequest DEF Owned, IInv, Claimed, Holds
  <2>3. record \in [Keys -> Requests \cup {None}]
    BY ZenonT(60) DEF IInv, TypeOK
  <2>4. ASSUME NEW k \in Keys
        PROVE  IF Keyed(q) /\ Key[q] = k THEN record'[k] = q ELSE record'[k] = record[k]
    BY ZenonT(60), <1>2, <2>2, <2>3
  <2>5. ClaimStep("finish_success", q)
    BY <1>2, <2>4, ClearedClaim DEF ClaimStep, Holds
  <2>6. RecordStep(q)
    BY <1>2, <2>2, <2>4, ClearedClaim DEF RecordStep
  <2>7. QED
    BY <1>0, <1>2, <2>1, <2>5, <2>6 DEF CallStep
<1>3. QED
  BY <1>1, <1>2 DEF finish_success, Same

LEMMA NotDispatchedStep ==
    ASSUME IInv, NEW q \in Requests, NEW ok \in BOOLEAN,
           "finish_not_dispatched" \in Doing(q), finish_not_dispatched(q, ok)
    PROVE  CallStep("finish_not_dispatched", q, ok)
<1>0. OkStep("finish_not_dispatched", q)
  BY DEF OkStep
<1>1. CASE UNCHANGED database
  BY ZenonT(60), <1>0, <1>1, Nothing
<1>2. CASE /\ res[q].state = "dispatched"
           /\ res' = [res EXCEPT ![q] = Released(Refunded(res[q]))]
           /\ claim' = Cleared(q)
           /\ UNCHANGED <<record, audit, usage>>
  <2>1. Refundable(q)
    BY NotSent DEF Refundable, Unsent, Calls
  <2>2. RowStep("finish_not_dispatched", q)
    BY ZenonT(60), <1>2, <2>1, EndsOwn
  <2>3. ClaimStep("finish_not_dispatched", q)
    BY <1>2, ClearedClaim DEF ClaimStep, Unsent
  <2>4. QED
    BY <1>0, <1>2, <2>2, <2>3 DEF CallStep, RecordStep
<1>3. QED
  BY <1>1, <1>2 DEF finish_not_dispatched, Same

LEMMA ReadFailureStep ==
    ASSUME IInv, NEW q \in Requests, NEW ok \in BOOLEAN, finish_read_failure(q, ok)
    PROVE  CallStep("finish_read_failure", q, ok)
<1>0. OkStep("finish_read_failure", q)
  BY DEF OkStep
<1>1. CASE UNCHANGED database
  BY <1>0, <1>1, Nothing
<1>2. CASE /\ res' = IF res[q].state = "dispatched" THEN [res EXCEPT ![q] = Settled(res[q])] ELSE res
           /\ claim' = Cleared(q)
           /\ UNCHANGED <<record, audit>>
  <2>1. RowStep("finish_read_failure", q)
    <3>1. CASE res[q].state = "dispatched"
      BY ZenonT(60), <1>2, <3>1, EndsOwn
    <3>2. CASE res[q].state # "dispatched"
      BY ZenonT(60), <1>2, <3>2 DEF RowStep, SameRow
    <3>3. QED
      BY <3>1, <3>2
  <2>2. ClaimStep("finish_read_failure", q)
    BY <1>2, ClearedClaim DEF ClaimStep, Reading
  <2>3. QED
    BY <1>0, <1>2, <2>1, <2>2 DEF CallStep, RecordStep
<1>3. QED
  BY ZenonT(60), <1>1, <1>2 DEF finish_read_failure, Same

(* What finish_read_timeout has selected is an active reservation. *)
LEMMA Selected ==
    ASSUME IInv, NEW q \in Requests, NEW r \in exec[q].seen
    PROVE  r.of \in Requests /\ r.state \in Active
<1>1. exec[q] \in Execution
  BY ZenonT(60) DEF IInv, TypeOK
<1>2. exec[q].seen \subseteq [of : Requests, state : Active]
  BY <1>1 DEF Execution
<1>3. r \in [of : Requests, state : Active]
  BY <1>2
<1>4. QED
  BY <1>3

(* What finish_read_timeout refunds has not been sent. *)
LEMMA TimeoutRefund ==
    ASSUME IInv, NEW q \in Requests, "finish_read_timeout" \in Doing(q), Holds(q),
           NEW r \in exec[q].seen,
           ~(/\ r.state = "dispatched" /\ claim[Key[q]].dispatched
             /\ exec[q].outcome # "NotDispatched")
    PROVE  Refundable(r.of) /\ res[r.of].state # "none"
<1>1. r.of \in Requests /\ r.state \in Active
  BY Selected
<1>2. /\ Key[r.of] = Key[q] /\ res[r.of].state # "none"
      /\ r.of # q => effect[r.of] = "none"
      /\ r.of = q /\ r.state = "pending" => effect[q] = "none"
  BY DEF IInv, Selection
<1>3. CASE r.of # q
  <2>1. Keyed(r.of) /\ ~Holds(r.of)
    BY <1>2, <1>3 DEF Holds, Keyed
  <2>2. exec[r.of].at \notin Running
    BY ZenonT(60), <1>1, <2>1 DEF IInv, Claimed
  <2>3. QED
    BY <1>2, <1>3, <2>2 DEF Refundable
<1>4. CASE r.of = q
  <2>1. exec[q].at \notin Running
    BY ZenonT(60), NotSent DEF Calls
  <2>2. ~claim[Key[q]].dispatched => exec[q].outcome = "NotDispatched"
    BY ZenonT(60) DEF IInv, Claimed
  <2>3. exec[q].outcome = "NotDispatched" => effect[q] = "none"
    BY DEF IInv, Executions, Executing
  <2>4. QED
    BY <1>1, <1>2, <1>4, <2>1, <2>2, <2>3 DEF Refundable, Active
<1>5. QED
  BY <1>3, <1>4

LEMMA ReadTimeoutStep ==
    ASSUME IInv, NEW q \in Requests, NEW ok \in BOOLEAN,
           "finish_read_timeout" \in Doing(q), finish_read_timeout(q, ok)
    PROVE  CallStep("finish_read_timeout", q, ok)
<1>0. OkStep("finish_read_timeout", q)
  BY ZenonT(60) DEF OkStep
<1>1. CASE ~Holds(q)
  BY ZenonT(60), <1>0, <1>1, Nothing DEF finish_read_timeout, Same
<1>2. CASE Holds(q)
  <2>1. ASSUME NEW p \in Requests
        PROVE  SameRow(p) \/ EndedRow(p)
    <3>1. res[p] \in Reservation
      BY DEF IInv, TypeOK
    <3>2. TimeoutRow(q, p)
      BY <1>2, TimeoutRows
    <3>3. CASE res'[p] = res[p]
      BY ZenonT(60), <3>3 DEF SameRow
    <3>4. CASE res'[p] = Settled(res[p]) /\ res[p].state = "dispatched"
      BY <3>1, <3>4, Rows DEF EndedRow
    <3>5. CASE /\ Refundable(p) /\ res[p].state # "none"
               /\ \/ res'[p] = Refunded(res[p]) /\ res[p].state \notin Active
                  \/ res'[p] = Released(Refunded(res[p]))
      <4>1. CASE res'[p] = Refunded(res[p]) /\ res[p].state \notin Active
        <5>1. res[p].state \in {"released", "settled"}
          BY ZenonT(60), <3>1, <3>5, <4>1 DEF Reservation, Active
        <5>2. QED
          BY <3>1, <3>5, <4>1, <5>1, Rows DEF EndedRow
      <4>2. CASE res'[p] = Released(Refunded(res[p]))
        BY <3>1, <3>5, <4>2, Rows DEF EndedRow
      <4>3. QED
        BY ZenonT(60), <3>5, <4>1, <4>2
    <3>6. QED
      BY <1>2, <3>2, <3>3, <3>4, <3>5, TimeoutRefund DEF TimeoutRow
  <2>2. RowStep("finish_read_timeout", q)
    BY ZenonT(60), <2>1 DEF RowStep
  <2>3. claim' = Cleared(q) /\ UNCHANGED <<record, audit>>
    BY ZenonT(60), <1>2 DEF finish_read_timeout
  <2>4. ClaimStep("finish_read_timeout", q)
    BY <2>3, ClearedClaim DEF ClaimStep, Reading
  <2>5. QED
    BY ZenonT(60), <1>0, <2>2, <2>3, <2>4 DEF CallStep, RecordStep
<1>3. QED
  BY <1>1, <1>2

(* Every call is one of these steps. *)
LEMMA CallSteps ==
    ASSUME Library, IInv, NEW q \in Requests, NEW c \in Doing(q), NEW ok \in BOOLEAN, call(c, q, ok)
    PROVE  CallStep(c, q, ok)
  BY ZenonT(60), AcquireStep, ReleasePendingStep, ReserveStep, BindStep, MarkStep, ReleaseStep, SuccessStep,
     NotDispatchedStep, ReadFailureStep, ReadTimeoutStep DEF call

----------------------------------------------------------------------------
(* The steps that make a call. *)

LEMMA AfterCall ==
    ASSUME NEW q, NEW c \in Calls, NEW ok \in BOOLEAN, NEW a, a = After(q, c, ok)
    PROVE  /\ a \in Places \ {"acquire", "reserve", "finish_read_timeout", "run"}
           /\ a = "prepare" => c = "acquire"
           /\ a = "bind" => c = "reserve" /\ ok
           /\ a = "mark_dispatched" => c = "bind" /\ ok
           /\ a = "send" => c = "mark_dispatched" /\ ok
           /\ a \in Unsent => c \in Unsent
           /\ a \in Reading => q \in ReadOnly
           /\ c = "finish_read_timeout" => a = "over"
  BY DEF After, Calls, Places, Unsent, Reading

(* q goes on from call c, or call c is one that q has left behind. *)
Moved(c, q, ok) ==
    /\ c \in Calls /\ c \in Doing(q)
    /\ Others(q) /\ SameEvidence(q)
    /\ exec'[q].begun = FALSE /\ exec'[q].seen = {}
    /\ \/ /\ c = exec[q].at /\ exec'[q].late = exec[q].late
          /\ \E o \in BOOLEAN : (o => ok) /\ exec'[q].at = After(q, c, o)
       \/ c \in exec[q].late /\ exec'[q].at = exec[q].at /\ exec'[q].late = exec[q].late \ {c}
    /\ effect' = effect

LEMMA CallIsMove ==
    ASSUME Library, IInv, NEW q \in Requests, Returns(q) \/ Fails(q) \/ AnswerLost(q) \/ Late(q)
    PROVE  /\ TypeOK'
           /\ \E c \in Calls, ok \in BOOLEAN : CallStep(c, q, ok) /\ Moved(c, q, ok)
<1>0. TypeOK /\ ExecTypes
  BY DEF IInv, TypeOK, ExecTypes
<1>1. ASSUME NEW c, NEW ok, call(c, q, ok) PROVE c \in Calls
  BY ZenonT(60), <1>1 DEF call, Calls
<1>2. exec[q].at \in Doing(q) /\ exec[q].late \subseteq Doing(q)
  BY DEF Doing
<1>3. ASSUME NEW c \in Calls, NEW o \in BOOLEAN, NEW ok \in BOOLEAN, o => ok, c = exec[q].at,
             Goto(q, After(q, c, o)), effect' = effect
      PROVE  Moved(c, q, ok) /\ ExecTypes'
  <2>1. After(q, c, o) \in Places
    BY <1>3, AfterCall
  <2>2. /\ ExecTypes' /\ Others(q) /\ SameEvidence(q)
        /\ exec'[q].at = After(q, c, o) /\ exec'[q].late = exec[q].late
        /\ exec'[q].begun = FALSE /\ exec'[q].seen = {}
    BY ZenonT(60), <1>0, <1>3, <2>1, GotoFields
  <2>3. QED
    BY <1>2, <1>3, <2>2, Zenon DEF Moved
<1>4. ASSUME DatabaseTypes', ExecTypes', effect' = effect PROVE TypeOK'
  BY <1>0, <1>4 DEF TypeOK, DatabaseTypes, ExecTypes
<1>5. CASE Returns(q)
  <2>1. PICK ok \in BOOLEAN : call(exec[q].at, q, ok) /\ Goto(q, After(q, exec[q].at, ok))
    BY <1>5 DEF Returns
  <2>2. effect' = effect /\ exec[q].at \in Calls
    BY ZenonT(60), <1>1, <1>5, <2>1 DEF Returns
  <2>3. DatabaseTypes' /\ CallStep(exec[q].at, q, ok)
    BY <1>0, <1>2, <2>1, CallType, CallSteps
  <2>4. QED
    BY <1>3, <1>4, <2>1, <2>2, <2>3
<1>6. CASE AnswerLost(q)
  <2>1. PICK ok \in BOOLEAN : call(exec[q].at, q, ok)
    BY <1>6 DEF AnswerLost
  <2>2. effect' = effect /\ exec[q].at \in Calls /\ Goto(q, After(q, exec[q].at, FALSE))
    BY ZenonT(60), <1>1, <1>6, <2>1 DEF AnswerLost
  <2>3. DatabaseTypes' /\ CallStep(exec[q].at, q, ok)
    BY <1>0, <1>2, <2>1, CallType, CallSteps
  <2>4. QED
    BY ZenonT(60), <1>3, <1>4, <2>1, <2>2, <2>3
<1>7. CASE Fails(q)
  <2>1. effect' = effect /\ exec[q].at \in Calls /\ Goto(q, After(q, exec[q].at, FALSE)) /\ UNCHANGED database
    BY ZenonT(60), <1>7 DEF Fails
  <2>2. DatabaseTypes'
    BY <1>0, <2>1 DEF DatabaseTypes, TypeOK, database
  <2>3. CallStep(exec[q].at, q, FALSE)
    BY ZenonT(60), <2>1, Nothing
  <2>4. QED
    BY ZenonT(60), <1>3, <1>4, <2>1, <2>2, <2>3
<1>8. CASE Late(q)
  <2>1. PICK c \in exec[q].late :
           /\ \E ok \in BOOLEAN : call(c, q, ok)
           /\ exec' = [exec EXCEPT ![q].late = @ \ {c}, ![q].begun = FALSE, ![q].seen = {}]
           /\ effect' = effect
    BY ZenonT(60), <1>8 DEF Late
  <2>2. PICK ok \in BOOLEAN : call(c, q, ok)
    BY ZenonT(60), <2>1
  <2>3. DatabaseTypes' /\ CallStep(c, q, ok)
    BY <1>0, <1>2, <2>2, CallType, CallSteps
  <2>4. Moved(c, q, ok) /\ ExecTypes'
    BY ZenonT(60), <1>0, <1>1, <1>2, <2>1, <2>2, LateFields DEF Moved
  <2>5. QED
    BY <1>1, <1>4, <2>1, <2>2, <2>3, <2>4
<1>9. QED
  BY <1>5, <1>6, <1>7, <1>8

(* Where a request stands after a call. *)
LEMMA Place ==
    ASSUME IInv, NEW q \in Requests, NEW c \in Calls, NEW ok \in BOOLEAN, Moved(c, q, ok)
    PROVE  /\ exec'[q].late \subseteq exec[q].late
           /\ exec'[q].at \notin {"finish_read_timeout", "over"} => exec'[q].late = {}
           /\ exec'[q].at = "bind" => c = "reserve" /\ ok
           /\ exec'[q].at = "mark_dispatched" => c = "bind" /\ ok /\ c = exec[q].at
           /\ exec'[q].at \in Running =>
                 exec'[q].at = "send" /\ c = "mark_dispatched" /\ ok /\ c = exec[q].at
           /\ exec'[q].at \in Unsent => c \in Unsent
           /\ exec'[q].at \in Reading => q \in ReadOnly
           /\ exec'[q].at \notin {"acquire", "reserve"}
           /\ exec'[q].at = "prepare" => c = "acquire"
           /\ exec'[q].at = "finish_read_timeout" => exec[q].at = "finish_read_timeout"
<1>1. CASE /\ c = exec[q].at /\ exec'[q].late = exec[q].late
           /\ \E o \in BOOLEAN : (o => ok) /\ exec'[q].at = After(q, c, o)
  <2>1. c # "finish_read_timeout" => exec[q].late = {}
    BY <1>1 DEF IInv, Executions, Executing, Calls
  <2>2. PICK o \in BOOLEAN : (o => ok) /\ exec'[q].at = After(q, c, o)
    BY ZenonT(60), <1>1
  <2>3. QED
    BY <1>1, <2>1, <2>2, AfterCall DEF Running
<1>2. CASE c \in exec[q].late /\ exec'[q].at = exec[q].at /\ exec'[q].late = exec[q].late \ {c}
  <2>1. exec[q].at \in {"finish_read_timeout", "over"}
    BY ZenonT(60), <1>2 DEF IInv, Executions, Executing
  <2>2. exec[q].at = "finish_read_timeout" => q \in ReadOnly
    BY DEF IInv, Executions, Executing, Doing, Reading
  <2>3. QED
    BY ZenonT(60), <1>2, <2>1, <2>2 DEF Running, Unsent, Reading
<1>3. QED
  BY ZenonT(60), <1>1, <1>2 DEF Moved

LEMMA CallExecutions ==
    ASSUME IInv, NEW q \in Requests, NEW c \in Calls, NEW ok \in BOOLEAN, Moved(c, q, ok)
    PROVE  Executions'
<1>1. \A p \in Requests : Executing(p)
  BY ZenonT(60) DEF IInv, Executions
<1>2. effect' = effect /\ Others(q) /\ SameEvidence(q) /\ exec'[q].begun = FALSE /\ exec'[q].seen = {}
      /\ c \in Doing(q)
  BY ZenonT(60) DEF Moved
<1>3. ASSUME NEW p \in Requests, p # q PROVE Executing(p)'
  BY <1>1, <1>2, <1>3 DEF Executing, Others, Doing
<1>4. Executing(q)'
  <2>1. \A d \in Doing(q)' : d \in Doing(q) \/ d = exec'[q].at
    BY Place DEF Doing
  <2>2. \A d \in Doing(q)' : d \in Unsent => exec'[q].outcome = "NotDispatched"
    <3>1. exec'[q].at \in Unsent => c \in Unsent
      BY Place
    <3>2. \A d \in Doing(q) : d \in Unsent => exec[q].outcome = "NotDispatched"
      BY <1>1, Zenon DEF Executing
    <3>3. QED
      BY <1>2, <2>1, <3>1, <3>2, Zenon DEF SameEvidence
  <2>3. \A d \in Doing(q)' : d \in Reading => q \in ReadOnly
    <3>1. exec'[q].at \in Reading => q \in ReadOnly
      BY Place
    <3>2. \A d \in Doing(q) : d \in Reading => q \in ReadOnly
      BY <1>1, Zenon DEF Executing
    <3>3. QED
      BY <2>1, <3>1, <3>2, Zenon
  <2>4. "finish_read_timeout" \in Doing(q)' => "finish_read_timeout" \in Doing(q)
    BY ZenonT(60), <2>1, Place DEF Doing
  <2>5. "acquire" \in Doing(q)' => "acquire" \in Doing(q)
    BY ZenonT(60), <2>1, Place
  <2>6. /\ exec'[q].at \notin {"finish_read_timeout", "over"} => exec'[q].late = {}
        /\ \A b, d \in exec'[q].late : b = d \/ "finish_read_timeout" \in {b, d}
    BY <1>1, Place DEF Executing
  <2>7. exec[q].at \notin Running
    BY ZenonT(60), <1>2, NotSent
  <2>8. exec'[q].at # "run" /\ exec'[q].tries = 0 /\ 0 < Tries
    BY <1>1, <1>2, <2>7, Place, ClaimsAssumption DEF Executing, SameEvidence, Running
  <2>9. exec'[q].outcome = "NotDispatched" => effect'[q] = "none"
    BY ZenonT(60), <1>1, <1>2 DEF Executing, SameEvidence
  <2>10. QED
    BY ZenonT(60), <1>1, <1>2, <2>2, <2>3, <2>4, <2>5, <2>6, <2>8, <2>9 DEF Executing
<1>5. QED
  BY <1>3, <1>4 DEF Executions

LEMMA CallClaimed ==
    ASSUME IInv, TypeOK', NEW q \in Requests, NEW c \in Calls, NEW ok \in BOOLEAN,
           CallStep(c, q, ok), Moved(c, q, ok)
    PROVE  Claimed'
<1>0. /\ ClaimStep(c, q) /\ RecordStep(q) /\ audit' = audit /\ Others(q) /\ SameEvidence(q)
      /\ c \in Doing(q) /\ Claimed
  BY ZenonT(60) DEF CallStep, Moved, IInv
<1>1. ASSUME NEW k \in Keys, claim'[k] # None
      PROVE  record'[k] = None /\ Key[claim'[k].req] = k /\ (audit'[k] # None => claim'[k].dispatched)
  <2>1. record'[k] = record[k]
    BY ZenonT(60), <1>0, <1>1 DEF RecordStep
  <2>2. CASE claim'[k] = claim[k]
    BY ZenonT(60), <1>0, <1>1, <2>1, <2>2 DEF Claimed
  <2>3. CASE Key[q] = k /\ Takeable(k) /\ claim'[k].req = q
    BY ZenonT(60), <1>0, <2>1, <2>3 DEF Takeable
  <2>4. CASE Key[q] = k /\ Holds(q) /\ claim'[k].req = q /\ claim'[k].dispatched
    BY ZenonT(60), <1>0, <2>1, <2>4 DEF Claimed, Holds
  <2>5. QED
    BY ZenonT(60), <1>0, <1>1, <2>2, <2>3, <2>4 DEF ClaimStep
<1>2. ASSUME NEW p \in Requests, Keyed(p), exec'[p].at \in Running
      PROVE  Holds(p)' /\ claim'[Key[p]].dispatched /\ audit'[Key[p]] = None
  <2>1. CASE p # q
    <3>1. Holds(p) /\ claim[Key[p]].dispatched /\ audit[Key[p]] = None
      BY ZenonT(60), <1>0, <1>2, <2>1 DEF Claimed, Others
    <3>2. Key[p] \in Keys
      BY ZenonT(60), <1>2, KeyOfRequest
    <3>3. claim'[Key[p]] = claim[Key[p]]
      BY ZenonT(60), <1>0, <2>1, <3>1, <3>2 DEF ClaimStep, Holds, Takeable
    <3>4. QED
      BY ZenonT(60), <1>0, <3>1, <3>3 DEF Holds
  <2>2. CASE p = q
    <3>1. c = "mark_dispatched" /\ ok /\ c = exec[q].at
      BY ZenonT(60), <1>2, <2>2, Place
    <3>2. res[q].state # "dispatched"
      BY ZenonT(60), <3>1 DEF IInv, Reserved, ReservedFor
    <3>3. Holds(q) /\ ~claim[Key[q]].dispatched /\ Holds(q)' /\ claim'[Key[q]].dispatched
      BY ZenonT(60), <1>2, <2>2, <3>1, <3>2 DEF CallStep, OkStep
    <3>4. audit[Key[q]] = None
      BY ZenonT(60), <1>0, <1>2, <2>2, <3>3, KeyOfRequest DEF Claimed, Holds
    <3>5. QED
      BY ZenonT(60), <1>0, <2>2, <3>3, <3>4
  <2>3. QED
    BY ZenonT(60), <2>1, <2>2
<1>3. ASSUME NEW p \in Requests, Holds(p)', exec'[p].outcome # "NotDispatched"
      PROVE  claim'[Key[p]].dispatched
  <2>1. Key[p] \in Keys /\ claim'[Key[p]] # None /\ claim'[Key[p]].req = p
    BY ZenonT(60), <1>3, KeyOfRequest DEF Holds, Keyed
  <2>2. exec[p].outcome # "NotDispatched"
    BY ZenonT(60), <1>0, <1>3 DEF Others, SameEvidence
  <2>3. CASE claim'[Key[p]] = claim[Key[p]]
    BY ZenonT(60), <1>0, <1>3, <2>1, <2>2, <2>3 DEF Claimed, Holds
  <2>4. CASE c = "acquire" /\ p = q
    BY <1>0, <2>2, <2>4 DEF IInv, Executions, Executing, Unsent
  <2>5. QED
    BY ZenonT(60), <1>0, <2>1, <2>3, <2>4 DEF ClaimStep
<1>4. QED
  BY ZenonT(60), <1>1, <1>2, <1>3 DEF Claimed

LEMMA CallReserved ==
    ASSUME IInv, NEW q \in Requests, NEW c \in Calls, NEW ok \in BOOLEAN,
           CallStep(c, q, ok), Moved(c, q, ok)
    PROVE  Reserved'
<1>0. /\ RowStep(c, q) /\ (ok => OkStep(c, q)) /\ Others(q) /\ effect' = effect /\ c \in Doing(q)
      /\ \A p \in Requests : ReservedFor(p)
  BY DEF CallStep, Moved, IInv, Reserved
<1>1. ASSUME NEW p \in Requests, p # q PROVE ReservedFor(p)'
  <2>1. SameRow(p) \/ EndedRow(p)
    BY ZenonT(60), <1>0, <1>1 DEF RowStep
  <2>2. exec'[p] = exec[p] /\ effect'[p] = effect[p] /\ Doing(p)' = Doing(p)
    BY ZenonT(60), <1>0, <1>1 DEF Others, Doing
  <2>3. CASE SameRow(p)
    BY ZenonT(60), <1>0, <2>2, <2>3 DEF ReservedFor, SameRow
  <2>4. CASE EndedRow(p)
    BY <1>0, <2>2, <2>4 DEF ReservedFor, EndedRow, Refundable
  <2>5. QED
    BY <2>1, <2>3, <2>4
<1>2. ReservedFor(q)'
  <2>1. effect'[q] = effect[q]
    BY ZenonT(60), <1>0
  <2>2. \A d \in Doing(q)' : d \in Doing(q) \/ d = exec'[q].at
    BY ZenonT(60), Place DEF Doing
  <2>3. c = "reserve" => Doing(q)' \cap {"acquire", "prepare", "reserve"} = {}
    <3>1. exec'[q].at \notin {"acquire", "reserve"} /\ (c = "reserve" => exec'[q].at # "prepare")
      BY ZenonT(60), Place
    <3>2. ASSUME NEW d \in exec'[q].late, c = "reserve" PROVE d \notin {"acquire", "prepare", "reserve"}
      <4>1. d \in exec[q].late
        BY ZenonT(60), Place
      <4>2. c \in exec[q].late /\ exec'[q].late = exec[q].late \ {c}
        BY ZenonT(60), <3>2, <4>1 DEF Moved, IInv, Executions, Executing
      <4>3. d # c
        BY <3>2, <4>2
      <4>4. QED
        BY ZenonT(60), <3>2, <4>1, <4>2, <4>3 DEF IInv, Executions, Executing
    <3>3. QED
      BY ZenonT(60), <3>1, <3>2 DEF Doing
  <2>4. \A d \in Doing(q)' : d \in {"acquire", "prepare", "reserve"} => res[q].state = "none"
    BY ZenonT(60), <1>0, <2>2, Place DEF ReservedFor
  <2>5. exec'[q].at \in Running => c = "mark_dispatched" /\ DispatchedRow(q) /\ (Keyed(q) => res[q].bound)
    <3>1. ASSUME exec'[q].at \in Running
          PROVE  c = "mark_dispatched" /\ ok /\ c = exec[q].at
      BY ZenonT(60), <3>1, Place
    <3>2. QED
      BY ZenonT(60), <1>0, <3>1 DEF ReservedFor, OkStep
  <2>6. /\ c \in {"acquire", "reserve"} => res[q].state = "none"
        /\ c = "bind" /\ c = exec[q].at => res[q].state \notin {"none", "dispatched"}
        /\ \A d \in Doing(q) : d = "mark_dispatched" /\ Keyed(q) => res[q].bound
    BY ZenonT(60), <1>0 DEF ReservedFor
  <2>bind. exec'[q].at = "bind" => c = "reserve" /\ res'[q].state = "pending"
    BY ZenonT(60), <1>0, Place DEF OkStep
  <2>mark. exec'[q].at = "mark_dispatched" => c = "bind" /\ c = exec[q].at /\ (Keyed(q) => res'[q].bound)
    BY <1>0, Place DEF OkStep
  <2>7. CASE SameRow(q)
    <3>1. exec'[q].at \notin Running
      BY ZenonT(60), <2>5, <2>7 DEF SameRow, DispatchedRow
    <3>2. \A d \in Doing(q)' : d = "mark_dispatched" /\ Keyed(q) => res'[q].bound
      BY ZenonT(60), <2>2, <2>6, <2>7, <2>mark DEF SameRow
    <3>3. exec'[q].at \in {"bind", "mark_dispatched"} => res'[q].state \notin {"none", "dispatched"}
      BY ZenonT(60), <2>6, <2>7, <2>bind, <2>mark DEF SameRow
    <3>4. QED
      BY ZenonT(60), <1>0, <2>1, <2>4, <2>7, <3>1, <3>2, <3>3 DEF ReservedFor, SameRow
  <2>8. CASE EndedRow(q)
    <3>1. exec'[q].at \notin Running
      BY ZenonT(60), <2>5, <2>8 DEF EndedRow, DispatchedRow
    <3>2. \A d \in Doing(q)' : d = "mark_dispatched" /\ Keyed(q) => res'[q].bound
      BY ZenonT(60), <2>2, <2>6, <2>8, <2>mark DEF EndedRow
    <3>3. QED
      BY ZenonT(60), <1>0, <2>1, <2>4, <2>8, <3>1, <3>2 DEF ReservedFor, EndedRow, Refundable
  <2>9. CASE c = "reserve" /\ ReservedRow(q)
    <3>1. exec'[q].at \notin Running
      BY <2>5, <2>9
    <3>2. \A d \in Doing(q)' : d = "mark_dispatched" => ~Keyed(q)
      BY ZenonT(60), <1>0, <2>2, <2>6, <2>9, Place DEF ReservedFor
    <3>3. QED
      BY ZenonT(60), <1>0, <2>1, <2>3, <2>6, <2>9, <3>1, <3>2 DEF ReservedFor, ReservedRow
  <2>10. CASE c = "bind" /\ BoundRow(q)
    <3>1. exec'[q].at \notin Running
      BY ZenonT(60), <2>5, <2>10
    <3>2. exec'[q].at \in {"bind", "mark_dispatched"} => res'[q].state \notin {"none", "dispatched"}
      BY ZenonT(60), <2>6, <2>10, <2>bind, <2>mark DEF BoundRow
    <3>3. QED
      BY ZenonT(60), <1>0, <2>1, <2>4, <2>10, <3>1, <3>2 DEF ReservedFor, BoundRow
  <2>11. CASE c = "mark_dispatched" /\ DispatchedRow(q)
    <3>1. exec'[q].at \notin {"bind", "mark_dispatched"}
      BY ZenonT(60), <2>11, Place
    <3>2. Keyed(q) => res'[q].bound
      BY ZenonT(60), <1>0, <2>11 DEF ReservedFor, DispatchedRow
    <3>3. effect'[q] = "none" /\ ~res'[q].refunded
      BY ZenonT(60), <1>0, <2>1, <2>11 DEF ReservedFor, DispatchedRow
    <3>4. QED
      BY ZenonT(60), <2>4, <2>11, <3>1, <3>2, <3>3 DEF ReservedFor, DispatchedRow
  <2>12. QED
    BY <1>0, <2>7, <2>8, <2>9, <2>10, <2>11 DEF RowStep
<1>3. QED
  BY ZenonT(60), <1>1, <1>2 DEF Reserved

LEMMA CallSelection ==
    ASSUME IInv, NEW q \in Requests, NEW c \in Calls, NEW ok \in BOOLEAN,
           CallStep(c, q, ok), Moved(c, q, ok)
    PROVE  Selection'
<1>0. /\ ClaimStep(c, q) /\ RowStep(c, q) /\ Others(q) /\ effect' = effect /\ exec'[q].seen = {}
      /\ Selection
  BY ZenonT(60) DEF CallStep, Moved, IInv
<1>1. ASSUME NEW p \in Requests, res[p].state # "none" PROVE res'[p].state # "none"
  BY ZenonT(60), <1>0, <1>1 DEF RowStep, SameRow, EndedRow, ReservedRow, BoundRow, DispatchedRow
<1>2. ASSUME NEW p \in Requests, p # q, Holds(p)' PROVE Holds(p)
  BY ZenonT(60), <1>0, <1>2, KeyOfRequest DEF ClaimStep, Holds, Keyed
<1>3. ASSUME NEW p \in Requests, NEW r \in exec'[p].seen
      PROVE  /\ Key[r.of] = Key[p]
             /\ res'[r.of].state # "none"
             /\ r.of # p /\ Holds(p)' => effect'[r.of] = "none"
             /\ r.of = p /\ r.state = "pending" => effect'[p] = "none"
  <2>1. p # q /\ r \in exec[p].seen
    BY ZenonT(60), <1>0 DEF Others
  <2>2. r.of \in Requests
    BY ZenonT(60), <2>1, Selected
  <2>3. QED
    BY ZenonT(60), <1>0, <1>1, <1>2, <2>1, <2>2 DEF Selection
<1>4. QED
  BY ZenonT(60), <1>3 DEF Selection

LEMMA CallFence ==
    ASSUME IInv, NEW q \in Requests, NEW c \in Calls, NEW ok \in BOOLEAN,
           CallStep(c, q, ok), Moved(c, q, ok)
    PROVE  DispatchFence'
<1>0. /\ ClaimStep(c, q) /\ RecordStep(q) /\ effect' = effect /\ c \in Doing(q)
      /\ DispatchFence /\ Claimed
  BY ZenonT(60) DEF CallStep, Moved, IInv
<1>1. SUFFICES ASSUME NEW p \in Requests \ ReadOnly, Keyed(p), effect[p] # "none"
               PROVE  \/ Holds(p)' /\ claim'[Key[p]].dispatched
                      \/ record'[Key[p]] = p
  BY ZenonT(60), <1>0 DEF DispatchFence
<1>2. Key[p] \in Keys
  BY ZenonT(60), <1>1, KeyOfRequest
<1>3. CASE record[Key[p]] = p
  BY <1>0, <1>2, <1>3, ClaimsAssumption DEF RecordStep
<1>4. CASE Holds(p) /\ claim[Key[p]].dispatched
  <2>1. CASE claim'[Key[p]] = claim[Key[p]]
    BY ZenonT(60), <1>4, <2>1 DEF Holds
  <2>2. CASE p = q /\ c \in Unsent
    BY ZenonT(60), <1>0, <1>1, <2>2, NotSent
  <2>3. CASE p = q /\ c \in Reading
    BY ZenonT(60), <1>0, <1>1, <2>3 DEF IInv, Executions, Executing
  <2>4. \/ claim'[Key[p]] = claim[Key[p]]
        \/ Key[q] = Key[p] /\ Holds(q) /\ (c \in Unsent \cup Reading \/ record'[Key[p]] = q)
    <3>1. claim[Key[p]] # None
      BY ZenonT(60), <1>4 DEF Holds
    <3>2. QED
      BY ZenonT(60), <1>0, <1>2, <1>4, <3>1 DEF ClaimStep, Takeable
  <2>5. Key[q] = Key[p] /\ Holds(q) => p = q
    BY <1>4 DEF Holds
  <2>6. QED
    BY Zenon, <2>1, <2>2, <2>3, <2>4, <2>5
<1>5. QED
  BY ZenonT(60), <1>0, <1>1, <1>3, <1>4 DEF DispatchFence

(* The steps that make a call preserve the invariant. *)
LEMMA CallInvariant ==
    ASSUME Library, IInv, NEW q \in Requests, Returns(q) \/ Fails(q) \/ AnswerLost(q) \/ Late(q)
    PROVE  IInv'
<1>1. TypeOK'
  BY CallIsMove
<1>2. PICK c \in Calls, ok \in BOOLEAN : CallStep(c, q, ok) /\ Moved(c, q, ok)
  BY CallIsMove
<1>3. Executions'
  BY <1>2, CallExecutions
<1>4. Claimed'
  BY <1>1, <1>2, CallClaimed
<1>5. Reserved'
  BY <1>2, CallReserved
<1>6. Selection'
  BY ZenonT(60), <1>2, CallSelection
<1>7. DispatchFence'
  BY <1>2, CallFence
<1>8. QED
  BY <1>1, <1>3, <1>4, <1>5, <1>6, <1>7 DEF IInv

----------------------------------------------------------------------------

(* The steps of an execution that make no call. *)

(* The other executions are as they were. *)
LEMMA OnlyExecuting ==
    ASSUME IInv, NEW q \in Requests, Others(q), Executing(q)',
           \A p \in Requests : p # q => effect'[p] = effect[p]
    PROVE  Executions'
<1>1. ASSUME NEW p \in Requests, p # q PROVE Executing(p)'
  <2>1. Executing(p) /\ exec'[p] = exec[p] /\ effect'[p] = effect[p]
    BY ZenonT(60), <1>1 DEF IInv, Executions, Others
  <2>2. QED
    BY ZenonT(60), <2>1 DEF Executing, Doing
<1>2. QED
  BY <1>1 DEF Executions

(* Only the place of q and its evidence change. *)
LEMMA OnlyPlace ==
    ASSUME IInv, NEW q \in Requests, UNCHANGED <<database, effect>>, Others(q),
           exec'[q].at \in Running => exec[q].at \in Running,
           exec'[q].at \notin {"bind", "mark_dispatched"},
           exec'[q].outcome # "NotDispatched" => exec[q].outcome # "NotDispatched",
           "mark_dispatched" \in Doing(q)' => "mark_dispatched" \in Doing(q),
           \A d \in Doing(q)' : d \in {"acquire", "prepare", "reserve"} =>
               \E e \in Doing(q) : e \in {"acquire", "prepare", "reserve"}
    PROVE  Claimed' /\ Reserved' /\ DispatchFence'
<1>0. UNCHANGED <<claim, record, audit, res, usage, effect>>
  BY DEF database
<1>1. Claimed'
  <2>1. \A p \in Requests : exec'[p].at \in Running => exec[p].at \in Running
    BY ZenonT(60) DEF Others
  <2>2. \A p \in Requests : exec'[p].outcome # "NotDispatched" => exec[p].outcome # "NotDispatched"
    BY ZenonT(60) DEF Others
  <2>3. QED
    BY ZenonT(60), <1>0, <2>1, <2>2 DEF IInv, Claimed, Holds
<1>2. Reserved'
  <2>1. ASSUME NEW p \in Requests, p # q PROVE ReservedFor(p)'
    <3>1. ReservedFor(p) /\ exec'[p] = exec[p]
      BY ZenonT(60), <2>1 DEF IInv, Reserved, Others
    <3>2. QED
      BY ZenonT(60), <1>0, <3>1 DEF ReservedFor, Doing
  <2>2. ReservedFor(q)'
    <3>1. ReservedFor(q)
      BY ZenonT(60) DEF IInv, Reserved
    <3>2. QED
      BY ZenonT(60), <1>0, <3>1 DEF ReservedFor
  <2>3. QED
    BY ZenonT(60), <2>1, <2>2 DEF Reserved
<1>3. DispatchFence'
  BY ZenonT(60), <1>0 DEF IInv, DispatchFence, Holds
<1>4. QED
  BY ZenonT(60), <1>1, <1>2, <1>3

LEMMA OnlyPlaceSelection ==
    ASSUME IInv, NEW q \in Requests, UNCHANGED <<database, effect>>, Others(q),
           exec'[q].seen \subseteq exec[q].seen
    PROVE  Selection'
<1>0. UNCHANGED <<claim, res, effect>>
  BY DEF database
<1>1. \A p \in Requests : exec'[p].seen \subseteq exec[p].seen
  BY ZenonT(60) DEF Others
<1>2. QED
  BY ZenonT(60), <1>0, <1>1 DEF IInv, Selection, Holds

(* A quiet step is well typed when the executions are. *)
LEMMA QuietType ==
    ASSUME TypeOK, UNCHANGED <<database, effect>>, ExecTypes'
    PROVE  TypeOK'
  BY DEF TypeOK, ExecTypes, database

LEMMA SelectInvariant ==
    ASSUME IInv, NEW q \in Requests, select_reservation(q)
    PROVE  IInv'
<1>0. /\ UNCHANGED <<database, effect>> /\ TypeOK /\ Executing(q) /\ ReservedFor(q) /\ Selection
      /\ "finish_read_timeout" \in Doing(q)
  BY DEF select_reservation, IInv, Executions, Reserved, Doing
<1>1. /\ ExecTypes' /\ Others(q) /\ SameEvidence(q)
      /\ exec'[q].at = exec[q].at /\ exec'[q].late = exec[q].late
      /\ exec'[q].begun = TRUE
      /\ exec'[q].seen = {[of |-> p, state |-> res[p].state] : p \in Newest(q)}
  BY ZenonT(60), <1>0, SelectFields
<1>2. TypeOK'
  BY ZenonT(60), <1>0, <1>1, QuietType
<1>3. Doing(q)' = Doing(q)
  BY ZenonT(60), <1>1 DEF Doing
<1>4. exec[q].at \notin Running \cup {"bind", "mark_dispatched"}
  BY <1>0 DEF Executing, Doing, Running
<1>5. Executing(q)'
  <2>1. effect' = effect
    BY <1>0
  <2>2. /\ exec'[q].at = exec[q].at /\ exec'[q].late = exec[q].late
        /\ exec'[q].outcome = exec[q].outcome /\ exec'[q].prior = exec[q].prior
        /\ exec'[q].hit = exec[q].hit /\ exec'[q].tries = exec[q].tries
    BY ZenonT(60), <1>1 DEF SameEvidence
  <2>3. /\ (exec[q].begun)' => "finish_read_timeout" \in Doing(q)'
        /\ ~(exec[q].begun)' => (exec[q].seen)' = {}
    BY <1>0, <1>1, <1>3
  <2>4. Keyed(q)' = Keyed(q)
    BY DEF Keyed
  <2>5. Executing(q)
    BY <1>0
  <2>6. QED
    BY ZenonT(60), <1>3, <2>1, <2>2, <2>3, <2>4, <2>5 DEF Executing
<1>6. Executions'
  BY ZenonT(60), <1>0, <1>1, <1>5, OnlyExecuting
<1>7. Claimed' /\ Reserved' /\ DispatchFence'
  BY ZenonT(60), <1>0, <1>1, <1>3, <1>4, OnlyPlace DEF SameEvidence
<1>8. Selection'
  <2>1. UNCHANGED <<claim, res, effect>>
    BY <1>0 DEF database
  <2>2. ASSUME NEW p \in Requests, p # q, NEW r \in exec'[p].seen
        PROVE  /\ Key[r.of] = Key[p] /\ res'[r.of].state # "none"
               /\ r.of # p /\ Holds(p)' => effect'[r.of] = "none"
               /\ r.of = p /\ r.state = "pending" => effect'[p] = "none"
    <3>1. exec'[p].seen = exec[p].seen /\ Holds(p)' = Holds(p)
      BY ZenonT(60), <1>1, <2>1, <2>2 DEF Others, Holds
    <3>2. Selection
      BY ZenonT(60), <1>0
    <3>3. QED
      BY ZenonT(60), <2>1, <2>2, <3>1, <3>2 DEF Selection
  <2>3. ASSUME NEW r \in exec'[q].seen
        PROVE  /\ Key[r.of] = Key[q] /\ res[r.of].state # "none"
               /\ r.of # q => effect[r.of] = "none"
               /\ r.of = q /\ r.state = "pending" => effect[q] = "none"
    <3>1. PICK p \in Newest(q) : r = [of |-> p, state |-> res[p].state]
      BY ZenonT(60), <1>1, <2>3
    <3>2. r.of = p /\ r.state = res[p].state
      BY ZenonT(60), <3>1
    <3>3. p \in Requests /\ Key[p] = Key[q] /\ res[p].state \in Active /\ (p = q \/ ~res[p].bound)
      BY ZenonT(60), <3>1 DEF Newest, Candidates
    <3>4. Keyed(p)
      BY ZenonT(60), <1>0, <3>3 DEF Executing, Keyed
    <3>5. ReservedFor(p)
      BY <3>3 DEF IInv, Reserved
    <3>6. QED
      BY <3>2, <3>3, <3>4, <3>5 DEF ReservedFor, Active
  <2>4. QED
    BY ZenonT(60), <2>1, <2>2, <2>3 DEF Selection
<1>9. QED
  BY <1>2, <1>6, <1>7, <1>8 DEF IInv

(* prepare and record_replay. *)
LEMMA GotoInvariant ==
    ASSUME IInv, NEW q \in Requests, prepare(q) \/ record_replay(q)
    PROVE  IInv'
<1>0. UNCHANGED <<database, effect>> /\ TypeOK /\ ExecTypes /\ Executing(q)
  BY ZenonT(60) DEF prepare, record_replay, IInv, Executions, TypeOK, ExecTypes
<1>1. PICK place \in {"reserve", "release_pending", "finish_success", "over"} :
         /\ Goto(q, place)
         /\ IF place \in {"reserve", "release_pending"} THEN exec[q].at = "prepare" ELSE exec[q].at = "record_replay"
  BY DEF prepare, record_replay
<1>2. /\ ExecTypes' /\ Others(q) /\ SameEvidence(q)
      /\ exec'[q].at = place /\ exec'[q].late = exec[q].late
      /\ exec'[q].begun = FALSE /\ exec'[q].seen = {}
  BY ZenonT(60), <1>0, <1>1, GotoFields DEF Places, Calls
<1>3. TypeOK'
  BY ZenonT(60), <1>0, <1>2, QuietType
<1>4. exec[q].late = {}
  BY ZenonT(60), <1>0, <1>1 DEF Executing
<1>5. Doing(q)' = {place} /\ Doing(q) = {exec[q].at}
  BY <1>2, <1>4 DEF Doing
<1>6. Executing(q)'
  BY ZenonT(60), <1>0, <1>1, <1>2, <1>4, <1>5 DEF Executing, SameEvidence, Unsent, Reading, Running
<1>7. Executions'
  BY ZenonT(60), <1>0, <1>2, <1>6, OnlyExecuting
<1>8. Claimed' /\ Reserved' /\ DispatchFence'
  BY ZenonT(60), <1>0, <1>1, <1>2, <1>5, OnlyPlace DEF SameEvidence, Running
<1>9. Selection'
  BY <1>0, <1>2, OnlyPlaceSelection
<1>10. QED
  BY ZenonT(60), <1>3, <1>7, <1>8, <1>9 DEF IInv

LEMMA BeginInvariant ==
    ASSUME IInv, NEW q \in Requests, begin_attempt(q)
    PROVE  IInv'
<1>0. /\ UNCHANGED <<claim, record, audit, res, usage>> /\ exec[q].at = "send"
      /\ TypeOK /\ Executing(q) /\ ReservedFor(q) /\ Claimed /\ Reserved /\ Selection /\ DispatchFence
  BY DEF begin_attempt, IInv, Executions, Reserved, database
<1>1. /\ ExecTypes' /\ Others(q)
      /\ exec'[q].at = "run" /\ exec'[q].late = exec[q].late
      /\ exec'[q].begun = exec[q].begun /\ exec'[q].seen = exec[q].seen
      /\ exec'[q].prior = exec[q].outcome /\ exec'[q].outcome = "Unknown"
      /\ effect' = [effect EXCEPT ![q] = Worse(@, exec'[q].hit)]
      /\ exec'[q].hit \in Hits
  BY ZenonT(60), <1>0, BeginFields DEF Executing
<1>2. /\ effect'[q] = Worse(effect[q], exec'[q].hit)
      /\ \A p \in Requests : p # q => effect'[p] = effect[p]
  BY ZenonT(60), <1>0, <1>1 DEF TypeOK
<1>3. TypeOK'
  <2>1. effect' \in [Requests -> Hits]
    BY ZenonT(60), <1>0, <1>1 DEF TypeOK, Worse
  <2>2. QED
    BY ZenonT(60), <1>0, <1>1, <2>1 DEF TypeOK, ExecTypes
<1>4. exec[q].late = {} /\ Doing(q) = {"send"} /\ Doing(q)' = {"run"} /\ ~exec[q].begun /\ exec[q].seen = {}
  <2>1. exec[q].late = {}
    BY ZenonT(60), <1>0 DEF Executing
  <2>2. Doing(q) = {"send"} /\ Doing(q)' = {"run"}
    BY <1>0, <1>1, <2>1 DEF Doing
  <2>3. QED
    BY ZenonT(60), <1>0, <2>1, <2>2 DEF Executing
<1>5. Executing(q)'
  <2>1. exec'[q].prior = "NotDispatched" /\ exec'[q].hit = "none" => effect'[q] = "none"
    BY <1>0, <1>1, <1>2 DEF Executing, Worse
  <2>2. QED
    BY ZenonT(60), <1>1, <1>4, <2>1 DEF Executing, Unsent, Reading, Running
<1>6. Executions'
  BY ZenonT(60), <1>1, <1>2, <1>5, OnlyExecuting
<1>7. Keyed(q) => Holds(q) /\ claim[Key[q]].dispatched /\ audit[Key[q]] = None
  BY <1>0 DEF Claimed, Running
<1>8. Claimed'
  <2>1. \A p \in Requests : Keyed(p) /\ exec'[p].at \in Running =>
           Holds(p)' /\ claim'[Key[p]].dispatched /\ audit'[Key[p]] = None
    BY ZenonT(60), <1>0, <1>1, <1>7 DEF Claimed, Others, Holds
  <2>2. \A p \in Requests : Holds(p)' /\ exec'[p].outcome # "NotDispatched" => claim'[Key[p]].dispatched
    BY <1>0, <1>1, <1>7 DEF Claimed, Others, Holds
  <2>3. QED
    BY ZenonT(60), <1>0, <2>1, <2>2 DEF Claimed
<1>9. Reserved'
  <2>1. ASSUME NEW p \in Requests, p # q PROVE ReservedFor(p)'
    <3>1. ReservedFor(p) /\ exec'[p] = exec[p] /\ effect'[p] = effect[p] /\ res' = res
      BY ZenonT(60), <1>0, <1>1, <1>2, <2>1 DEF Reserved, Others
    <3>2. QED
      BY <3>1 DEF ReservedFor, Doing
  <2>2. ReservedFor(q)'
    BY ZenonT(60), <1>0, <1>1, <1>4 DEF ReservedFor, Running
  <2>3. QED
    BY ZenonT(60), <2>1, <2>2 DEF Reserved
<1>10. Selection'
  <2>1. ASSUME NEW p \in Requests, NEW r \in exec'[p].seen
        PROVE  /\ Key[r.of] = Key[p] /\ res'[r.of].state # "none"
               /\ r.of # p /\ Holds(p)' => effect'[r.of] = "none"
               /\ r.of = p /\ r.state = "pending" => effect'[p] = "none"
    <3>1. p # q /\ r \in exec[p].seen
      BY ZenonT(60), <1>1, <1>4 DEF Others
    <3>2. r.of \in Requests
      BY <3>1, Selected
    <3>3. /\ Key[r.of] = Key[p] /\ res[r.of].state # "none"
          /\ r.of # p /\ Holds(p) => effect[r.of] = "none"
          /\ r.of = p /\ r.state = "pending" => effect[p] = "none"
      BY ZenonT(60), <1>0, <3>1 DEF Selection
    <3>4. Holds(p)' => Holds(p)
      BY ZenonT(60), <1>0 DEF Holds
    <3>5. r.of = q => ~Holds(p)
      BY ZenonT(60), <1>7, <3>1, <3>3 DEF Holds, Keyed
    <3>6. QED
      BY ZenonT(60), <1>0, <1>2, <3>1, <3>2, <3>3, <3>4, <3>5
  <2>2. QED
    BY ZenonT(60), <2>1 DEF Selection
<1>11. DispatchFence'
  BY <1>0, <1>2, <1>7 DEF DispatchFence, Holds
<1>12. QED
  BY <1>3, <1>6, <1>8, <1>9, <1>10, <1>11 DEF IInv

(* What combined evidence says. *)
LEMMA Combined ==
    ASSUME NEW o1 \in Outcomes, NEW o2 \in Outcomes
    PROVE  /\ combine(o1, o2) \in Outcomes
           /\ combine(o1, o2) = "NotDispatched" => o1 = "NotDispatched" /\ o2 = "NotDispatched"
  BY DEF combine, Outcomes

LEMMA AttemptInvariant ==
    ASSUME IInv, NEW q \in Requests, Answered(q) \/ Failed(q)
    PROVE  IInv'
<1>0. /\ UNCHANGED <<database, effect>> /\ exec[q].at = "run"
      /\ TypeOK /\ ExecTypes /\ Executing(q) /\ exec[q] \in Execution
  BY ZenonT(60) DEF Answered, Failed, IInv, Executions, TypeOK, ExecTypes
<1>1. PICK o \in Outcomes, place \in {"record_replay", "finish_read_failure", "over", "send",
                                      "finish_not_dispatched", "release_quota"} :
         /\ finish_attempt(q, combine(exec[q].prior, o), place)
         /\ o = "NotDispatched" => exec[q].hit = "none"
         /\ place = "send" => exec[q].tries < Tries
         /\ place = "finish_read_failure" => q \in ReadOnly
         /\ place = "finish_not_dispatched" => combine(exec[q].prior, o) = "NotDispatched"
  <2>1. CASE Answered(q)
    <3>1. PICK place \in {"record_replay", IF q \in ReadOnly THEN "finish_read_failure" ELSE "over"} :
             finish_attempt(q, combine(exec[q].prior, "ResponseReceived"), place)
      BY <2>1 DEF Answered
    <3>2. "ResponseReceived" \in Outcomes
      BY ZenonT(60) DEF Outcomes
    <3>3. QED
      BY ZenonT(60), <3>1, <3>2
  <2>2. CASE Failed(q)
    <3>1. PICK o \in Outcomes, transient \in BOOLEAN :
             /\ MayReport(o, exec[q].hit)
             /\ finish_attempt(q, combine(exec[q].prior, o),
                               IF transient /\ exec[q].tries < attempts(q)
                               THEN "send" ELSE AfterFailure(q, combine(exec[q].prior, o)))
      BY ZenonT(60), <2>2 DEF Failed
    <3>2. o = "NotDispatched" => exec[q].hit = "none"
      BY ZenonT(60), <3>1 DEF MayReport
    <3>3. combine(exec[q].prior, o) \in Outcomes
      BY ZenonT(60), <1>0, Combined DEF Execution
    <3>4. exec[q].tries < attempts(q) => exec[q].tries < Tries
      BY <1>0, ClaimsAssumption DEF attempts, Execution
    <3>5. ASSUME NEW outcome \in Outcomes
          PROVE  /\ AfterFailure(q, outcome) \in {"over", "finish_not_dispatched", "release_quota"}
                 /\ AfterFailure(q, outcome) = "finish_not_dispatched" => outcome = "NotDispatched"
      BY ZenonT(60) DEF AfterFailure, Outcomes
    <3>6. QED
      BY ZenonT(60), <3>1, <3>2, <3>3, <3>4, <3>5
  <2>3. QED
    BY ZenonT(60), <2>1, <2>2
<1> DEFINE outcome == combine(exec[q].prior, o)
<1>2. outcome \in Outcomes /\ (outcome = "NotDispatched" => exec[q].prior = "NotDispatched" /\ o = "NotDispatched")
  BY <1>0, Combined DEF Execution
<1> HIDE DEF outcome
<1>3. /\ ExecTypes' /\ Others(q)
      /\ exec'[q].at = place /\ exec'[q].late = exec[q].late
      /\ exec'[q].begun = exec[q].begun /\ exec'[q].seen = exec[q].seen
      /\ exec'[q].outcome = outcome
      /\ exec'[q].tries = IF place = "send" THEN exec[q].tries ELSE 0
  BY ZenonT(60), <1>0, <1>1, <1>2, FinishFields DEF outcome, Places, Calls
<1>4. TypeOK'
  BY <1>0, <1>3, QuietType
<1>5. exec[q].late = {} /\ Doing(q) = {"run"} /\ Doing(q)' = {place} /\ ~exec[q].begun /\ exec[q].seen = {}
  <2>1. exec[q].late = {}
    BY ZenonT(60), <1>0 DEF Executing
  <2>2. Doing(q) = {"run"} /\ Doing(q)' = {place}
    BY <1>0, <1>3, <2>1 DEF Doing
  <2>3. QED
    BY ZenonT(60), <1>0, <2>1, <2>2 DEF Executing
<1>6. exec[q].outcome = "Unknown" /\ (outcome = "NotDispatched" => effect'[q] = "none")
  BY ZenonT(60), <1>0, <1>1, <1>2 DEF Executing
<1>7. Executing(q)'
  BY ZenonT(60), <1>1, <1>3, <1>5, <1>6 DEF outcome, Executing, Unsent, Reading, Running
<1>8. Executions'
  BY ZenonT(60), <1>0, <1>3, <1>7, OnlyExecuting
<1>9. Claimed' /\ Reserved' /\ DispatchFence'
  BY ZenonT(60), <1>0, <1>3, <1>5, <1>6, OnlyPlace DEF Running
<1>10. Selection'
  BY ZenonT(60), <1>0, <1>3, OnlyPlaceSelection
<1>11. QED
  BY ZenonT(60), <1>4, <1>8, <1>9, <1>10 DEF IInv

LEMMA DropInvariant ==
    ASSUME IInv, NEW q \in Requests, deadline(q) \/ Abandon(q)
    PROVE  IInv'
<1>0. UNCHANGED <<database, effect>> /\ TypeOK /\ ExecTypes /\ Executing(q)
  BY ZenonT(60) DEF deadline, Abandon, Drop, IInv, Executions, TypeOK, ExecTypes
<1>1. PICK place \in {"finish_read_timeout", "over"} :
         /\ Drop(q, place)
         /\ place = "finish_read_timeout" =>
               /\ q \in ReadOnly /\ Keyed(q)
               /\ exec[q].at \notin {"acquire", "finish_read_timeout", "over"}
  BY ZenonT(60) DEF deadline, Abandon
<1>2. /\ ExecTypes' /\ Others(q)
      /\ exec'[q].at = place /\ exec'[q].outcome = exec[q].outcome
      /\ exec'[q].begun = exec[q].begun /\ exec'[q].seen = exec[q].seen
      /\ exec'[q].tries = 0
      /\ \E started \in SUBSET ({exec[q].at} \cap Calls) :
             (exec[q].begun => started # {}) /\ exec'[q].late = exec[q].late \cup started
  BY ZenonT(60), <1>0, <1>1, DropFields DEF Places, Calls
<1>3. PICK started \in SUBSET ({exec[q].at} \cap Calls) :
         (exec[q].begun => started # {}) /\ exec'[q].late = exec[q].late \cup started
  BY ZenonT(60), <1>2
<1>4. TypeOK'
  BY ZenonT(60), <1>0, <1>2, QuietType
<1>5. exec[q].late # {} => exec[q].at \in {"finish_read_timeout", "over"}
  BY ZenonT(60), <1>0 DEF Executing
<1>6. \A d \in Doing(q)' : d \in Doing(q) \/ d = place
  BY <1>2, <1>3 DEF Doing
<1>7. Executing(q)'
  <2>1. \A b, d \in exec'[q].late : b = d \/ "finish_read_timeout" \in {b, d}
    <3>1. "over" \notin Calls
      BY DEF Calls
    <3>2. QED
      BY ZenonT(60), <1>0, <1>3, <1>5, <3>1 DEF Executing
  <2>2. \A d \in Doing(q)' : d \in Unsent => exec'[q].outcome = "NotDispatched"
    BY ZenonT(60), <1>0, <1>2, <1>6 DEF Executing, Unsent
  <2>3. \A d \in Doing(q)' : d \in Reading => q \in ReadOnly
    BY ZenonT(60), <1>0, <1>1, <1>6 DEF Executing, Reading
  <2>4. "finish_read_timeout" \in Doing(q)' => "acquire" \notin Doing(q)' /\ Keyed(q)
    <3>1. CASE place = "over"
      BY ZenonT(60), <1>0, <1>6, <3>1 DEF Executing
    <3>2. CASE place = "finish_read_timeout"
      <4>1. Doing(q) = {exec[q].at} /\ exec[q].at # "acquire"
        BY ZenonT(60), <1>1, <1>5, <3>2 DEF Doing
      <4>2. QED
        BY ZenonT(60), <1>1, <1>6, <3>2, <4>1
    <3>3. QED
      BY ZenonT(60), <3>1, <3>2
  <2>5. exec'[q].begun => "finish_read_timeout" \in Doing(q)'
    <3>1. exec[q].begun => exec[q].at \in exec'[q].late
      BY ZenonT(60), <1>3
    <3>2. exec[q].begun => "finish_read_timeout" \in Doing(q)
      BY <1>0 DEF Executing
    <3>3. QED
      BY ZenonT(60), <1>2, <1>3, <3>1, <3>2 DEF Doing
  <2>6. exec'[q].outcome = "NotDispatched" => effect'[q] = "none"
    BY ZenonT(60), <1>0, <1>2 DEF Executing
  <2>7. ~exec'[q].begun => exec'[q].seen = {}
    BY ZenonT(60), <1>0, <1>2 DEF Executing
  <2>8. QED
    BY ZenonT(60), <1>1, <1>2, <2>1, <2>2, <2>3, <2>4, <2>5, <2>6, <2>7 DEF Executing
<1>8. Executions'
  BY <1>0, <1>2, <1>7, OnlyExecuting
<1>9. Claimed' /\ Reserved' /\ DispatchFence'
  BY ZenonT(60), <1>0, <1>1, <1>2, <1>6, OnlyPlace DEF Running
<1>10. Selection'
  BY ZenonT(60), <1>0, <1>2, OnlyPlaceSelection
<1>11. QED
  BY <1>4, <1>8, <1>9, <1>10 DEF IInv

----------------------------------------------------------------------------
(* Expiry and reconciliation leave the executions alone. *)

(* Reservations are left as they are, or ended. *)
LEMMA OnlyRows ==
    ASSUME IInv, UNCHANGED <<exec, effect>>, \A p \in Requests : SameRow(p) \/ EndedRow(p),
           \A p \in Requests : Holds(p)' => Holds(p)
    PROVE  Executions' /\ Reserved' /\ Selection'
<1>1. Executions'
  BY ZenonT(60) DEF IInv, Executions, Executing, Doing
<1>2. ASSUME NEW p \in Requests PROVE ReservedFor(p)'
  <2>1. ReservedFor(p) /\ Doing(p)' = Doing(p)
    BY ZenonT(60) DEF IInv, Reserved, Doing
  <2>2. CASE SameRow(p)
    BY ZenonT(60), <2>1, <2>2 DEF ReservedFor, SameRow
  <2>3. CASE EndedRow(p)
    BY ZenonT(60), <2>1, <2>3 DEF ReservedFor, EndedRow, Refundable
  <2>4. QED
    BY ZenonT(60), <2>2, <2>3
<1>3. Selection'
  <2>1. ASSUME NEW p \in Requests, NEW r \in exec[p].seen
        PROVE  /\ Key[r.of] = Key[p] /\ res'[r.of].state # "none"
               /\ r.of # p /\ Holds(p)' => effect[r.of] = "none"
               /\ r.of = p /\ r.state = "pending" => effect[p] = "none"
    <3>1. r.of \in Requests
      BY ZenonT(60), Selected
    <3>2. QED
      BY ZenonT(60), <3>1 DEF IInv, Selection, SameRow, EndedRow
  <2>2. QED
    BY ZenonT(60), <2>1 DEF Selection
<1>4. QED
  BY <1>1, <1>2, <1>3 DEF Reserved

LEMMA ReservationExpiresInvariant ==
    ASSUME IInv, NEW q \in Requests, ReservationExpires(q)
    PROVE  IInv'
<1>0. TypeOK /\ UNCHANGED <<claim, record, audit, usage, exec, effect>>
  BY ZenonT(60) DEF IInv, ReservationExpires
<1>1. res[q] \in Reservation /\ res \in [Requests -> Reservation]
  BY <1>0 DEF TypeOK
<1>2. res' = [res EXCEPT ![q] = [res[q] EXCEPT !.expired = TRUE]]
  BY <1>1 DEF ReservationExpires
<1>3. [res[q] EXCEPT !.expired = TRUE] \in Reservation
  BY ZenonT(60), <1>1 DEF Reservation
<1>4. TypeOK'
  BY <1>0, <1>1, <1>2, <1>3 DEF TypeOK
<1>5. \A p \in Requests : SameRow(p)
  BY ZenonT(60), <1>1, <1>2 DEF SameRow, Reservation
<1>6. Executions' /\ Reserved' /\ Selection'
  BY ZenonT(60), <1>0, <1>5, OnlyRows DEF Holds
<1>7. Claimed' /\ DispatchFence'
  BY ZenonT(60), <1>0 DEF IInv, Claimed, DispatchFence, Holds
<1>8. QED
  BY <1>4, <1>6, <1>7 DEF IInv

LEMMA LeaseExpiresInvariant ==
    ASSUME IInv, NEW k \in Keys, LeaseExpires(k)
    PROVE  IInv'
<1>0. TypeOK /\ UNCHANGED <<record, audit, res, usage, exec, effect>>
  BY DEF IInv, LeaseExpires
<1>1. claim \in [Keys -> Claim \cup {None}] /\ claim[k] \in Claim
  BY <1>0 DEF TypeOK, LeaseExpires
<1>2. claim' = [claim EXCEPT ![k] = [claim[k] EXCEPT !.expired = TRUE]]
  BY <1>1 DEF LeaseExpires
<1>3. /\ [claim[k] EXCEPT !.expired = TRUE] \in Claim
      /\ [claim[k] EXCEPT !.expired = TRUE].req = claim[k].req
      /\ [claim[k] EXCEPT !.expired = TRUE].dispatched = claim[k].dispatched
  BY ZenonT(60), <1>1 DEF Claim
<1>4. TypeOK'
  BY <1>0, <1>1, <1>2, <1>3 DEF TypeOK
<1>5. ASSUME NEW l \in Keys
      PROVE  /\ claim'[l] = None <=> claim[l] = None
             /\ claim[l] # None => claim'[l].req = claim[l].req /\ claim'[l].dispatched = claim[l].dispatched
  BY ZenonT(60), <1>1, <1>2, <1>3, ClaimsAssumption
<1>6. ASSUME NEW p \in Requests PROVE Holds(p)' <=> Holds(p)
  BY ZenonT(60), <1>5, KeyOfRequest DEF Holds
<1>7. Executions' /\ Reserved' /\ Selection'
  BY <1>0, <1>6, OnlyRows DEF SameRow
<1>8. Claimed'
  <2>1. ASSUME NEW p \in Requests, Holds(p) PROVE claim'[Key[p]].dispatched = claim[Key[p]].dispatched
    BY ZenonT(60), <1>5, <2>1, KeyOfRequest DEF Holds
  <2>2. QED
    BY ZenonT(60), <1>0, <1>5, <1>6, <2>1 DEF IInv, Claimed
<1>9. DispatchFence'
  <2>1. ASSUME NEW p \in Requests, Holds(p) PROVE claim'[Key[p]].dispatched = claim[Key[p]].dispatched
    BY <1>5, <2>1, KeyOfRequest DEF Holds
  <2>2. QED
    BY ZenonT(60), <1>0, <1>6, <2>1 DEF IInv, DispatchFence
<1>10. QED
  BY <1>4, <1>7, <1>8, <1>9 DEF IInv

(* The operator ends the reservation of the request that holds the key. *)
LEMMA ReconciledRow ==
    ASSUME IInv, NEW q \in Requests, Reconcilable(q), NEW row, res' = [res EXCEPT ![q] = row],
           \/ row = Released(Refunded(res[q])) /\ Refundable(q)
           \/ row = Settled(res[q])
           \/ row = Released(res[q])
    PROVE  /\ \A p \in Requests : SameRow(p) \/ EndedRow(p)
           /\ res' \in [Requests -> Reservation]
<1>1. res \in [Requests -> Reservation] /\ res[q] \in Reservation
  BY ZenonT(60) DEF IInv, TypeOK
<1>2. res[q].state # "none"
  BY ZenonT(60) DEF IInv, Reserved, ReservedFor, Reconcilable
<1>3. res'[q] = row /\ \A p \in Requests : p # q => res'[p] = res[p]
  BY ZenonT(60), <1>1
<1>4. EndedRow(q) /\ row \in Reservation
  BY <1>1, <1>2, <1>3, Rows DEF EndedRow
<1>5. QED
  BY ZenonT(60), <1>1, <1>3, <1>4 DEF SameRow

LEMMA NotDispatchedInvariant ==
    ASSUME IInv, NEW q \in Requests, proven_not_dispatched(q)
    PROVE  IInv'
<1>0. /\ TypeOK /\ UNCHANGED <<record, audit, usage, exec, effect>>
      /\ Reconcilable(q) /\ Holds(q) /\ claim' = Cleared(q) /\ Key[q] \in Keys
      /\ effect[q] = "none" /\ exec[q].at \notin Running
  BY ZenonT(60), KeyOfRequest DEF IInv, proven_not_dispatched, Reconcilable, Evidence, Holds, Running
<1>1. /\ \A p \in Requests : SameRow(p) \/ EndedRow(p)
      /\ res' \in [Requests -> Reservation]
  <2>1. res' = [res EXCEPT ![q] = Released(Refunded(res[q]))]
    BY ZenonT(60) DEF proven_not_dispatched
  <2>2. QED
    BY ZenonT(60), <1>0, <2>1, ReconciledRow DEF Refundable
<1>2. TypeOK'
  BY ZenonT(60), <1>0, <1>1, ClearedType DEF TypeOK
<1>3. \A k \in Keys : claim'[k] = IF k = Key[q] THEN None ELSE claim[k]
  BY ZenonT(60), <1>0 DEF Cleared, TypeOK
<1>4. ASSUME NEW p \in Requests
      PROVE  /\ Holds(p)' => Holds(p)
             /\ Holds(p) /\ p # q => Holds(p)' /\ claim'[Key[p]] = claim[Key[p]]
  BY <1>0, <1>3, KeyOfRequest DEF Holds
<1>5. Executions' /\ Reserved' /\ Selection'
  BY ZenonT(60), <1>0, <1>1, <1>4, OnlyRows
<1>6. Claimed'
  <2>1. ASSUME NEW k \in Keys, claim'[k] # None
        PROVE  record[k] = None /\ Key[claim'[k].req] = k /\ (audit[k] # None => claim'[k].dispatched)
    BY ZenonT(60), <1>3, <2>1 DEF IInv, Claimed
  <2>2. ASSUME NEW p \in Requests, Keyed(p), exec[p].at \in Running
        PROVE  Holds(p)' /\ claim'[Key[p]].dispatched /\ audit[Key[p]] = None
    BY <1>0, <1>4, <2>2 DEF IInv, Claimed
  <2>3. ASSUME NEW p \in Requests, Holds(p)', exec[p].outcome # "NotDispatched"
        PROVE  claim'[Key[p]].dispatched
    BY ZenonT(60), <1>0, <1>3, <1>4, <2>3, KeyOfRequest DEF IInv, Claimed, Holds
  <2>4. QED
    BY ZenonT(60), <1>0, <2>1, <2>2, <2>3 DEF Claimed
<1>7. DispatchFence'
  BY ZenonT(60), <1>0, <1>4 DEF IInv, DispatchFence
<1>8. QED
  BY <1>2, <1>5, <1>6, <1>7 DEF IInv

LEMMA OutcomeInvariant ==
    ASSUME IInv, NEW q \in Requests, provider_succeeded(q) \/ provider_failed(q)
    PROVE  IInv'
<1>0. /\ TypeOK /\ UNCHANGED <<claim, record, exec, effect>>
      /\ Reconcilable(q) /\ Holds(q) /\ claim[Key[q]].dispatched /\ Key[q] \in Keys
      /\ exec[q].at \notin Running
  BY ZenonT(60), KeyOfRequest DEF IInv, provider_succeeded, provider_failed, Reconcilable, Evidence, Holds, Running
<1>1. /\ \A p \in Requests : SameRow(p) \/ EndedRow(p)
      /\ res' \in [Requests -> Reservation]
  <2>1. \/ res' = [res EXCEPT ![q] = Settled(res[q])]
        \/ res' = [res EXCEPT ![q] = Released(res[q])]
    BY ZenonT(60) DEF provider_succeeded, provider_failed
  <2>2. QED
    BY ZenonT(60), <1>0, <2>1, ReconciledRow
<1>2. PICK known \in {"succeeded", "failed"} : audit' = [audit EXCEPT ![Key[q]] = known]
  BY ZenonT(60) DEF provider_succeeded, provider_failed
<1>3. usage' \in {usage, Metered(q)}
  BY ZenonT(60) DEF provider_succeeded, provider_failed
<1>4. TypeOK'
  BY <1>0, <1>1, <1>2, <1>3 DEF TypeOK, Metered
<1>5. \A p \in Requests : Holds(p)' <=> Holds(p)
  BY ZenonT(60), <1>0 DEF Holds
<1>6. Executions' /\ Reserved' /\ Selection'
  BY ZenonT(60), <1>0, <1>1, <1>5, OnlyRows
<1>7. \A k \in Keys : k # Key[q] => audit'[k] = audit[k]
  BY <1>0, <1>2 DEF TypeOK
<1>8. Claimed'
  <2>1. ASSUME NEW p \in Requests, Keyed(p), exec[p].at \in Running
        PROVE  Holds(p) /\ claim[Key[p]].dispatched /\ audit'[Key[p]] = None
    <3>1. Holds(p) /\ claim[Key[p]].dispatched /\ audit[Key[p]] = None
      BY ZenonT(60), <2>1 DEF IInv, Claimed
    <3>2. Key[p] # Key[q]
      BY ZenonT(60), <1>0, <2>1, <3>1 DEF Holds
    <3>3. QED
      BY ZenonT(60), <1>7, <2>1, <3>1, <3>2, KeyOfRequest
  <2>2. QED
    BY ZenonT(60), <1>0, <1>5, <1>7, <2>1 DEF IInv, Claimed
<1>9. DispatchFence'
  BY ZenonT(60), <1>0, <1>5 DEF IInv, DispatchFence
<1>10. QED
  BY <1>4, <1>6, <1>8, <1>9 DEF IInv

----------------------------------------------------------------------------
(* The ledger.                                                             *)

(* A read that was declared failed while its timeout was under way. *)
Waived(q) ==
    /\ res[q].state = "released"
    /\ q \in ReadOnly /\ Keyed(q) /\ audit[Key[q]] = "failed"

(* The ledger without gaps, and what finish_read_timeout has selected as   *)
(* dispatched: its own reservation, which nobody else releases while the   *)
(* request holds its key.                                                  *)
LedgerInv ==
    /\ \A q \in Requests : res[q].state = "settled" => Charged(q)
    /\ \A q \in Requests : Charged(q) => res[q].state = "settled" \/ Waived(q)
    /\ \A k \in Keys : record[k] # None => res[record[k]].state = "settled"
    /\ \A q \in Requests : Keyed(q) /\ res[q].state = "dispatched" => res[q].bound
    /\ \A q \in Requests : \A r \in exec[q].seen : r.state = "dispatched" =>
          /\ r.of = q
          /\ Holds(q) => res[q].state \in {"dispatched", "settled"} \/ Waived(q)
    /\ Quota

(* How a step changes a reservation together with its charge. *)
Unpaid(p) == Charged(p)' = Charged(p)

PayRow(p) ==
    \/ res'[p].state = res[p].state /\ Unpaid(p)
    \/ res[p].state \in {"dispatched", "settled"} /\ res'[p].state = "settled" /\ Charged(p)'
    \/ res[p].state \in Active /\ res'[p].state = "released" /\ Unpaid(p)
    \/ res[p].state \in {"none", "pending"} /\ res'[p].state \in Active /\ Unpaid(p)
    \/ Waived(p) /\ res'[p].state = "released" /\ Charged(p)'

Paid == \A p \in Requests : PayRow(p)

(* Outputs are kept only of settled requests. *)
RecordPaid ==
    \A k \in Keys : record'[k] = record[k] \/ (record'[k] \in Requests /\ res'[record'[k]].state = "settled")

(* A dispatched reservation is released by its own request, which loses    *)
(* its selection, or once it has lost its key, or by the operator.         *)
FairlyReleased ==
    \A p \in Requests : res[p].state = "dispatched" /\ res'[p].state = "released" =>
        ~Holds(p)' \/ exec'[p].seen = {} \/ (Keyed(p) /\ audit'[Key[p]] = "failed")

SelectedOwn ==
    \A p \in Requests : \A r \in exec'[p].seen : r.state = "dispatched" =>
        /\ r \in exec[p].seen \/ (r.of = p /\ res'[p].state = "dispatched")
        /\ Holds(p)' => Holds(p)

(* Nothing is reserved beyond the limit. *)
Admitted == Quota' \/ \A p \in Requests : res[p].state = "none" => res'[p].state = "none"

DispatchedBound == \A q \in Requests : Keyed(q) /\ res[q].state = "dispatched" => res[q].bound

AuditKept == \A k \in Keys : audit[k] # None => audit'[k] = audit[k]

LedgerStep == Paid /\ RecordPaid /\ FairlyReleased /\ SelectedOwn /\ Admitted /\ DispatchedBound' /\ AuditKept

(* The reservations that count against the limit. *)
Counted == {q \in Requests : res[q].state \in Active \cup {"settled"}}

LEMMA QuotaKept ==
    ASSUME Library, Quota, Paid, \A p \in Requests : res[p].state = "none" => res'[p].state = "none"
    PROVE  Quota'
<1>1. \A p \in Requests : res'[p].state \in Active \cup {"settled"} => res[p].state \in Active \cup {"settled"}
  BY DEF Paid, PayRow, Active, Waived
<1>2. PICK S : S = {q \in Requests : res'[q].state \in Active \cup {"settled"}}
  BY ZenonT(60)
<1>3. PICK T : T = Counted
  BY ZenonT(60)
<1>4. S \in SUBSET T /\ T \in SUBSET Requests
  BY ZenonT(60), <1>1, <1>2, <1>3 DEF Counted
<1>5. IsFiniteSet(Requests)
  BY ZenonT(60), ClaimsAssumption
<1>6. IsFiniteSet(T)
  BY ZenonT(60), <1>4, <1>5 DEF Library
<1>7. IsFiniteSet(S) /\ Cardinality(S) <= Cardinality(T)
  BY <1>4, <1>6 DEF Library
<1>8. Cardinality(S) \in Nat /\ Cardinality(T) \in Nat /\ HardLimit \in Nat
  BY <1>6, <1>7, ClaimsAssumption DEF Library
<1>9. HardLimit > 0 => Cardinality(T) <= HardLimit
  BY ZenonT(60), <1>3 DEF Quota, Counted
<1>10. HardLimit > 0 => Cardinality(S) <= HardLimit
  BY <1>7, <1>8, <1>9
<1>11. QED
  BY ZenonT(60), <1>2, <1>10 DEF Quota

(* Such a step keeps the ledger. *)
LEMMA LedgerKept ==
    ASSUME Library, IInv, IInv', LedgerInv, LedgerStep
    PROVE  LedgerInv'
<1>1. ASSUME NEW q \in Requests, Waived(q), res'[q].state = "released" PROVE Waived(q)'
  <2>1. Key[q] \in Keys /\ audit[Key[q]] = "failed" /\ q \in ReadOnly /\ Keyed(q)
    BY ZenonT(60), <1>1, KeyOfRequest DEF Waived
  <2>2. audit[Key[q]] # None
    BY ZenonT(60), <2>1, ClaimsAssumption
  <2>3. audit'[Key[q]] = "failed"
    BY <2>1, <2>2 DEF LedgerStep, AuditKept
  <2>4. QED
    BY ZenonT(60), <1>1, <2>1, <2>3 DEF Waived, Keyed
<1>2. \A p \in Requests : PayRow(p)
  BY ZenonT(60) DEF LedgerStep, Paid
<1>3. ASSUME NEW q \in Requests
      PROVE  /\ res[q].state = "settled" => Charged(q)
             /\ Charged(q) => res[q].state = "settled" \/ Waived(q)
  BY DEF LedgerInv
<1>4. ASSUME NEW q \in Requests
      PROVE  /\ res'[q].state = "settled" => Charged(q)'
             /\ Charged(q)' => res'[q].state = "settled" \/ Waived(q)'
  <2>1. CASE res'[q].state = res[q].state /\ Unpaid(q)
    BY ZenonT(60), <1>1, <1>3, <2>1 DEF Unpaid, Waived
  <2>2. CASE res[q].state \in Active /\ res'[q].state = "released" /\ Unpaid(q)
    BY ZenonT(60), <1>3, <2>2 DEF Unpaid, Waived, Active
  <2>3. CASE res[q].state \in {"none", "pending"} /\ res'[q].state \in Active /\ Unpaid(q)
    BY ZenonT(60), <1>3, <2>3 DEF Unpaid, Waived, Active
  <2>4. CASE Waived(q) /\ res'[q].state = "released" /\ Charged(q)'
    BY ZenonT(60), <1>1, <2>4
  <2>5. QED
    BY ZenonT(60), <1>2, <2>1, <2>2, <2>3, <2>4 DEF PayRow
<1>5. ASSUME NEW k \in Keys, record'[k] # None PROVE res'[record'[k]].state = "settled"
  <2>1. CASE record'[k] = record[k]
    <3>1. record[k] \in Requests /\ res[record[k]].state = "settled"
      BY ZenonT(60), <1>5, <2>1 DEF IInv, TypeOK, LedgerInv
    <3>2. QED
      BY <1>2, <2>1, <3>1 DEF PayRow, Active, Waived
  <2>2. QED
    BY ZenonT(60), <2>1 DEF LedgerStep, RecordPaid
<1>6. ASSUME NEW q \in Requests, NEW r \in exec'[q].seen, r.state = "dispatched"
      PROVE  /\ r.of = q
             /\ Holds(q)' => res'[q].state \in {"dispatched", "settled"} \/ Waived(q)'
  <2>1. CASE r.of = q /\ res'[q].state = "dispatched"
    BY ZenonT(60), <2>1
  <2>2. CASE r \in exec[q].seen
    <3>1. r.of = q /\ (Holds(q)' => res[q].state \in {"dispatched", "settled"} \/ Waived(q))
      BY ZenonT(60), <1>6, <2>2 DEF LedgerInv, LedgerStep, SelectedOwn
    <3>2. CASE Holds(q)' /\ Waived(q)
      <4>1. res[q].state = "released"
        BY ZenonT(60), <3>2 DEF Waived
      <4>2. res'[q].state = "released"
        BY ZenonT(60), <1>2, <4>1 DEF PayRow, Active
      <4>3. QED
        BY ZenonT(60), <1>1, <3>1, <3>2, <4>2
    <3>3. CASE Holds(q)' /\ res[q].state = "settled"
      BY ZenonT(60), <1>2, <3>1, <3>3 DEF PayRow, Active, Waived
    <3>4. CASE Holds(q)' /\ res[q].state = "dispatched" /\ res'[q].state = "released"
      <4>1. Keyed(q) /\ audit'[Key[q]] = "failed"
        BY ZenonT(60), <1>6, <3>4 DEF LedgerStep, FairlyReleased
      <4>2. q \in ReadOnly
        BY ZenonT(60), <1>6 DEF IInv, Executions, Executing, Reading
      <4>3. QED
        BY <3>1, <3>4, <4>1, <4>2 DEF Waived, Keyed
    <3>5. res[q].state = "dispatched" => res'[q].state \in {"dispatched", "settled", "released"}
      BY ZenonT(60), <1>2 DEF PayRow, Active, Waived
    <3>6. QED
      BY ZenonT(60), <3>1, <3>2, <3>3, <3>4, <3>5
  <2>3. QED
    BY ZenonT(60), <1>6, <2>1, <2>2 DEF LedgerStep, SelectedOwn
<1>7. Quota'
  BY ZenonT(60), QuotaKept DEF LedgerInv, LedgerStep, Admitted
<1>8. \A q \in Requests : Keyed(q) /\ res'[q].state = "dispatched" => res'[q].bound
  BY DEF LedgerStep, DispatchedBound, Keyed
<1>9. QED
  BY ZenonT(60), <1>4, <1>5, <1>6, <1>7, <1>8 DEF LedgerInv, Keyed

(* The steps that leave the database alone. *)
LEMMA QuietLedger ==
    ASSUME IInv, LedgerInv, UNCHANGED database, SelectedOwn
    PROVE  LedgerStep
<1>1. UNCHANGED <<claim, record, audit, res, usage>>
  BY DEF database
<1>2. Paid /\ RecordPaid /\ FairlyReleased /\ Admitted /\ AuditKept
  BY ZenonT(60), <1>1 DEF Paid, PayRow, Unpaid, Charged, RecordPaid, FairlyReleased, Admitted, AuditKept
<1>3. DispatchedBound'
  BY ZenonT(60), <1>1 DEF LedgerInv, DispatchedBound, Keyed
<1>4. QED
  BY <1>2, <1>3 DEF LedgerStep

(* Nothing is selected anew. *)
LEMMA SelectionKept ==
    ASSUME \A p \in Requests : exec'[p].seen \subseteq exec[p].seen,
           \A p \in Requests : exec'[p].seen # {} /\ Holds(p)' => Holds(p)
    PROVE  SelectedOwn
  BY ZenonT(60) DEF SelectedOwn

(* Whatever finish_read_timeout selects as dispatched is its own.  *)
LEMMA SelectLedger ==
    ASSUME IInv, LedgerInv, NEW q \in Requests, select_reservation(q)
    PROVE  LedgerStep
<1>1. UNCHANGED <<claim, record, audit, res, usage>> /\ UNCHANGED database /\ TypeOK
  BY DEF select_reservation, database, IInv
<1>2. Others(q) /\ exec'[q].seen = {[of |-> p, state |-> res[p].state] : p \in Newest(q)}
  BY ZenonT(60), <1>1, SelectFields
<1>3. Keyed(q)
  BY ZenonT(60) DEF IInv, Executions, Executing, Doing, select_reservation
<1>4. ASSUME NEW r \in exec'[q].seen, r.state = "dispatched" PROVE r.of = q /\ res'[q].state = "dispatched"
  <2>1. PICK p \in Newest(q) : r = [of |-> p, state |-> res[p].state]
    BY ZenonT(60), <1>2, <1>4
  <2>2. p \in Requests /\ Key[p] = Key[q] /\ (p = q \/ ~res[p].bound) /\ r.of = p /\ res[p].state = "dispatched"
    BY ZenonT(60), <1>4, <2>1 DEF Newest, Candidates
  <2>3. Keyed(p)
    BY ZenonT(60), <1>3, <2>2 DEF Keyed
  <2>4. res[p].bound
    BY ZenonT(60), <2>2, <2>3 DEF LedgerInv
  <2>5. QED
    BY <1>1, <2>2, <2>4
<1>5. \A p \in Requests : Holds(p)' => Holds(p)
  BY ZenonT(60), <1>1 DEF Holds
<1>6. SelectedOwn
  BY <1>2, <1>4, <1>5 DEF SelectedOwn, Others
<1>7. QED
  BY <1>1, <1>6, QuietLedger

(* The other steps of an execution that make no call. *)
LEMMA GotoSeen ==
    ASSUME ExecTypes, NEW q \in Requests, NEW place, Goto(q, place)
    PROVE  \A p \in Requests : exec'[p].seen \subseteq exec[p].seen
<1>1. exec' = [exec EXCEPT ![q] = [exec[q] EXCEPT !.at = place, !.begun = FALSE, !.seen = {}]]
  BY Zenon DEF Goto, ExecTypes
<1>2. exec[q] \in Execution
  BY DEF ExecTypes
<1>3. [exec[q] EXCEPT !.at = place, !.begun = FALSE, !.seen = {}].seen = {}
  BY <1>2, Zenon DEF Execution
<1>4. QED
  BY <1>1, <1>3, Zenon DEF ExecTypes

LEMMA FinishSeen ==
    ASSUME ExecTypes, NEW q \in Requests, NEW outcome, NEW place, finish_attempt(q, outcome, place)
    PROVE  \A p \in Requests : exec'[p].seen \subseteq exec[p].seen
<1>1. PICK tries : exec' = [exec EXCEPT ![q] = [exec[q] EXCEPT !.at = place, !.outcome = outcome,
                              !.tries = tries, !.prior = "NotDispatched", !.hit = "none"]]
  BY Zenon DEF finish_attempt, ExecTypes
<1>2. exec[q] \in Execution
  BY DEF ExecTypes
<1>3. [exec[q] EXCEPT !.at = place, !.outcome = outcome, !.tries = tries, !.prior = "NotDispatched",
                      !.hit = "none"].seen = exec[q].seen
  BY <1>2, Zenon DEF Execution
<1>4. QED
  BY <1>1, <1>3, Zenon DEF ExecTypes

LEMMA LocalLedger ==
    ASSUME IInv, LedgerInv, NEW q \in Requests,
           \/ prepare(q) \/ begin_attempt(q) \/ Answered(q) \/ Failed(q)
           \/ record_replay(q) \/ deadline(q) \/ Abandon(q) \/ Fails(q)
    PROVE  LedgerStep
<1>1. UNCHANGED database /\ UNCHANGED claim /\ TypeOK /\ ExecTypes
  BY ZenonT(60) DEF prepare, begin_attempt, Answered, Failed, record_replay, deadline, Abandon, Drop, Fails,
         database, IInv, TypeOK, ExecTypes
<1>2. \A p \in Requests : exec'[p].seen \subseteq exec[p].seen
  <2>1. CASE prepare(q) \/ record_replay(q) \/ Fails(q)
    BY <1>1, <2>1, GotoSeen, Zenon DEF prepare, record_replay, Fails
  <2>2. CASE Answered(q) \/ Failed(q)
    BY <1>1, <2>2, FinishSeen, Zenon DEF Answered, Failed
  <2>3. CASE begin_attempt(q)
    <3>1. exec[q].tries < Tries
      BY ZenonT(60), <2>3 DEF IInv, Executions, Executing, begin_attempt
    <3>2. QED
      BY <1>1, <2>3, <3>1, BeginFields DEF Others
  <2>4. CASE deadline(q) \/ Abandon(q)
    <3>1. PICK place \in Places : Drop(q, place)
      BY ZenonT(60), <2>4 DEF deadline, Abandon, Places, Calls
    <3>2. QED
      BY <1>1, <3>1, DropFields DEF Others
  <2>5. QED
    BY ZenonT(60), <2>1, <2>2, <2>3, <2>4
<1>3. \A p \in Requests : Holds(p)' => Holds(p)
  BY <1>1 DEF Holds
<1>4. QED
  BY ZenonT(60), <1>1, <1>2, <1>3, SelectionKept, QuietLedger

----------------------------------------------------------------------------
(* The calls. *)

LEMMA MeteredCharges ==
    ASSUME NEW q \in Requests, usage' = Metered(q)
    PROVE  Charged(q)' /\ \A p \in Requests : p # q => Unpaid(p)
  BY DEF Metered, Charged, Unpaid

LEMMA SameCharges ==
    ASSUME usage' = usage
    PROVE  \A p : Unpaid(p)
  BY ZenonT(60) DEF Charged, Unpaid

(* One row changes. *)
LEMMA OwnRow ==
    ASSUME TypeOK, NEW q \in Requests, NEW row, res' = [res EXCEPT ![q] = row], PayRow(q),
           \A p \in Requests : p # q => Unpaid(p)
    PROVE  Paid
<1>1. \A p \in Requests : p # q => res'[p] = res[p]
  BY ZenonT(60) DEF TypeOK
<1>2. QED
  BY ZenonT(60), <1>1 DEF Paid, PayRow

(* What a call does to the ledger. *)
CallPaid(q) ==
    /\ Paid /\ RecordPaid /\ Admitted
    /\ \A p \in Requests : p # q /\ res[p].state = "dispatched" /\ res'[p].state = "released" => ~Holds(p)'

LEMMA StillPaid ==
    ASSUME NEW q, UNCHANGED <<record, usage>>, \A p \in Requests : res'[p].state = res[p].state
    PROVE  CallPaid(q)
  BY ZenonT(60), SameCharges DEF CallPaid, Paid, PayRow, RecordPaid, Admitted

(* The call changes the row of q only. *)
LEMMA OwnPaid ==
    ASSUME IInv, NEW q \in Requests, NEW row, res' = [res EXCEPT ![q] = row], PayRow(q),
           res[q].state # "none",
           usage' \in {usage, Metered(q)}, RecordPaid
    PROVE  CallPaid(q)
<1>1. TypeOK
  BY ZenonT(60) DEF IInv
<1>2. \A p \in Requests : p # q => Unpaid(p)
  BY ZenonT(60), MeteredCharges, SameCharges
<1>3. Paid
  BY ZenonT(60), <1>1, <1>2, OwnRow
<1>4. \A p \in Requests : p # q => res'[p] = res[p]
  BY ZenonT(60), <1>1 DEF TypeOK
<1>5. QED
  BY ZenonT(60), <1>3, <1>4 DEF CallPaid, Admitted

LEMMA SuccessPaid ==
    ASSUME IInv, LedgerInv, NEW q \in Requests, NEW ok \in BOOLEAN, finish_success(q, ok)
    PROVE  CallPaid(q)
<1>1. CASE UNCHANGED database
  BY <1>1, StillPaid DEF database
<1>2. CASE /\ res[q].state \in {"dispatched", "settled"}
           /\ record' = IF Keyed(q) /\ record[Key[q]] = None THEN [record EXCEPT ![Key[q]] = q] ELSE record
           /\ usage' = IF res[q].state = "dispatched" THEN Metered(q) ELSE usage
           /\ res' = [res EXCEPT ![q] = Settled(res[q])]
  <2>1. res \in [Requests -> Reservation] /\ record \in [Keys -> Requests \cup {None}]
    BY ZenonT(60) DEF IInv, TypeOK
  <2>2. res'[q].state = "settled"
    BY <1>2, <2>1, Rows
  <2>3. Charged(q)'
    BY ZenonT(60), <1>2, MeteredCharges, SameCharges DEF LedgerInv, Unpaid
  <2>4. PayRow(q)
    BY ZenonT(60), <1>2, <2>2, <2>3 DEF PayRow
  <2>5. RecordPaid
    BY ZenonT(60), <1>2, <2>1, <2>2 DEF RecordPaid
  <2>6. QED
    BY ZenonT(60), <1>2, <2>4, <2>5, OwnPaid
<1>3. QED
  BY <1>1, <1>2 DEF finish_success, Same

LEMMA NotDispatchedPaid ==
    ASSUME IInv, LedgerInv, NEW q \in Requests, NEW ok \in BOOLEAN, finish_not_dispatched(q, ok)
    PROVE  CallPaid(q)
<1>1. CASE UNCHANGED database
  BY <1>1, StillPaid DEF database
<1>2. CASE /\ res[q].state = "dispatched"
           /\ res' = [res EXCEPT ![q] = Released(Refunded(res[q]))]
           /\ UNCHANGED <<record, audit, usage>>
  <2>1. res'[q].state = "released"
    BY ZenonT(60), <1>2, Rows DEF IInv, TypeOK
  <2>2. PayRow(q)
    BY ZenonT(60), <1>2, <2>1, SameCharges DEF PayRow, Active
  <2>3. QED
    BY ZenonT(60), <1>2, <2>2, OwnPaid DEF RecordPaid
<1>3. QED
  BY <1>1, <1>2 DEF finish_not_dispatched, Same

LEMMA ReadFailurePaid ==
    ASSUME IInv, LedgerInv, NEW q \in Requests, NEW ok \in BOOLEAN, finish_read_failure(q, ok)
    PROVE  CallPaid(q)
<1>1. CASE UNCHANGED <<record, usage, res>>
  BY <1>1, StillPaid
<1>2. CASE /\ res[q].state = "dispatched" /\ usage' = Metered(q)
           /\ res' = [res EXCEPT ![q] = Settled(res[q])] /\ UNCHANGED record
  <2>1. res'[q].state = "settled"
    BY ZenonT(60), <1>2, Rows DEF IInv, TypeOK
  <2>2. PayRow(q)
    BY ZenonT(60), <1>2, <2>1, MeteredCharges DEF PayRow
  <2>3. QED
    BY ZenonT(60), <1>2, <2>2, OwnPaid DEF RecordPaid
<1>3. QED
  BY ZenonT(60), <1>1, <1>2 DEF finish_read_failure, Same, database

LEMMA ReleasePaid ==
    ASSUME IInv, LedgerInv, NEW q \in Requests, NEW clear_claim \in BOOLEAN, NEW refund_charges \in BOOLEAN,
           NEW ok \in BOOLEAN, release_quota_reservation(q, clear_claim, refund_charges, ok)
    PROVE  CallPaid(q)
<1>1. UNCHANGED <<record, usage>> /\ res \in [Requests -> Reservation]
  BY ZenonT(60) DEF release_quota_reservation, IInv, TypeOK
<1>2. CASE res[q].state \notin Active
  <2>1. res' = [res EXCEPT ![q] = res[q]]
    BY <1>2 DEF release_quota_reservation
  <2>2. QED
    BY <1>1, <2>1, StillPaid
<1>3. CASE res[q].state \in Active
  <2>1. PICK row \in {Released(Refunded(res[q])), Released(res[q])} : res' = [res EXCEPT ![q] = row]
    BY ZenonT(60), <1>3 DEF release_quota_reservation
  <2>2. res'[q].state = "released"
    BY <1>1, <2>1, Rows
  <2>3. PayRow(q)
    BY <1>1, <1>3, <2>2, SameCharges DEF PayRow
  <2>4. QED
    BY ZenonT(60), <1>1, <1>3, <2>1, <2>3, OwnPaid DEF RecordPaid, Active
<1>4. QED
  BY <1>2, <1>3

LEMMA MarkPaid ==
    ASSUME IInv, LedgerInv, NEW q \in Requests, NEW ok \in BOOLEAN, mark_dispatched(q, ok)
    PROVE  CallPaid(q)
<1>1. CASE UNCHANGED database
  BY <1>1, StillPaid DEF database
<1>2. CASE /\ res[q].state = "pending" /\ res' = [res EXCEPT ![q].state = "dispatched"]
           /\ UNCHANGED <<record, audit, usage>>
  <2>1. res \in [Requests -> Reservation]
    BY ZenonT(60) DEF IInv, TypeOK
  <2>2. res' = [res EXCEPT ![q] = [res[q] EXCEPT !.state = "dispatched"]]
    BY <1>2, <2>1
  <2>3. res'[q].state = "dispatched"
    BY <2>1, <2>2 DEF Reservation
  <2>4. PayRow(q)
    BY <1>2, <2>3, SameCharges DEF PayRow, Active
  <2>5. QED
    BY ZenonT(60), <1>2, <2>2, <2>4, OwnPaid DEF RecordPaid
<1>3. QED
  BY <1>1, <1>2 DEF mark_dispatched, Same, MayDispatch

LEMMA BindPaid ==
    ASSUME IInv, LedgerInv, NEW q \in Requests, NEW ok \in BOOLEAN, bind(q, ok)
    PROVE  CallPaid(q)
<1>1. CASE UNCHANGED database
  BY <1>1, StillPaid DEF database
<1>2. CASE res' = [res EXCEPT ![q].bound = TRUE] /\ UNCHANGED <<claim, record, audit, usage>>
  <2>1. res \in [Requests -> Reservation]
    BY DEF IInv, TypeOK
  <2>2. \A p \in Requests : res'[p].state = res[p].state
    BY ZenonT(60), <1>2, <2>1 DEF Reservation
  <2>3. QED
    BY <1>2, <2>2, StillPaid
<1>3. QED
  BY <1>1, <1>2 DEF bind, Same

(* The sweep releases or settles what has run out, and meters what it      *)
(* settles.                                                                *)
LEMMA SweptRow ==
    ASSUME IInv, NEW p \in Requests, usage' = usage \cup Recovered, res'[p].state = Swept[p].state
    PROVE  PayRow(p)
<1>1. res[p] \in Reservation /\ Swept[p] = CASE res[p].expired /\ res[p].state = "pending" -> Released(Refunded(res[p]))
                                             [] res[p].expired /\ res[p].state = "dispatched" -> Settled(res[p])
                                             [] OTHER -> res[p]
  BY ZenonT(60) DEF IInv, TypeOK, Swept
<1>2. <<"recovery", p>> \in Recovered <=> res[p].expired /\ res[p].state = "dispatched"
  BY ZenonT(60) DEF Recovered
<1>3. <<"action", p>> \notin Recovered
  BY ZenonT(60) DEF Recovered
<1>4. CASE res[p].expired /\ res[p].state = "dispatched"
  <2>1. res'[p].state = "settled"
    BY <1>1, <1>4, Rows
  <2>2. Charged(p)'
    BY ZenonT(60), <1>2, <1>4 DEF Charged
  <2>3. QED
    BY <1>4, <2>1, <2>2 DEF PayRow
<1>5. CASE ~(res[p].expired /\ res[p].state = "dispatched")
  <2>1. Unpaid(p)
    BY ZenonT(60), <1>2, <1>3, <1>5 DEF Unpaid, Charged
  <2>2. CASE res[p].expired /\ res[p].state = "pending"
    <3>1. res'[p].state = "released"
      BY <1>1, <2>2, Rows
    <3>2. QED
      BY <2>1, <2>2, <3>1 DEF PayRow, Active
  <2>3. CASE ~(res[p].expired /\ res[p].state = "pending")
    BY ZenonT(60), <1>1, <1>5, <2>1, <2>3 DEF PayRow
  <2>4. QED
    BY ZenonT(60), <2>2, <2>3
<1>6. QED
  BY <1>4, <1>5

(* reserve admits a request only if, with it, the limit holds. *)
LEMMA ReserveQuota ==
    ASSUME Library, IInv, LedgerInv, NEW q \in Requests, reserve(q, TRUE)
    PROVE  Quota'
<1>1. PICK U : U = usage \cup Recovered
  BY ZenonT(60)
<1>2. PICK A : A = {p \in Requests : Swept[p].state \in Active}
  BY ZenonT(60)
<1>3. PICK B : B = {p \in Requests : Swept[p].state = "settled"}
  BY ZenonT(60)
<1>4. PICK S : S = {p \in Requests : res'[p].state \in Active \cup {"settled"}}
  BY ZenonT(60)
<1>5. HardLimit > 0 => Cardinality(U) + Cardinality(A) + 1 <= HardLimit
  BY ZenonT(60), <1>1, <1>2 DEF reserve, Projected
<1>6. U \subseteq {"action", "recovery"} \X Requests
  BY <1>1 DEF IInv, TypeOK, Recovered
<1>7. ASSUME NEW p \in B PROVE \E kind : <<kind, p>> \in U
  <2>1. p \in Requests /\ res[p] \in Reservation /\ Swept[p].state = "settled"
    BY ZenonT(60), <1>3, <1>7 DEF IInv, TypeOK
  <2>2. CASE res[p].expired /\ res[p].state = "dispatched"
    BY <1>1, <2>1, <2>2 DEF Recovered
  <2>3. CASE res[p].state = "settled"
    BY ZenonT(60), <1>1, <2>1, <2>3 DEF LedgerInv, Charged
  <2>4. res[p].state = "settled" \/ (res[p].expired /\ res[p].state = "dispatched")
    BY <2>1, Rows DEF Swept
  <2>5. QED
    BY ZenonT(60), <2>2, <2>3, <2>4
<1>8. IsFiniteSet(U) /\ IsFiniteSet(B) /\ Cardinality(B) <= Cardinality(U)
  BY ZenonT(60), <1>6, <1>7 DEF Library
<1>9. IsFiniteSet(Requests) /\ A \in SUBSET Requests
  BY ZenonT(60), <1>2, ClaimsAssumption
<1>10. IsFiniteSet(A)
  BY ZenonT(60), <1>9 DEF Library
<1>11. IsFiniteSet(A \cup B) /\ Cardinality(A \cup B) <= Cardinality(A) + Cardinality(B)
  BY ZenonT(60), <1>8, <1>10 DEF Library
<1>12. /\ IsFiniteSet((A \cup B) \cup {q})
       /\ Cardinality((A \cup B) \cup {q}) <= Cardinality(A \cup B) + 1
  BY ZenonT(60), <1>11 DEF Library
<1>13. S \in SUBSET ((A \cup B) \cup {q})
  <2>1. \A p \in Requests : p # q => res'[p] = Swept[p]
    BY DEF reserve, Swept
  <2>2. QED
    BY ZenonT(60), <1>2, <1>3, <1>4, <2>1
<1>14. IsFiniteSet(S) /\ Cardinality(S) <= Cardinality((A \cup B) \cup {q})
  BY ZenonT(60), <1>12, <1>13 DEF Library
<1>15. /\ Cardinality(A) \in Nat /\ Cardinality(B) \in Nat /\ Cardinality(A \cup B) \in Nat
       /\ Cardinality((A \cup B) \cup {q}) \in Nat /\ Cardinality(S) \in Nat /\ Cardinality(U) \in Nat
  BY ZenonT(60), <1>8, <1>10, <1>11, <1>12, <1>14 DEF Library
<1>16. HardLimit \in Nat
  BY ZenonT(60), ClaimsAssumption
<1>17. HardLimit > 0 => Cardinality(S) <= HardLimit
  BY <1>5, <1>8, <1>11, <1>12, <1>14, <1>15, <1>16
<1>18. QED
  BY <1>4, <1>17 DEF Quota

LEMMA ReservePaid ==
    ASSUME Library, IInv, LedgerInv, NEW q \in Requests, "reserve" \in Doing(q), NEW ok \in BOOLEAN, reserve(q, ok)
    PROVE  CallPaid(q)
<1>1. usage' = usage \cup Recovered /\ UNCHANGED <<claim, record>>
  BY ZenonT(60) DEF reserve
<1>2. res[q].state = "none"
  BY ZenonT(60) DEF IInv, Reserved, ReservedFor
<1>3. \A p \in Requests : p # q \/ ~ok => res'[p] = Swept[p]
  BY ZenonT(60) DEF reserve, Swept
<1>4. \A p \in Requests : p # q \/ ~ok => PayRow(p)
  BY <1>1, <1>3, SweptRow
<1>5. ok => res'[q].state = "pending"
  BY ZenonT(60), NewRow DEF reserve, Swept
<1>6. Unpaid(q)
  BY <1>1, <1>2 DEF Unpaid, Charged, Recovered
<1>7. Paid
  BY ZenonT(60), <1>2, <1>4, <1>5, <1>6 DEF Paid, PayRow, Active
<1>8. ASSUME NEW p \in Requests, res[p].state = "none" PROVE Swept[p] = res[p]
  BY <1>8 DEF Swept
<1>9. Admitted
  <2>1. CASE ok
    BY ZenonT(60), <2>1, ReserveQuota DEF Admitted
  <2>2. CASE ~ok
    BY <1>3, <1>8, <2>2 DEF Admitted
  <2>3. QED
    BY <2>1, <2>2
<1>10. ASSUME NEW p \in Requests, p # q, res[p].state = "dispatched" PROVE res'[p].state # "released"
  <2>1. res[p] \in Reservation
    BY ZenonT(60) DEF IInv, TypeOK
  <2>2. QED
    BY ZenonT(60), <1>3, <1>10, <2>1, Rows DEF Swept
<1>11. QED
  BY <1>1, <1>7, <1>9, <1>10 DEF CallPaid, RecordPaid

(* finish_read_timeout settles, and meters, nothing but its own row. *)
LEMMA TimeoutOwn ==
    ASSUME IInv, LedgerInv, NEW q \in Requests, NEW ok \in BOOLEAN, finish_read_timeout(q, ok), Holds(q)
    PROVE  /\ \A p \in Requests : PayRow(p)
           /\ \A p \in Requests : p # q /\ res[p].state = "dispatched" /\ res'[p].state = "released" => Key[p] = Key[q]
           /\ \A p \in Requests : res[p].state = "none" => res'[p].state = "none"
<1> DEFINE served(r) == r.state = "dispatched" /\ claim[Key[q]].dispatched /\ exec[q].outcome # "NotDispatched"
           settle == {r.of : r \in {s \in exec[q].seen : served(s)}}
           release == {r.of : r \in exec[q].seen} \ settle
           row(p) == CASE p \in settle /\ res[p].state = "dispatched" -> Settled(res[p])
                       [] p \in release /\ res[p].state \in Active -> Released(Refunded(res[p]))
                       [] p \in release /\ res[p].state \notin Active -> Refunded(res[p])
                       [] OTHER -> res[p]
<1>1. /\ \A p \in Requests : res'[p] = row(p)
      /\ usage' = IF settle # {} THEN Metered(q) ELSE usage
  BY DEF finish_read_timeout
<1>2. ASSUME NEW p \in settle
      PROVE  p = q /\ (res[q].state \in {"dispatched", "settled"} \/ Waived(q))
  BY ZenonT(60) DEF LedgerInv
<1>3. ASSUME NEW p \in release PROVE Key[p] = Key[q]
  BY ZenonT(60) DEF IInv, Selection
<1>4. \A p : p \in release => p \notin settle
  BY ZenonT(60)
<1> HIDE DEF settle, release
<1>5. ASSUME NEW p \in Requests
      PROVE  /\ p \in settle /\ res[p].state = "dispatched" => row(p).state = "settled"
             /\ p \in release /\ res[p].state \in Active => row(p).state = "released"
             /\ p \in settle /\ res[p].state # "dispatched" => row(p).state = res[p].state
             /\ p \notin settle /\ ~(p \in release /\ res[p].state \in Active) => row(p).state = res[p].state
  <2>1. res[p] \in Reservation
    BY DEF IInv, TypeOK
  <2>2. QED
    BY ZenonT(60), <1>4, <2>1, Rows
<1> HIDE DEF row
<1>6. ASSUME NEW p \in Requests PROVE PayRow(p)
  <2>1. CASE p \notin settle
    <3>1. Unpaid(p)
      <4>1. CASE settle = {}
        BY ZenonT(60), <1>1, <4>1, SameCharges
      <4>2. CASE settle # {}
        <5>1. p # q
          BY <1>2, <2>1, <4>2
        <5>2. QED
          BY ZenonT(60), <1>1, <4>2, <5>1, MeteredCharges
      <4>3. QED
        BY ZenonT(60), <4>1, <4>2
    <3>2. \/ res[p].state \in Active /\ res'[p].state = "released"
          \/ res'[p].state = res[p].state
      BY ZenonT(60), <1>1, <1>5, <2>1
    <3>3. QED
      BY ZenonT(60), <3>1, <3>2 DEF PayRow
  <2>2. CASE p \in settle
    <3>1. p = q /\ Charged(p)' /\ (res[p].state \in {"dispatched", "settled"} \/ Waived(p))
      BY ZenonT(60), <1>1, <1>2, <2>2, MeteredCharges
    <3>2. res[p].state # "dispatched" => res'[p].state = res[p].state
      BY ZenonT(60), <1>1, <1>5, <2>2
    <3>3. res[p].state = "dispatched" => res'[p].state = "settled"
      BY ZenonT(60), <1>1, <1>5, <2>2
    <3>4. Waived(p) => res[p].state = "released"
      BY ZenonT(60) DEF Waived
    <3>5. QED
      BY ZenonT(60), <3>1, <3>2, <3>3, <3>4 DEF PayRow
  <2>3. QED
    BY <2>1, <2>2
<1>7. ASSUME NEW p \in Requests, p # q, res[p].state = "dispatched", res'[p].state = "released"
      PROVE  Key[p] = Key[q]
  BY ZenonT(60), <1>1, <1>2, <1>3, <1>5, <1>7
<1>8. ASSUME NEW p \in Requests, res[p].state = "none" PROVE res'[p].state = "none"
  BY ZenonT(60), <1>1, <1>5, <1>8 DEF Active
<1>9. QED
  BY ZenonT(60), <1>6, <1>7, <1>8

LEMMA ReadTimeoutPaid ==
    ASSUME IInv, LedgerInv, NEW q \in Requests, NEW ok \in BOOLEAN, finish_read_timeout(q, ok)
    PROVE  CallPaid(q)
<1>1. CASE ~Holds(q)
  <2>1. UNCHANGED database
    BY ZenonT(60), <1>1 DEF finish_read_timeout, Same
  <2>2. QED
    BY ZenonT(60), <2>1, StillPaid DEF database
<1>2. CASE Holds(q)
  <2>1. /\ \A p \in Requests : PayRow(p)
        /\ \A p \in Requests : p # q /\ res[p].state = "dispatched" /\ res'[p].state = "released" => Key[p] = Key[q]
        /\ \A p \in Requests : res[p].state = "none" => res'[p].state = "none"
    BY ZenonT(60), <1>2, TimeoutOwn
  <2>2. claim' = Cleared(q) /\ record' = record
    BY <1>2 DEF finish_read_timeout
  <2>3. claim'[Key[q]] = None
    BY ZenonT(60), <1>2, <2>2, ClearedClaim, KeyOfRequest DEF Holds
  <2>4. QED
    BY ZenonT(60), <2>1, <2>2, <2>3 DEF CallPaid, Paid, RecordPaid, Admitted, Holds
<1>3. QED
  BY ZenonT(60), <1>1, <1>2

(* Every call pays. *)
LEMMA CallPays ==
    ASSUME Library, IInv, LedgerInv, NEW q \in Requests, NEW c \in Doing(q), NEW ok \in BOOLEAN, call(c, q, ok)
    PROVE  CallPaid(q)
<1>1. CASE acquire(q, ok) \/ release_pending(q, ok)
  <2>1. UNCHANGED <<record, res, usage>>
    BY ZenonT(60), <1>1 DEF acquire, release_pending, Same, database
  <2>2. QED
    BY ZenonT(60), <2>1, StillPaid
<1>2. QED
  BY ZenonT(60), <1>1, ReservePaid, BindPaid, MarkPaid, ReleasePaid, SuccessPaid, NotDispatchedPaid, ReadFailurePaid,
     ReadTimeoutPaid DEF call

LEMMA CallLedger ==
    ASSUME Library, IInv, LedgerInv, NEW q \in Requests, Returns(q) \/ AnswerLost(q) \/ Late(q)
    PROVE  LedgerStep
<1>1. PICK c \in Doing(q), ok \in BOOLEAN : call(c, q, ok)
  BY ZenonT(60) DEF Returns, AnswerLost, Late, Doing
<1>2. CallStep(c, q, ok)
  BY <1>1, CallSteps
<1>3. Others(q) /\ exec'[q].seen = {}
  BY ZenonT(60), CallIsMove DEF Moved
<1>4. CallPaid(q)
  BY ZenonT(60), <1>1, CallPays
<1>5. ClaimStep(c, q) /\ RowStep(c, q) /\ audit' = audit
  BY <1>2 DEF CallStep
<1>6. ASSUME NEW p \in Requests, p # q, Holds(p)' PROVE Holds(p)
  BY ZenonT(60), <1>5, <1>6, KeyOfRequest DEF ClaimStep, Holds, Keyed
<1>7. SelectedOwn
  BY ZenonT(60), <1>3, <1>6, SelectionKept DEF Others
<1>8. FairlyReleased
  BY ZenonT(60), <1>3, <1>4 DEF FairlyReleased, CallPaid
<1>9. DispatchedBound'
  <2>1. ASSUME NEW p \in Requests, Keyed(p), res'[p].state = "dispatched" PROVE res'[p].bound
    <3>1. CASE SameRow(p)
      BY ZenonT(60), <2>1, <3>1 DEF LedgerInv, SameRow
    <3>2. CASE BoundRow(p)
      BY <3>2 DEF BoundRow
    <3>3. CASE c = "mark_dispatched" /\ p = q /\ DispatchedRow(p)
      BY ZenonT(60), <2>1, <3>3 DEF IInv, Reserved, ReservedFor, DispatchedRow
    <3>4. ~EndedRow(p) /\ ~ReservedRow(p)
      BY ZenonT(60), <2>1 DEF EndedRow, ReservedRow
    <3>5. QED
      BY <1>5, <3>1, <3>2, <3>3, <3>4 DEF RowStep
  <2>2. QED
    BY ZenonT(60), <2>1 DEF DispatchedBound, Keyed
<1>10. QED
  BY <1>4, <1>5, <1>7, <1>8, <1>9 DEF LedgerStep, CallPaid, AuditKept

----------------------------------------------------------------------------
(* The steps of the clock and of the operator. *)

LEMMA ExpireLedger ==
    ASSUME IInv, LedgerInv,
           \/ \E q \in Requests : ReservationExpires(q)
           \/ \E k \in Keys : LeaseExpires(k)
    PROVE  LedgerStep
<1>1. TypeOK /\ UNCHANGED <<record, audit, usage, exec>>
  BY DEF IInv, ReservationExpires, LeaseExpires
<1>2. \A p \in Requests : res'[p].state = res[p].state /\ res'[p].bound = res[p].bound
  <2>1. CASE UNCHANGED res
    BY <2>1
  <2>2. ASSUME NEW q \in Requests, ReservationExpires(q)
        PROVE  \A p \in Requests : res'[p].state = res[p].state /\ res'[p].bound = res[p].bound
    <3>1. res' = [res EXCEPT ![q] = [res[q] EXCEPT !.expired = TRUE]] /\ res[q] \in Reservation
      BY <1>1, <2>2 DEF ReservationExpires, TypeOK
    <3>2. QED
      BY <1>1, <3>1 DEF TypeOK, Reservation
  <2>3. QED
    BY <2>1, <2>2 DEF LeaseExpires
<1>3. \A p \in Requests : Holds(p)' => Holds(p)
  <2>1. CASE UNCHANGED claim
    BY ZenonT(60), <2>1 DEF Holds
  <2>2. ASSUME NEW k \in Keys, LeaseExpires(k) PROVE \A p \in Requests : Holds(p)' => Holds(p)
    <3>1. claim' = [claim EXCEPT ![k] = [claim[k] EXCEPT !.expired = TRUE]] /\ claim[k] \in Claim
      BY <1>1, <2>2 DEF LeaseExpires, TypeOK
    <3>2. \A j \in Keys : claim'[j] # None => claim[j] # None /\ claim'[j].req = claim[j].req
      BY <1>1, <2>2, <3>1 DEF TypeOK, Claim, LeaseExpires
    <3>3. QED
      BY <3>2, KeyOfRequest DEF Holds
  <2>3. QED
    BY ZenonT(60), <2>1, <2>2 DEF ReservationExpires
<1>4. CallPaid(None)
  BY ZenonT(60), <1>1, <1>2, StillPaid
<1>5. FairlyReleased /\ AuditKept
  BY ZenonT(60), <1>1, <1>2 DEF FairlyReleased, AuditKept
<1>6. DispatchedBound'
  BY ZenonT(60), <1>2 DEF LedgerInv, DispatchedBound, Keyed
<1>7. SelectedOwn
  BY ZenonT(60), <1>1, <1>3, SelectionKept
<1>8. QED
  BY ZenonT(60), <1>4, <1>5, <1>6, <1>7 DEF LedgerStep, CallPaid

LEMMA ReconcileLedger ==
    ASSUME IInv, LedgerInv, NEW q \in Requests, Reconcile(q)
    PROVE  LedgerStep
<1>1. /\ UNCHANGED <<record, exec>> /\ TypeOK /\ Reconcilable(q) /\ Holds(q) /\ Keyed(q) /\ Key[q] \in Keys
      /\ res[q] \in Reservation /\ usage' \in {usage, Metered(q)} /\ audit[Key[q]] = None
  BY ZenonT(60), KeyOfRequest DEF Reconcile, proven_not_dispatched, provider_succeeded, provider_failed,
                      Reconcilable, Holds, IInv, TypeOK
<1>2. res[q].state # "none"
  BY ZenonT(60), <1>1 DEF IInv, Reserved, ReservedFor, Reconcilable
<1>3. PICK row : res' = [res EXCEPT ![q] = row] /\ row \in {Released(Refunded(res[q])), Settled(res[q]), Released(res[q])}
  BY ZenonT(60) DEF Reconcile, proven_not_dispatched, provider_succeeded, provider_failed
<1>4. \A p \in Requests : p # q => res'[p] = res[p]
  BY ZenonT(60), <1>1, <1>3 DEF TypeOK
<1>5. res'[q].bound = res[q].bound /\ res'[q].state \in {"released", "settled"}
  BY <1>1, <1>3, Rows DEF TypeOK
<1>6. PayRow(q)
  <2>1. CASE provider_succeeded(q)
    <3>1. res'[q].state = "settled" /\ Charged(q)' /\ res[q].state \in {"dispatched", "settled"}
      <4>1. usage' = Metered(q) /\ res' = [res EXCEPT ![q] = Settled(res[q])]
            /\ res[q].state \in {"dispatched", "settled"}
        BY <2>1 DEF provider_succeeded
      <4>2. Charged(q)'
        BY ZenonT(60), <4>1, MeteredCharges
      <4>3. res'[q] = Settled(res[q])
        BY ZenonT(60), <1>1, <4>1 DEF TypeOK
      <4>4. Settled(res[q]).state = "settled"
        BY ZenonT(60), <1>1, Rows
      <4>5. QED
        BY Zenon, <4>1, <4>2, <4>3, <4>4
    <3>2. QED
      BY ZenonT(60), <3>1 DEF PayRow
  <2>2. CASE proven_not_dispatched(q) \/ provider_failed(q)
    <3>1. res'[q].state = "released" /\ Unpaid(q) /\ res[q].state # "settled"
      BY <1>1, <2>2, Rows, SameCharges DEF proven_not_dispatched, provider_failed, TypeOK
    <3>2. res[q].state \in Active \cup {"released"}
      BY ZenonT(60), <1>1, <1>2, <3>1 DEF Reservation
    <3>3. QED
      BY ZenonT(60), <3>1, <3>2 DEF PayRow
  <2>3. QED
    BY <2>1, <2>2 DEF Reconcile
<1>7. CallPaid(q)
  BY ZenonT(60), <1>1, <1>2, <1>3, <1>6, OwnPaid DEF RecordPaid
<1>8. FairlyReleased
  <2>1. CASE proven_not_dispatched(q)
    <3>1. claim'[Key[q]] = None
      BY ZenonT(60), <1>1, <2>1, ClearedClaim DEF proven_not_dispatched
    <3>2. QED
      BY <1>4, <3>1 DEF FairlyReleased, Holds
  <2>2. CASE provider_succeeded(q)
    <3>1. res'[q].state = "settled"
      BY <1>1, <2>2, Rows DEF provider_succeeded, TypeOK
    <3>2. QED
      BY ZenonT(60), <1>4, <3>1 DEF FairlyReleased
  <2>3. CASE provider_failed(q)
    <3>1. audit'[Key[q]] = "failed"
      BY ZenonT(60), <1>1, <2>3 DEF provider_failed, TypeOK
    <3>2. QED
      BY ZenonT(60), <1>1, <1>4, <3>1 DEF FairlyReleased
  <2>4. QED
    BY ZenonT(60), <2>1, <2>2, <2>3 DEF Reconcile
<1>9. AuditKept
  <2>1. audit' = audit \/ \E known : audit' = [audit EXCEPT ![Key[q]] = known]
    BY DEF Reconcile, proven_not_dispatched, provider_succeeded, provider_failed
  <2>2. QED
    BY ZenonT(60), <1>1, <2>1 DEF AuditKept, TypeOK
<1>10. DispatchedBound'
  BY ZenonT(60), <1>4, <1>5 DEF LedgerInv, DispatchedBound, Keyed
<1>11. \A p \in Requests : Holds(p)' => Holds(p)
  <2>1. \A k \in Keys : claim'[k] = claim[k] \/ claim'[k] = None
    <3>1. CASE proven_not_dispatched(q)
      BY ZenonT(60), <3>1, ClearedClaim DEF proven_not_dispatched
    <3>2. CASE provider_succeeded(q) \/ provider_failed(q)
      BY Zenon, <3>2 DEF provider_succeeded, provider_failed
    <3>3. QED
      BY Zenon, <3>1, <3>2 DEF Reconcile
  <2>2. QED
    BY ZenonT(60), <2>1, KeyOfRequest DEF Holds
<1>12. SelectedOwn
  BY ZenonT(60), <1>1, <1>11, SelectionKept
<1>13. QED
  BY <1>7, <1>8, <1>9, <1>10, <1>12 DEF LedgerStep, CallPaid

LEMMA InitLedger == ASSUME Library PROVE Init => LedgerInv
<1> SUFFICES ASSUME Init PROVE LedgerInv
  BY ZenonT(60)
<1>1. \A q \in Requests : res[q].state = "none" /\ ~Charged(q) /\ exec[q].seen = {}
  BY ZenonT(60) DEF Init, NoReservation, Charged
<1>2. \A k \in Keys : record[k] = None
  BY ZenonT(60) DEF Init
<1>3. Quota
  <2>1. PICK S : S = {q \in Requests : res[q].state \in Active \cup {"settled"}}
    BY ZenonT(60)
  <2>2. S = {}
    BY ZenonT(60), <1>1, <2>1 DEF Active
  <2>3. Cardinality(S) = 0
    BY ZenonT(60), <2>2 DEF Library
  <2>4. HardLimit > 0 => Cardinality(S) <= HardLimit
    BY <2>3, ClaimsAssumption
  <2>5. QED
    BY <2>1, <2>4 DEF Quota
<1>4. QED
  BY <1>1, <1>2, <1>3 DEF LedgerInv

LEMMA NextLedger == ASSUME Library PROVE IInv /\ LedgerInv /\ [Next]_vars => LedgerStep
<1> SUFFICES ASSUME IInv, LedgerInv, [Next]_vars PROVE LedgerStep
  BY ZenonT(60)
<1>1. ASSUME NEW q \in Requests, Step(q) PROVE LedgerStep
  BY <1>1, CallLedger, SelectLedger, LocalLedger, ExpireLedger DEF Step
<1>2. CASE UNCHANGED vars
  <2>1. UNCHANGED database /\ UNCHANGED <<claim, exec>>
    BY <1>2 DEF vars, database
  <2>2. \A p \in Requests : Holds(p)' => Holds(p)
    BY ZenonT(60), <2>1 DEF Holds
  <2>3. QED
    BY ZenonT(60), <2>1, <2>2, SelectionKept, QuietLedger
<1>3. QED
  BY <1>1, <1>2, ReconcileLedger, ExpireLedger DEF Next

----------------------------------------------------------------------------
(* The invariant. *)

LEMMA InitInvariant == Init => IInv
<1> SUFFICES ASSUME Init PROVE IInv
  BY ZenonT(60)
<1>1. NoReservation \in Reservation
  BY DEF NoReservation, Reservation
<1>2. TypeOK
  <2>1. [at |-> "acquire", late |-> {}, tries |-> 0, outcome |-> "NotDispatched", prior |-> "NotDispatched",
         hit |-> "none", begun |-> FALSE, seen |-> {}] \in Execution
    <3>1. "acquire" \in Places /\ "NotDispatched" \in Outcomes /\ "none" \in Hits /\ 0 \in 0..Tries
      BY ClaimsAssumption DEF Places, Calls, Outcomes, Hits
    <3>2. QED
      BY <3>1, Zenon DEF Execution
  <2>2. QED
    BY <1>1, <2>1, Zenon DEF Init, TypeOK, Hits
<1>3. ASSUME NEW q \in Requests
      PROVE  /\ exec[q].at = "acquire" /\ exec[q].late = {} /\ exec[q].outcome = "NotDispatched"
             /\ exec[q].begun = FALSE /\ exec[q].seen = {} /\ exec[q].tries = 0
             /\ res[q].state = "none" /\ res[q].bound = FALSE /\ res[q].refunded = FALSE
             /\ effect[q] = "none" /\ Doing(q) = {"acquire"}
  BY DEF Init, NoReservation, Doing
<1>4. Executions
  <2>1. ASSUME NEW q \in Requests PROVE Executing(q)
    <3>1. \A d \in Doing(q) : d = "acquire"
      BY ZenonT(60), <1>3
    <3>2. "acquire" \notin Reading \cup Running
      BY DEF Reading, Running
    <3>3. QED
      BY ZenonT(60), <1>3, <3>1, <3>2 DEF Executing
  <2>2. QED
    BY <2>1 DEF Executions
<1>5. Claimed
  BY ZenonT(60), <1>3, KeyOfRequest DEF Init, Claimed, Holds, Running
<1>6. Reserved
  BY ZenonT(60), <1>3 DEF Reserved, ReservedFor, Running
<1>7. Selection /\ DispatchFence
  BY ZenonT(60), <1>3 DEF Selection, DispatchFence
<1>8. QED
  BY <1>2, <1>4, <1>5, <1>6, <1>7 DEF IInv

LEMMA NextInvariant == ASSUME Library PROVE IInv /\ [Next]_vars => IInv'
<1> SUFFICES ASSUME IInv, [Next]_vars PROVE IInv'
  BY ZenonT(60)
<1>1. ASSUME NEW q \in Requests, Step(q) PROVE IInv'
  BY ZenonT(60), <1>1, CallInvariant, SelectInvariant, GotoInvariant, BeginInvariant, AttemptInvariant,
     DropInvariant, ReservationExpiresInvariant DEF Step
<1>2. ASSUME NEW q \in Requests, Reconcile(q) PROVE IInv'
  BY <1>2, NotDispatchedInvariant, OutcomeInvariant DEF Reconcile
<1>3. ASSUME NEW k \in Keys, LeaseExpires(k) PROVE IInv'
  BY ZenonT(60), <1>3, LeaseExpiresInvariant
<1>4. CASE UNCHANGED vars
  <2>1. UNCHANGED <<claim, record, audit, res, usage, exec, effect>>
    BY ZenonT(60), <1>4 DEF vars, database
  <2>2. TypeOK'
    BY <2>1 DEF IInv, TypeOK
  <2>3. Executions'
    BY ZenonT(60), <2>1 DEF IInv, Executions, Executing, Doing
  <2>4. Claimed'
    BY ZenonT(60), <2>1 DEF IInv, Claimed, Holds
  <2>5. Reserved'
    BY ZenonT(60), <2>1 DEF IInv, Reserved, ReservedFor, Doing
  <2>6. Selection' /\ DispatchFence'
    BY ZenonT(60), <2>1 DEF IInv, Selection, DispatchFence, Holds
  <2>7. QED
    BY ZenonT(60), <2>2, <2>3, <2>4, <2>5, <2>6 DEF IInv
<1>5. QED
  BY <1>1, <1>2, <1>3, <1>4 DEF Next

----------------------------------------------------------------------------
(* The theorems, and first the facts of the library. *)

INSTANCE FiniteSetTheorems

(* What a set of charges is at least: the number of requests charged. *)
LEMMA ChargedBound ==
    ASSUME NEW U, U \subseteq {"action", "recovery"} \X Requests, NEW B,
           \A p \in B : \E kind : <<kind, p>> \in U
    PROVE  IsFiniteSet(U) /\ IsFiniteSet(B) /\ Cardinality(B) <= Cardinality(U)
<1>1. IsFiniteSet({"action"} \cup {"recovery"})
  BY ZenonT(60), FS_Singleton, FS_AddElement
<1>2. {"action", "recovery"} = {"action"} \cup {"recovery"}
  BY ZenonT(60)
<1>3. IsFiniteSet(Requests)
  BY ZenonT(60), ClaimsAssumption
<1>4. IsFiniteSet({"action", "recovery"} \X Requests)
  BY ZenonT(60), <1>1, <1>2, <1>3, FS_Product
<1>5. IsFiniteSet(U)
  BY ZenonT(60), <1>4, FS_Subset
<1> DEFINE T == {u[2] : u \in U}
           f == [u \in U |-> u[2]]
<1>6. f \in Surjection(U, T)
  BY ZenonT(60) DEF Surjection
<1>7. IsFiniteSet(T) /\ Cardinality(T) <= Cardinality(U)
  BY ZenonT(60), <1>5, <1>6, FS_Surjection
<1>8. ASSUME NEW p \in B PROVE p \in T
  <2>1. PICK kind : <<kind, p>> \in U
    BY ZenonT(60)
  <2>2. PICK u \in U : u = <<kind, p>>
    BY ZenonT(60), <2>1
  <2>3. u[2] = p
    BY ZenonT(60), <2>2
  <2>4. QED
    BY ZenonT(60), <2>3
<1> HIDE DEF T
<1>9. IsFiniteSet(B) /\ Cardinality(B) <= Cardinality(T)
  <2>1. B \in SUBSET T
    BY ZenonT(60), <1>8
  <2>2. QED
    BY ZenonT(60), <1>7, <2>1, FS_Subset
<1>10. Cardinality(B) \in Nat /\ Cardinality(T) \in Nat /\ Cardinality(U) \in Nat
  BY <1>5, <1>7, <1>9, FS_CardinalityType
<1>11. QED
  BY <1>5, <1>7, <1>9, <1>10

LEMMA LibraryFacts == Library
<1>1. \A S, T : IsFiniteSet(T) /\ S \in SUBSET T => IsFiniteSet(S) /\ Cardinality(S) <= Cardinality(T)
  BY ZenonT(60), FS_Subset
<1>2. \A S : IsFiniteSet(S) => Cardinality(S) \in Nat
  BY ZenonT(60), FS_CardinalityType
<1>3. ASSUME NEW S, NEW T, IsFiniteSet(S), IsFiniteSet(T)
      PROVE  IsFiniteSet(S \cup T) /\ Cardinality(S \cup T) <= Cardinality(S) + Cardinality(T)
  <2>1. /\ IsFiniteSet(S \cup T)
        /\ Cardinality(S \cup T) = Cardinality(S) + Cardinality(T) - Cardinality(S \cap T)
    BY ZenonT(60), <1>3, FS_Union
  <2>2. S \cap T \in SUBSET S
    BY ZenonT(60)
  <2>3. Cardinality(S) \in Nat /\ Cardinality(T) \in Nat /\ Cardinality(S \cap T) \in Nat
    BY ZenonT(60), <1>1, <1>2, <1>3, <2>2
  <2>4. QED
    BY <2>1, <2>3
<1>4. \A x : IsFiniteSet({x}) /\ Cardinality({x}) = 1
  BY ZenonT(60), FS_Singleton
<1>5. Cardinality({}) = 0
  BY ZenonT(60), FS_EmptySet
<1>6. QED
  BY ZenonT(60), <1>1, <1>2, <1>3, <1>4, <1>5, ChargedBound DEF Library

(* The invariant holds of every execution of any number of requests. *)
THEOREM Invariant == Spec => []IInv
<1>1. IInv /\ [Next]_vars => IInv'
  BY LibraryFacts, NextInvariant
<1>2. QED
  BY <1>1, InitInvariant, PTL DEF Spec

(* Claims, reservations, usage and executions keep their types. *)
THEOREM TypeCorrect == Spec => []TypeOK
<1>1. IInv => TypeOK
  BY DEF IInv
<1>2. QED
  BY <1>1, Invariant, PTL

(* A mutation that has reached the provider stays fenced by its claim or   *)
(* its output, whatever calls fail, run late or are lost.                  *)
THEOREM Fenced == Spec => []DispatchFence
<1>1. IInv => DispatchFence
  BY ZenonT(60) DEF IInv
<1>2. QED
  BY <1>1, Invariant, PTL

(* Of all mutations with one key at most one reaches the provider: both    *)
(* would be fenced, and a key has one claim, or one output and no claim.   *)
THEOREM AtMostOneEffect == Spec => []SingleEffect
<1>1. IInv => SingleEffect
  <2>1. SUFFICES ASSUME IInv, NEW p \in Requests \ ReadOnly, NEW q \in Requests \ ReadOnly,
                        Keyed(p), Key[p] = Key[q], effect[p] # "none", effect[q] # "none"
                 PROVE  p = q
    BY ZenonT(60) DEF SingleEffect
  <2>2. Key[p] \in Keys /\ Keyed(q)
    BY ZenonT(60), <2>1, KeyOfRequest DEF Keyed
  <2>3. /\ Holds(p) \/ record[Key[p]] = p
        /\ Holds(q) \/ record[Key[p]] = q
    BY ZenonT(60), <2>1, <2>2 DEF IInv, DispatchFence
  <2>4. claim[Key[p]] # None => record[Key[p]] = None
    BY ZenonT(60), <2>1, <2>2 DEF IInv, Claimed
  <2>5. p # None /\ q # None
    BY ClaimsAssumption
  <2>6. /\ Holds(p) => claim[Key[p]] # None /\ claim[Key[p]].req = p
        /\ Holds(q) => claim[Key[p]] # None /\ claim[Key[p]].req = q
    BY ZenonT(60), <2>1 DEF Holds
  <2>7. QED
    BY ZenonT(60), <2>3, <2>4, <2>5, <2>6
<1>2. QED
  BY <1>1, Invariant, PTL

(* What was refunded never reached the provider. *)
THEOREM RefundsAreUnused == Spec => []RefundedNeverRan
<1>1. IInv => RefundedNeverRan
  BY ZenonT(60) DEF IInv, Reserved, ReservedFor, RefundedNeverRan
<1>2. QED
  BY <1>1, Invariant, PTL

(* Once the outcome of a key is kept or audited, no request with the key   *)
(* reaches the provider.                                                   *)
THEOREM KnownOutcomeIsFinal == Spec => KnownIsFinal
<1> DEFINE Final == \A q \in Requests : Keyed(q) /\ (record[Key[q]] # None \/ audit[Key[q]] # None)
                                           => effect'[q] = effect[q]
<1>1. IInv /\ [Next]_vars => [Final]_vars
  <2>1. SUFFICES ASSUME IInv, Next PROVE Final
    BY ZenonT(60)
  <2>2. ASSUME NEW q \in Requests, begin_attempt(q) PROVE Final
    <3>1. \A p \in Requests : p # q => effect'[p] = effect[p]
      BY ZenonT(60), <2>1, <2>2 DEF begin_attempt, IInv, TypeOK
    <3>2. Keyed(q) => Holds(q) /\ audit[Key[q]] = None
      BY ZenonT(60), <2>1, <2>2 DEF IInv, Claimed, Running, begin_attempt
    <3>3. Keyed(q) => record[Key[q]] = None
      BY ZenonT(60), <2>1, <3>2, KeyOfRequest DEF IInv, Claimed, Holds
    <3>4. QED
      BY ZenonT(60), <3>1, <3>2, <3>3
  <2>3. CASE effect' = effect
    BY <2>3
  <2>4. ASSUME NEW q \in Requests, Step(q), ~begin_attempt(q) PROVE effect' = effect
    BY ZenonT(60), <2>4 DEF Step, Returns, Fails, AnswerLost, Late, select_reservation, prepare, Answered, Failed,
                record_replay, deadline, Abandon, Drop, ReservationExpires
  <2>5. ASSUME NEW q \in Requests, Reconcile(q) PROVE effect' = effect
    BY ZenonT(60), <2>5 DEF Reconcile, proven_not_dispatched, provider_succeeded, provider_failed
  <2>6. ASSUME NEW k \in Keys, LeaseExpires(k) PROVE effect' = effect
    BY ZenonT(60), <2>6 DEF LeaseExpires
  <2>7. QED
    BY ZenonT(60), <2>1, <2>2, <2>3, <2>4, <2>5, <2>6 DEF Next
<1>2. Spec => [][Final]_vars
  BY <1>1, Invariant, PTL DEF Spec
<1>3. QED
  BY <1>2 DEF KnownIsFinal

(* The ledger: its own inductive invariant, on top of the first one. *)
THEOREM LedgerInvariant == Spec => [](IInv /\ LedgerInv)
<1>1. IInv /\ LedgerInv /\ [Next]_vars => IInv' /\ LedgerInv'
  BY ZenonT(60), LibraryFacts, NextInvariant, NextLedger, LedgerKept
<1>2. Init => LedgerInv
  BY LibraryFacts, InitLedger
<1>3. QED
  BY <1>1, <1>2, InitInvariant, PTL DEF Spec

(* The usage ledger and the reservations agree: what is settled is         *)
(* metered, what is metered is settled (or a read that the operator has    *)
(* declared failed meanwhile), and what is replayed was settled.           *)
THEOREM LedgerHasNoGap == Spec => []Ledger
<1>1. LedgerInv => Ledger
  BY DEF LedgerInv, Ledger, Waived
<1>2. QED
  BY <1>1, LedgerInvariant, PTL

(* The reservations that are active or settled never exceed the hard       *)
(* limit, for any limit and any number of requests.                        *)
THEOREM QuotaIsKept == Spec => []Quota
<1>1. LedgerInv => Quota
  BY ZenonT(60) DEF LedgerInv
<1>2. QED
  BY <1>1, LedgerInvariant, PTL
============================================================================
