--------------------------- MODULE LifecycleProofs ---------------------------
(***************************************************************************)
(* Theorems about module Lifecycle, for any callers and bounds.            *)
(***************************************************************************)
EXTENDS Lifecycle, TLAPS

(* Every new generation has a new secret. *)
Bounded == generation <= secret + 1

(* A call to the provider has the caller's own attempt, for the account of *)
(* the connection, or that of an authorization, for the next account.      *)
Dispatched ==
    \A q \in Callers : call[q].at = "sent" =>
        /\ call[q].attempt \in {q} \cup 1..starts
        /\ call[q].pending <= secret
        /\ call[q].pending = secret =>
              call[q].account = IF call[q].attempt = q THEN account ELSE account + 1

(* The copies of the row: a test never sees a disconnected connection, and *)
(* a secret comes with one account.                                        *)
Copies ==
    \A q \in Callers :
        /\ call[q].at \in {"tested", "checked", "failed"} => call[q].status # "disconnected"
        /\ call[q].at = "sent" /\ call[q].purpose = "test" => call[q].status # "disconnected"
        /\ call[q].at = "validating" =>
              /\ call[q].secret <= secret
              /\ call[q].secret = secret => call[q].account = account

(* The intent of a caller is a refresh, and an authorization in progress   *)
(* has its verifier.                                                       *)
Intended ==
    /\ intent.operation = "refresh" <=> intent.attempt \in Callers
    /\ intent.state = "authorizing" => intent.pkce = intent.attempt /\ intent.attempt \in pkce

Kept == secret # 0 => secret \in envelopes

(* A refresh token that was sent belongs to a secret that was replaced, or *)
(* to a connection that is not active and whose outcome is open, or was    *)
(* when an authorization took over.                                        *)
Rotated ==
    \A s \in 1..MaxSecret : sends[s] > 0 =>
        /\ s <= secret
        /\ s = secret => (s \in waived \/ OutcomeUnknown) /\ status # "active"

(* A caller that the user has overtaken finds another attempt, another     *)
(* secret, or the connection disconnected.                                 *)
Overtaken ==
    \A q \in overtaken : call[q].at = "sent" =>
        \/ intent.attempt # call[q].attempt
        \/ secret # call[q].pending
        \/ status = "disconnected"

IInv == TypeOK /\ Bounded /\ Dispatched /\ Copies /\ Intended /\ Kept /\ Rotated /\ Overtaken


(* What an update of the row and of a call amounts to. *)

LEMMA GoCall ==
    ASSUME TypeOK, NEW q \in Callers, NEW c, Go(q, c)
    PROVE  /\ call'[q] = c
           /\ \A p \in Callers : p # q => call'[p] = call[p]
           /\ c \in Call => call' \in [Callers -> Call]
  BY DEF Go, TypeOK

LEMMA IdleCall == Idle \in Call /\ Idle.at = "idle"
  BY LifecycleAssumption DEF Idle, Call, Places, Secrets

LEMMA HoldingCall ==
    ASSUME NEW place \in {"tested", "checked", "failed", "validating"}, NEW sec \in Secrets, NEW acc \in Nat,
           NEW st \in {"active", "degraded", "authorizing", "disconnected"}
    PROVE  /\ Holding(place, st, sec, acc) \in Call
           /\ Holding(place, st, sec, acc).at = place
           /\ Holding(place, st, sec, acc).status = st
           /\ Holding(place, st, sec, acc).secret = sec
           /\ Holding(place, st, sec, acc).account = acc
  BY LifecycleAssumption DEF Holding, Call, Places, Secrets

LEMMA StatusUpdate ==
    ASSUME NEW st, st # "active", UpdateStatus(st)
    PROVE  status' = st /\ UNCHANGED <<secret, generation>>
  BY DEF UpdateStatus, UpdateRow, Bumped

LEMMA SecretUpdate ==
    ASSUME TypeOK, NEW marker, ReplaceCredentials(marker)
    PROVE  /\ status' = "active"
           /\ secret' = secret + 1 /\ secret' \in 1..MaxSecret
           /\ envelopes' = envelopes \cup {secret'}
           /\ generation' = IF RefreshInFlight("active", marker) THEN generation ELSE generation + 1
  BY LifecycleAssumption DEF ReplaceCredentials, UpdateRow, Bumped, TypeOK, Secrets

----------------------------------------------------------------------------
(* The invariant holds initially, and is preserved.                        *)

LEMMA InitInvariant == Init => IInv
<1> SUFFICES ASSUME Init PROVE IInv
  OBVIOUS
<1> USE LifecycleAssumption DEF Init
<1>1. secret \in 0..1
  OBVIOUS
<1>2. TypeOK
  BY <1>1, IdleCall DEF TypeOK, Intent, States, Secrets
<1>3. \A q \in Callers : call[q].at = "idle"
  BY IdleCall
<1>4. Bounded /\ Intended /\ Kept
  BY <1>1 DEF Bounded, Intended, Kept
<1>5. Dispatched /\ Copies /\ Rotated /\ Overtaken
  BY <1>3 DEF Dispatched, Copies, Rotated, Overtaken
<1>6. QED
  BY <1>2, <1>4, <1>5 DEF IInv

(* The caller goes on without having touched anything, not to the provider.*)
LEMMA OnlyCall ==
    ASSUME IInv, NEW q \in Callers, NEW c \in Call, Go(q, c), c.at # "sent",
           c.at \in {"tested", "checked", "failed"} => c.status # "disconnected",
           c.at = "validating" => c.secret = secret /\ c.account = account,
           UNCHANGED <<mode, row, account, envelopes, pkce, intent, starts, histories>>
    PROVE  IInv'
<1> USE DEF IInv, row, histories
<1>1. /\ call'[q] = c
      /\ \A p \in Callers : p # q => call'[p] = call[p]
      /\ call' \in [Callers -> Call]
  BY GoCall
<1>2. TypeOK'
  BY <1>1 DEF TypeOK
<1>3. Bounded' /\ Intended' /\ Kept'
  BY DEF Bounded, Intended, Kept
<1>4. Dispatched'
  BY <1>1 DEF Dispatched
<1>5. Copies'
  BY <1>1 DEF Copies, TypeOK, Secrets
<1>6. Rotated'
  BY DEF Rotated, OutcomeUnknown
<1>7. Overtaken'
  BY <1>1 DEF Overtaken, TypeOK
<1>8. QED
  BY <1>2, <1>3, <1>4, <1>5, <1>6, <1>7

(* A refresh begins. *)
LEMMA Preparing ==
    ASSUME IInv, NEW q \in Callers, NEW purpose \in {"use", "test"}, PrepareRefresh(q, purpose),
           call[q].at \in {"idle", "tested"},
           purpose = "test" => call[q].status # "disconnected"
    PROVE  IInv'
<1> USE DEF IInv
<1> DEFINE c == [at |-> "sent", purpose |-> purpose, attempt |-> q, pending |-> secret,
                 status |-> call[q].status, secret |-> call[q].secret, account |-> account]
<1>1. /\ secret # 0 /\ ~OutcomeUnknown /\ status # "disconnected"
      /\ intent' = [attempt |-> q, secret |-> secret, operation |-> "refresh", state |-> "dispatched",
                    pkce |-> intent.pkce]
      /\ status' = "degraded" /\ UNCHANGED <<secret, generation>>
      /\ Go(q, c)
      /\ sends' = [sends EXCEPT ![secret] = @ + 1]
      /\ overtaken' = overtaken \ {q}
      /\ UNCHANGED <<mode, account, envelopes, pkce, starts, waived>>
  BY StatusUpdate DEF PrepareRefresh, Dispatch, Resolvable
<1>2. c \in Call
  BY DEF TypeOK, Call, Places, Secrets
<1>3. /\ call'[q] = c
      /\ \A p \in Callers : p # q => call'[p] = call[p]
      /\ call' \in [Callers -> Call]
  BY <1>1, <1>2, GoCall
<1>4. TypeOK'
  <2>1. intent' \in Intent
    BY <1>1 DEF TypeOK, Intent, States
  <2>2. sends' \in [1..MaxSecret -> Nat]
    BY <1>1 DEF TypeOK, Secrets
  <2>3. QED
    BY <1>1, <1>3, <2>1, <2>2 DEF TypeOK
<1>5. Bounded' /\ Kept'
  BY <1>1 DEF Bounded, Kept
<1>6. Intended'
  BY <1>1 DEF Intended
<1>7. Dispatched'
  BY <1>1, <1>3 DEF Dispatched, TypeOK, Secrets
<1>8. Copies'
  BY <1>1, <1>3 DEF Copies
<1>9. Rotated'
  <2>1. OutcomeUnknown'
    BY <1>1 DEF OutcomeUnknown
  <2>2. \A s \in 1..MaxSecret : s # secret => sends'[s] = sends[s]
    BY <1>1 DEF TypeOK
  <2>3. QED
    BY <1>1, <2>1, <2>2 DEF Rotated, TypeOK, Secrets
<1>10. Overtaken'
  <2>1. SUFFICES ASSUME NEW p \in overtaken', call'[p].at = "sent" PROVE intent'.attempt # call'[p].attempt
    BY DEF Overtaken
  <2>2. p \in Callers /\ p # q
    BY <1>1, <2>1 DEF TypeOK
  <2>3. call[p].attempt \in {p} \cup 1..starts
    BY <1>3, <2>1, <2>2 DEF Dispatched
  <2>4. q \notin 1..starts
    BY LifecycleAssumption DEF TypeOK
  <2>5. QED
    BY <1>1, <1>3, <2>2, <2>3, <2>4
<1>11. QED
  BY <1>4, <1>5, <1>6, <1>7, <1>8, <1>9, <1>10

(* ... and ends with an error. *)
LEMMA Failing ==
    ASSUME IInv, NEW q \in Callers, FinishError(q)
    PROVE  IInv'
<1> USE DEF IInv
<1>1. /\ call[q].at = "sent"
      /\ intent' = IF intent.attempt = call[q].attempt /\ intent.state = "dispatched"
                   THEN [intent EXCEPT !.state = "unknown"] ELSE intent
      /\ Go(q, IF call[q].purpose = "test" THEN Unresolvable(q) ELSE Idle)
      /\ UNCHANGED <<mode, status, secret, generation, account, envelopes, pkce, starts, sends, waived, overtaken>>
  BY DEF FinishError, Done, row, histories
<1>2. PICK c \in Call : /\ Go(q, c) /\ c.at \in {"failed", "idle"}
                        /\ c.at = "failed" => c.status # "disconnected"
  <2>1. Unresolvable(q) \in Call /\ Unresolvable(q).at = "failed" /\ Unresolvable(q).status = call[q].status
    <3>1. call[q].secret \in Secrets /\ call[q].status \in {"active", "degraded", "authorizing", "disconnected"}
      BY DEF TypeOK, Call
    <3>2. QED
      BY <3>1, HoldingCall DEF Unresolvable
  <2>2. QED
    BY <1>1, <2>1, IdleCall DEF Copies
<1>3. /\ call'[q] = c
      /\ \A p \in Callers : p # q => call'[p] = call[p]
      /\ call' \in [Callers -> Call]
  BY <1>2, GoCall
<1>4. intent' \in Intent
  BY <1>1 DEF TypeOK, Intent, States
<1>5. /\ intent'.attempt = intent.attempt /\ intent'.secret = intent.secret
      /\ intent'.operation = intent.operation /\ intent'.pkce = intent.pkce
      /\ intent'.state = intent.state \/ (intent.state = "dispatched" /\ intent'.state = "unknown")
  BY <1>1 DEF TypeOK, Intent
<1>6. TypeOK'
  BY <1>1, <1>3, <1>4 DEF TypeOK
<1>7. Bounded' /\ Kept' /\ Intended'
  BY <1>1, <1>5 DEF Bounded, Kept, Intended
<1>8. Dispatched' /\ Copies'
  BY <1>1, <1>2, <1>3 DEF Dispatched, Copies
<1>9. Rotated'
  BY <1>1, <1>5 DEF Rotated, OutcomeUnknown
<1>10. Overtaken'
  BY <1>1, <1>2, <1>3, <1>5 DEF Overtaken, TypeOK
<1>11. QED
  BY <1>6, <1>7, <1>8, <1>9, <1>10

(* New credentials: no call has them pending, and the account may be any.  *)
LEMMA Replacing ==
    ASSUME IInv, NEW q \in Callers, NEW c \in Call, Go(q, c), NEW marker, ReplaceCredentials(marker),
           c.at \in {"idle", "checked"}, c.at = "checked" => c.status = "active",
           account' \in Nat, intent' \in Intent, Intended',
           UNCHANGED <<mode, pkce, starts, histories>>
    PROVE  IInv'
<1> USE DEF IInv, histories
<1>1. /\ status' = "active"
      /\ secret' = secret + 1 /\ secret' \in 1..MaxSecret
      /\ envelopes' = envelopes \cup {secret'}
      /\ generation' \in {generation, generation + 1}
  BY SecretUpdate
<1>2. /\ call'[q] = c
      /\ \A p \in Callers : p # q => call'[p] = call[p]
      /\ call' \in [Callers -> Call]
  BY GoCall
<1>3. TypeOK'
  BY <1>1, <1>2 DEF TypeOK, Secrets
<1>4. Bounded' /\ Kept'
  BY <1>1 DEF Bounded, Kept, TypeOK, Secrets
<1>5. \A p \in Callers : call[p].pending \in Nat /\ call[p].secret \in Nat
  BY DEF TypeOK, Call, Secrets
<1>6. Dispatched'
  BY <1>1, <1>2, <1>5 DEF Dispatched, TypeOK, Secrets
<1>7. Copies'
  BY <1>1, <1>2, <1>5 DEF Copies, TypeOK, Secrets
<1>8. Rotated'
  BY <1>1 DEF Rotated, TypeOK, Secrets
<1>9. Overtaken'
  BY <1>1, <1>2, <1>5 DEF Overtaken, Dispatched, TypeOK, Secrets
<1>10. QED
  BY <1>3, <1>4, <1>6, <1>7, <1>8, <1>9

(* Tokens arrive in time. *)
LEMMA Finishing ==
    ASSUME IInv, NEW q \in Callers, FinishTokens(q)
    PROVE  IInv'
<1> USE DEF IInv
<1> DEFINE c == IF call[q].purpose = "test" THEN Holding("checked", "active", secret + 1, 0) ELSE Idle
<1>1. /\ ReplaceCredentials(call[q].attempt) /\ Go(q, c)
      /\ account' = call[q].account
      /\ intent' = [intent EXCEPT !.state = "completed", !.pkce = 0]
      /\ UNCHANGED <<mode, pkce, starts, histories>>
  BY DEF FinishTokens, Done
<1>2. secret + 1 \in Secrets
  BY <1>1, LifecycleAssumption DEF ReplaceCredentials, TypeOK, Secrets
<1>3. c \in Call /\ c.at \in {"idle", "checked"} /\ (c.at = "checked" => c.status = "active")
  BY <1>2, HoldingCall, IdleCall
<1>4. account' \in Nat
  BY <1>1 DEF TypeOK, Call
<1>5. intent' \in Intent /\ Intended'
  <2>1. /\ intent'.attempt = intent.attempt /\ intent'.operation = intent.operation
        /\ intent'.state = "completed"
    BY <1>1 DEF TypeOK, Intent
  <2>2. [intent EXCEPT !.state = "completed"] \in Intent
    BY DEF TypeOK, Intent, States
  <2>3. \A i \in Intent : [i EXCEPT !.pkce = 0] \in Intent
    BY LifecycleAssumption DEF Intent
  <2>4. intent' = [[intent EXCEPT !.state = "completed"] EXCEPT !.pkce = 0]
    BY <1>1
  <2>5. QED
    BY <2>1, <2>2, <2>3, <2>4 DEF Intended
<1>6. QED
  BY <1>1, <1>3, <1>4, <1>5, Replacing

(* An authorization begins. *)
LEMMA Starting ==
    ASSUME IInv, Start
    PROVE  IInv'
<1> USE DEF IInv
<1>1. /\ starts < MaxStarts /\ starts' = starts + 1
      /\ pkce' = pkce \cup {starts + 1}
      /\ intent' = [attempt |-> starts + 1, secret |-> secret, operation |-> "authorization",
                    state |-> "authorizing", pkce |-> starts + 1]
      /\ status' = "authorizing" /\ UNCHANGED <<secret, generation>>
      /\ waived' = IF OutcomeUnknown /\ secret # 0 THEN waived \cup {secret} ELSE waived
      /\ overtaken' = overtaken \cup Sent
      /\ UNCHANGED <<mode, account, envelopes, call, sends>>
  BY StatusUpdate DEF Start
<1>2. starts + 1 \in 1..MaxStarts /\ starts \in Nat /\ 1..starts \subseteq 1..starts'
  BY <1>1, LifecycleAssumption DEF TypeOK
<1>3. TypeOK'
  <2>1. intent' \in Intent
    BY <1>1, <1>2 DEF TypeOK, Intent, States
  <2>2. waived' \subseteq 1..MaxSecret
    BY <1>1, LifecycleAssumption DEF TypeOK, Secrets
  <2>3. QED
    BY <1>1, <1>2, <2>1, <2>2 DEF TypeOK, Sent
<1>4. Bounded' /\ Kept'
  BY <1>1 DEF Bounded, Kept
<1>5. Intended'
  BY <1>1, <1>2, LifecycleAssumption DEF Intended
<1>6. Dispatched' /\ Copies'
  BY <1>1, <1>2 DEF Dispatched, Copies
<1>7. Rotated'
  BY <1>1 DEF Rotated
<1>8. Overtaken'
  <2>1. SUFFICES ASSUME NEW p \in Callers, call[p].at = "sent" PROVE starts + 1 # call[p].attempt
    BY <1>1 DEF Overtaken, Sent, TypeOK
  <2>2. call[p].attempt \in {p} \cup 1..starts
    BY <2>1 DEF Dispatched
  <2>3. QED
    BY <1>2, <2>2, LifecycleAssumption
<1>9. QED
  BY <1>3, <1>4, <1>5, <1>6, <1>7, <1>8

(* The user comes back from the provider. *)
LEMMA CallingBack ==
    ASSUME IInv, NEW q \in Callers, NEW n \in 1..starts, Callback(q, n)
    PROVE  IInv'
<1> USE DEF IInv
<1> DEFINE c == [at |-> "sent", purpose |-> "use", attempt |-> n, pending |-> secret,
                 status |-> call[q].status, secret |-> call[q].secret, account |-> account + 1]
<1>1. /\ call[q].at = "idle" /\ Bound(n)
      /\ intent' = [intent EXCEPT !.state = "dispatched"]
      /\ status' = "degraded" /\ UNCHANGED <<secret, generation>>
      /\ Go(q, c)
      /\ overtaken' = overtaken \ {q}
      /\ UNCHANGED <<mode, account, envelopes, pkce, starts, sends, waived>>
  BY StatusUpdate DEF Callback, Dispatch
<1>2. n \in 1..MaxStarts
  BY LifecycleAssumption DEF TypeOK
<1>3. c \in Call
  BY <1>2 DEF TypeOK, Call, Places, Secrets
<1>4. /\ call'[q] = c
      /\ \A p \in Callers : p # q => call'[p] = call[p]
      /\ call' \in [Callers -> Call]
  BY <1>1, <1>3, GoCall
<1>5. /\ intent' \in Intent
      /\ intent'.attempt = intent.attempt /\ intent'.secret = intent.secret
      /\ intent'.operation = intent.operation /\ intent'.state = "dispatched"
  BY <1>1 DEF TypeOK, Intent, States
<1>6. TypeOK'
  BY <1>1, <1>4, <1>5 DEF TypeOK
<1>7. Bounded' /\ Kept' /\ Intended'
  BY <1>1, <1>5 DEF Bounded, Kept, Intended
<1>8. Dispatched'
  <2>1. n # q
    BY <1>2, LifecycleAssumption
  <2>2. QED
    BY <1>1, <1>4, <2>1 DEF Dispatched, TypeOK, Secrets
<1>9. Copies'
  BY <1>1, <1>4 DEF Copies
<1>10. Rotated'
  <2>1. OutcomeUnknown'
    BY <1>1, <1>5 DEF Bound, OutcomeUnknown
  <2>2. QED
    BY <1>1, <2>1 DEF Rotated
<1>11. Overtaken'
  BY <1>1, <1>4, <1>5 DEF Overtaken, Bound, TypeOK
<1>12. QED
  BY <1>6, <1>7, <1>8, <1>9, <1>10, <1>11

(* The connection is disconnected, or found not to work. *)
LEMMA Deactivating ==
    ASSUME IInv, NEW st \in {"degraded", "disconnected"}, UpdateStatus(st),
           NEW c \in [Callers -> Call], call' = c,
           \A p \in Callers : c[p] = call[p] \/ c[p].at = "idle",
           overtaken \subseteq overtaken',
           overtaken' = overtaken \/ (overtaken' \subseteq Callers /\ st = "disconnected"),
           st = "degraded" => status # "disconnected",
           UNCHANGED <<mode, account, envelopes, pkce, intent, starts, sends, waived>>
    PROVE  IInv'
<1> USE DEF IInv
<1>1. status' = st /\ UNCHANGED <<secret, generation>>
  BY StatusUpdate
<1>2. TypeOK'
  BY <1>1 DEF TypeOK
<1>3. Bounded' /\ Kept' /\ Intended'
  BY <1>1 DEF Bounded, Kept, Intended
<1>4. Dispatched' /\ Copies'
  BY <1>1 DEF Dispatched, Copies
<1>5. Rotated'
  BY <1>1 DEF Rotated, OutcomeUnknown
<1>6. Overtaken'
  BY <1>1 DEF Overtaken, TypeOK
<1>7. QED
  BY <1>2, <1>3, <1>4, <1>5, <1>6

(* The result of a test. *)
LEMMA Recording ==
    ASSUME IInv, NEW q \in Callers, NEW healthy \in BOOLEAN, RecordTest(q, healthy)
    PROVE  IInv'
<1> USE DEF IInv
<1>1. /\ call[q].at \in {"failed", "checked"} /\ Go(q, Idle)
      /\ UNCHANGED <<mode, account, envelopes, pkce, intent, starts, histories>>
  BY DEF RecordTest
<1>2. CASE UNCHANGED row
  BY <1>1, <1>2, IdleCall, OnlyCall
<1>3. CASE UpdateStatus("degraded") /\ status = call[q].status
  <2>1. status # "disconnected"
    BY <1>1, <1>3 DEF Copies
  <2>2. /\ call' \in [Callers -> Call]
        /\ \A p \in Callers : call'[p] = call[p] \/ call'[p].at = "idle"
    BY <1>1, IdleCall, GoCall
  <2>3. QED
    BY <1>1, <1>3, <2>1, <2>2, Deactivating DEF histories
<1>4. QED
  BY <1>2, <1>3 DEF RecordTest

(* The setup form has its credentials validated. *)
LEMMA Validated ==
    ASSUME IInv, NEW q \in Callers, SaveValidated(q)
    PROVE  IInv'
<1> USE DEF IInv
<1>1. Go(q, Idle) /\ UNCHANGED <<mode, pkce, intent, starts, histories>>
  BY DEF SaveValidated
<1>2. CASE ReplaceCredentials(None) /\ account' = account + 1
  <2>1. account' \in Nat /\ intent' \in Intent /\ Intended'
    BY <1>1, <1>2 DEF TypeOK, Intended
  <2>2. QED
    BY <1>1, <1>2, <2>1, IdleCall, Replacing
<1>3. CASE UNCHANGED <<row, envelopes, account>>
  BY <1>1, <1>3, IdleCall, OnlyCall
<1>4. QED
  BY <1>2, <1>3 DEF SaveValidated

LEMMA Cleaning ==
    ASSUME IInv, Cleanup
    PROVE  IInv'
<1> USE DEF IInv, Cleanup, row, histories
<1>1. TypeOK'
  BY DEF TypeOK
<1>2. Bounded' /\ Dispatched' /\ Copies' /\ Overtaken'
  BY DEF Bounded, Dispatched, Copies, Overtaken
<1>3. Intended'
  BY DEF Intended
<1>4. Kept'
  BY DEF Kept, Referenced
<1>5. Rotated'
  BY DEF Rotated, OutcomeUnknown
<1>6. QED
  BY <1>1, <1>2, <1>3, <1>4, <1>5

LEMMA NextInvariant == IInv /\ [Next]_vars => IInv'
<1> SUFFICES ASSUME IInv, [Next]_vars PROVE IInv'
  OBVIOUS
<1>1. ASSUME NEW q \in Callers, Resolve(q) PROVE IInv'
  BY <1>1, Preparing DEF Resolve
<1>2. ASSUME NEW q \in Callers, FinishRefused(q) PROVE IInv'
  <2>1. CASE call[q].purpose = "test"
    <3>1. call[q].secret \in Secrets /\ call[q].status \in {"active", "degraded", "authorizing"}
      BY <1>2, <2>1 DEF IInv, TypeOK, Call, FinishRefused, Copies
    <3>2. Go(q, Holding("failed", call[q].status, call[q].secret, 0))
      BY <1>2, <2>1 DEF FinishRefused, Done, Unresolvable
    <3>3. QED
      BY <1>2, <3>1, <3>2, HoldingCall, OnlyCall DEF FinishRefused
  <2>2. CASE call[q].purpose # "test"
    BY <1>2, <2>2, IdleCall, OnlyCall DEF FinishRefused, Done
  <2>3. QED
    BY <2>1, <2>2
<1>3. ASSUME NEW q \in Callers, TestConnection(q) PROVE IInv'
  <2>1. secret \in Secrets /\ status \in {"active", "degraded", "authorizing"}
    BY <1>3 DEF IInv, TypeOK, TestConnection
  <2>2. QED
    BY <1>3, <2>1, HoldingCall, OnlyCall DEF TestConnection
<1>4. ASSUME NEW q \in Callers, ResolveHealth(q) PROVE IInv'
  <2>1. call[q].at = "tested" /\ call[q].secret \in Secrets /\ call[q].status \in {"active", "degraded", "authorizing"}
    BY <1>4 DEF IInv, TypeOK, Call, ResolveHealth, Copies
  <2>2. CASE PrepareRefresh(q, "test")
    BY <2>1, <2>2, Preparing
  <2>3. CASE /\ Resolvable(TRUE) /\ Go(q, Holding("checked", status, secret, 0))
             /\ UNCHANGED <<mode, row, account, envelopes, pkce, intent, starts, histories>>
    <3>1. secret \in Secrets /\ status \in {"active", "degraded", "authorizing"}
      BY <2>3 DEF IInv, TypeOK, Resolvable
    <3>2. QED
      BY <2>3, <3>1, HoldingCall, OnlyCall
  <2>4. CASE /\ Go(q, Unresolvable(q))
             /\ UNCHANGED <<mode, row, account, envelopes, pkce, intent, starts, histories>>
    BY <2>1, <2>4, HoldingCall, OnlyCall DEF Unresolvable
  <2>5. QED
    BY <1>4, <2>2, <2>3, <2>4 DEF ResolveHealth
<1>5. ASSUME NEW q \in Callers, Save(q) PROVE IInv'
  <2>1. secret \in Secrets /\ status \in {"active", "degraded", "authorizing", "disconnected"} /\ account \in Nat
    BY DEF IInv, TypeOK
  <2>2. QED
    BY <1>5, <2>1, HoldingCall, OnlyCall DEF Save
<1>6. ASSUME NEW q \in Callers, Crash(q) PROVE IInv'
  BY <1>6, IdleCall, OnlyCall DEF Crash
<1>7. CASE ExpireStaleAuthorizing \/ Disconnect
  BY <1>7, Deactivating DEF ExpireStaleAuthorizing, Disconnect, histories, Sent, IInv, TypeOK
<1>8. CASE UNCHANGED vars
  BY <1>8 DEF vars, row, histories, IInv, TypeOK, Bounded, Dispatched, Copies, Intended, Kept, Rotated, Overtaken,
     OutcomeUnknown
<1>9. QED
  BY <1>1, <1>2, <1>3, <1>4, <1>5, <1>6, <1>7, <1>8, Failing, Finishing, Starting, CallingBack, Recording,
     Validated, Cleaning DEF Next

THEOREM Invariant == Spec => []IInv
  BY InitInvariant, NextInvariant, PTL DEF Spec

----------------------------------------------------------------------------
(* The properties.                                                         *)

(* Rows, envelopes, intents and callers keep their types. *)
THEOREM TypeCorrect == Spec => []TypeOK
<1>1. IInv => TypeOK
  BY DEF IInv
<1>2. QED
  BY <1>1, Invariant, PTL

(* The credentials and the verifier that the connection needs are never    *)
(* cleaned up.                                                             *)
THEOREM CredentialsAreKept == Spec => []CredentialsKept
<1>1. IInv => CredentialsKept
  BY DEF IInv, Kept, Intended, CredentialsKept, Bound
<1>2. QED
  BY <1>1, Invariant, PTL

(* A refresh token whose use has begun is sent again at most by a          *)
(* connection test after an authorization took over.                       *)
THEOREM RotationIsFenced == Spec => RotationFenced
<1> DEFINE Fenced == \A s \in 1..MaxSecret :
        sends[s] > 0 /\ sends'[s] # sends[s] =>
            s \in waived /\ \E q \in Callers : call[q].at = "tested" /\ call'[q].at = "sent"
<1>1. IInv /\ [Next]_vars => [Fenced]_vars
  <2> SUFFICES ASSUME IInv, Next PROVE Fenced
    OBVIOUS
  <2>1. CASE UNCHANGED sends
    BY <2>1
  <2>2. ASSUME NEW q \in Callers, Resolve(q) PROVE Fenced
    <3>1. status = "active" /\ sends' = [sends EXCEPT ![secret] = @ + 1]
      BY <2>2 DEF Resolve, PrepareRefresh, Resolvable
    <3>2. \A s \in 1..MaxSecret : s # secret => sends'[s] = sends[s]
      BY <3>1 DEF IInv, TypeOK
    <3>3. QED
      BY <3>1, <3>2 DEF IInv, Rotated
  <2>3. ASSUME NEW q \in Callers, call[q].at = "tested", PrepareRefresh(q, "test") PROVE Fenced
    <3>1. ~OutcomeUnknown /\ sends' = [sends EXCEPT ![secret] = @ + 1]
      BY <2>3 DEF PrepareRefresh, Resolvable
    <3>2. \A s \in 1..MaxSecret : s # secret => sends'[s] = sends[s]
      BY <3>1 DEF IInv, TypeOK
    <3>3. call'[q].at = "sent"
      BY <2>3 DEF PrepareRefresh, Dispatch, Go, IInv, TypeOK
    <3>4. QED
      BY <2>3, <3>1, <3>2, <3>3 DEF IInv, Rotated
  <2>4. ASSUME NEW q \in Callers, ResolveHealth(q) PROVE Fenced
    BY <2>1, <2>3, <2>4 DEF ResolveHealth, histories
  <2>5. QED
    BY <2>1, <2>2, <2>4 DEF Next, FinishError, FinishTokens, FinishRefused, TestConnection, RecordTest, Save,
       SaveValidated, Crash, Callback, Start, ExpireStaleAuthorizing, Disconnect, Cleanup, histories
<1>2. QED
  BY <1>1, Invariant, PTL DEF Spec, RotationFenced

(* Tokens that arrive after the user disconnected, or began a new          *)
(* authorization, leave the row alone.                                     *)
THEOREM LateTokensAreLost == Spec => NoLateRevival
<1> DEFINE Late == \A q \in overtaken : call[q].at = "sent" /\ call'[q] # call[q] => UNCHANGED row
<1>1. IInv /\ [Next]_vars => [Late]_vars
  <2> SUFFICES ASSUME IInv, Next, NEW q \in overtaken, call[q].at = "sent", call'[q] # call[q] PROVE UNCHANGED row
    OBVIOUS
  <2>1. q \in Callers
    BY DEF IInv, TypeOK
  <2>2. ASSUME NEW p \in Callers, NEW c, Go(p, c) PROVE p = q
    BY <2>1, <2>2, GoCall DEF IInv
  <2>3. CASE \E p \in Callers : FinishError(p) \/ FinishRefused(p) \/ Crash(p)
    BY <2>3 DEF FinishError, FinishRefused, Crash
  <2>4. ASSUME NEW p \in Callers, FinishTokens(p) PROVE FALSE
    <3>1. p = q /\ StillDispatched(p)
      BY <2>2, <2>4 DEF FinishTokens, Done
    <3>2. QED
      BY <3>1 DEF IInv, Overtaken, StillDispatched
  <2>5. ASSUME NEW p \in Callers, NEW c, Go(p, c), call[p].at # "sent" PROVE FALSE
    BY <2>2, <2>5
  <2>6. ASSUME NEW p \in Callers, \/ Resolve(p) \/ TestConnection(p) \/ ResolveHealth(p) \/ Save(p)
                                  \/ SaveValidated(p) \/ RecordTest(p, TRUE) \/ RecordTest(p, FALSE)
                                  \/ \E n \in 1..starts : Callback(p, n)
        PROVE  FALSE
    BY <2>5, <2>6 DEF Resolve, TestConnection, ResolveHealth, PrepareRefresh, Dispatch, Save, SaveValidated,
       RecordTest, Callback
  <2>7. CASE Start \/ ExpireStaleAuthorizing \/ Disconnect \/ Cleanup
    BY <2>7 DEF Start, ExpireStaleAuthorizing, Disconnect, Cleanup
  <2>8. QED
    BY <2>3, <2>4, <2>6, <2>7 DEF Next
<1>2. QED
  BY <1>1, Invariant, PTL DEF Spec, NoLateRevival

(* The setup form overwrites only the credentials that it was shown.       *)
THEOREM ReplacementsAreNotLost == Spec => NoLostReplacement
<1> DEFINE Fresh == \A q \in Callers :
        call[q].at = "validating" /\ call'[q] # call[q] /\ secret' # secret => call[q].account = account
<1>1. IInv /\ [Next]_vars => [Fresh]_vars
  <2> SUFFICES ASSUME IInv, Next, NEW q \in Callers, call[q].at = "validating", call'[q] # call[q],
                      secret' # secret
               PROVE  call[q].account = account
    OBVIOUS
  <2>1. ASSUME NEW p \in Callers, NEW c, Go(p, c) PROVE p = q
    BY <2>1, GoCall DEF IInv
  <2>2. ASSUME NEW p \in Callers, SaveValidated(p) PROVE call[q].account = account
    <3>1. p = q
      BY <2>1, <2>2 DEF SaveValidated
    <3>2. secret = call[q].secret
      BY <2>2, <3>1 DEF SaveValidated, row
    <3>3. QED
      BY <3>2 DEF IInv, Copies
  <2>3. ASSUME NEW p \in Callers, NEW c, Go(p, c), call[p].at # "validating" PROVE FALSE
    BY <2>1, <2>3
  <2>4. ASSUME NEW p \in Callers, \/ Resolve(p) \/ FinishError(p) \/ FinishTokens(p) \/ FinishRefused(p)
                                  \/ TestConnection(p) \/ ResolveHealth(p) \/ Save(p)
                                  \/ RecordTest(p, TRUE) \/ RecordTest(p, FALSE)
                                  \/ \E n \in 1..starts : Callback(p, n)
        PROVE  FALSE
    BY <2>3, <2>4 DEF Resolve, FinishError, FinishTokens, FinishRefused, Done, TestConnection, ResolveHealth,
       PrepareRefresh, Dispatch, Save, RecordTest, Callback
  <2>5. ASSUME NEW p \in Callers, Crash(p) PROVE FALSE
    BY <2>5 DEF Crash, row
  <2>6. CASE Start \/ ExpireStaleAuthorizing \/ Disconnect \/ Cleanup
    BY <2>6 DEF Start, ExpireStaleAuthorizing, Disconnect, Cleanup
  <2>7. QED
    BY <2>2, <2>4, <2>5, <2>6 DEF Next
<1>2. QED
  BY <1>1, Invariant, PTL DEF Spec, NoLostReplacement

(* The status that Binding sees. *)
Seen == IF status = "active" THEN "active"
        ELSE IF status = "degraded" /\ intent.operation = "refresh" /\ OutcomeUnknown
                /\ intent.state = "dispatched" THEN "refreshing"
        ELSE "inactive"

(* The ways in which the connection changes for its users. *)

LEMMA SeenStutter ==
    ASSUME Seen' = Seen, UNCHANGED <<secret, generation, account>>
    PROVE  [B!BindingNext]_(B!connection)
  BY DEF Seen, B!connection

LEMMA SeenDeactivated ==
    ASSUME Seen' = "inactive", UNCHANGED <<secret, generation, account>>
    PROVE  [B!BindingNext]_(B!connection)
<1>1. CASE Seen = "inactive"
  BY <1>1, SeenStutter
<1>2. CASE Seen # "inactive"
  BY <1>2 DEF Seen, B!BindingNext, B!Deactivate
<1>3. QED
  BY <1>1, <1>2

LEMMA SeenRefreshing ==
    ASSUME Seen' = "refreshing", UNCHANGED <<secret, generation, account>>
    PROVE  [B!BindingNext]_(B!connection)
<1>1. CASE Seen = "refreshing"
  BY <1>1, SeenStutter
<1>2. CASE Seen # "refreshing"
  BY <1>2 DEF Seen, B!BindingNext, B!BeginRefresh
<1>3. QED
  BY <1>1, <1>2

LEMMA SeenRebound ==
    ASSUME IInv, NEW marker, ReplaceCredentials(marker), ~RefreshInFlight("active", marker), account' = account + 1
    PROVE  [B!BindingNext]_(B!connection)
<1>1. status' = "active" /\ secret' = secret + 1 /\ secret' \in 1..MaxSecret /\ generation' = generation + 1
  BY SecretUpdate DEF IInv
<1>2. secret < MaxSecret /\ generation < MaxSecret + 1
  BY <1>1, LifecycleAssumption DEF IInv, TypeOK, Bounded, Secrets
<1>3. QED
  BY <1>1, <1>2 DEF B!BindingNext, B!Rebind

(* Whatever interleaving of refreshes, authorizations, tests, disconnects  *)
(* and forms occurs, a generation names one account: every step is a step  *)
(* of Binding, or changes nothing that Binding sees.                       *)
THEOREM BindingIsImplemented == Spec => ImplementsBinding
<1>1. Init => B!BindingInit
  BY DEF Init, B!BindingInit
<1>2. IInv /\ [Next]_vars => [B!BindingNext]_(B!connection)
  <2> SUFFICES ASSUME IInv, [Next]_vars PROVE [B!BindingNext]_(B!connection)
    OBVIOUS
  <2>1. CASE UNCHANGED <<row, account, intent>>
    BY <2>1, SeenStutter DEF Seen, row, OutcomeUnknown
  <2>2. ASSUME NEW q \in Callers, NEW purpose, PrepareRefresh(q, purpose) PROVE [B!BindingNext]_(B!connection)
    <3>1. status' = "degraded" /\ UNCHANGED <<secret, generation, account>>
      BY <2>2, StatusUpdate DEF PrepareRefresh
    <3>2. Seen' = "refreshing"
      BY <2>2, <3>1 DEF PrepareRefresh, Seen, OutcomeUnknown
    <3>3. QED
      BY <3>1, <3>2, SeenRefreshing
  <2>3. ASSUME NEW q \in Callers, FinishError(q) PROVE [B!BindingNext]_(B!connection)
    <3>1. /\ UNCHANGED <<status, secret, generation, account>>
          /\ intent' = intent \/ intent' = [intent EXCEPT !.state = "unknown"]
      BY <2>3 DEF FinishError, row
    <3>2. intent' = intent \/ intent'.state = "unknown"
      BY <3>1 DEF IInv, TypeOK, Intent
    <3>3. Seen' = Seen \/ Seen' = "inactive"
      BY <3>1, <3>2 DEF Seen, OutcomeUnknown
    <3>4. QED
      BY <3>1, <3>3, SeenStutter, SeenDeactivated
  <2>4. ASSUME NEW q \in Callers, FinishTokens(q) PROVE [B!BindingNext]_(B!connection)
    <3>1. /\ call[q].at = "sent" /\ StillDispatched(q)
          /\ ReplaceCredentials(call[q].attempt) /\ account' = call[q].account
      BY <2>4 DEF FinishTokens
    <3>2. account' = IF call[q].attempt = q THEN account ELSE account + 1
      BY <3>1 DEF IInv, Dispatched, StillDispatched
    <3>3. call[q].attempt \in {q} \cup 1..starts
      BY <3>1 DEF IInv, Dispatched
    <3>4. CASE call[q].attempt = q
      <4>1. intent.operation = "refresh"
        BY <3>1, <3>4 DEF IInv, Intended, StillDispatched
      <4>2. RefreshInFlight("active", q)
        BY <3>1, <3>4, <4>1, LifecycleAssumption DEF StillDispatched, RefreshInFlight
      <4>3. Seen = "refreshing"
        BY <3>1, <4>1 DEF Seen, StillDispatched, OutcomeUnknown
      <4>4. /\ status' = "active" /\ secret' = secret + 1 /\ secret' \in 1..MaxSecret
            /\ generation' = generation /\ account' = account
        BY <3>1, <3>2, <3>4, <4>2, SecretUpdate DEF IInv
      <4>5. secret < MaxSecret
        BY <4>4, LifecycleAssumption DEF IInv, TypeOK, Secrets
      <4>6. QED
        BY <4>3, <4>4, <4>5 DEF Seen, B!BindingNext, B!FinishRefresh
    <3>5. CASE call[q].attempt # q
      <4>1. intent.attempt \notin Callers
        BY <3>1, <3>3, <3>5, LifecycleAssumption DEF StillDispatched, IInv, TypeOK
      <4>2. ~RefreshInFlight("active", call[q].attempt)
        BY <4>1 DEF IInv, Intended, RefreshInFlight
      <4>3. QED
        BY <3>1, <3>2, <3>5, <4>2, SeenRebound
    <3>6. QED
      BY <3>4, <3>5
  <2>5. ASSUME NEW q \in Callers, SaveValidated(q) PROVE [B!BindingNext]_(B!connection)
    BY <2>1, <2>5, SeenRebound DEF SaveValidated, RefreshInFlight, row
  <2>6. ASSUME NEW q \in Callers, NEW healthy \in BOOLEAN, RecordTest(q, healthy)
        PROVE  [B!BindingNext]_(B!connection)
    <3>1. UNCHANGED <<account, intent>>
      BY <2>6 DEF RecordTest
    <3>2. CASE UpdateStatus("degraded")
      <4>1. status' = "degraded" /\ UNCHANGED <<secret, generation>>
        BY <3>2, StatusUpdate
      <4>2. QED
        BY <3>1, <4>1, SeenRefreshing, SeenDeactivated DEF Seen
    <3>3. QED
      BY <2>1, <2>6, <3>1, <3>2 DEF RecordTest
  <2>7. ASSUME NEW st \in {"authorizing", "disconnected"}, UpdateStatus(st), UNCHANGED account
        PROVE  [B!BindingNext]_(B!connection)
    <3>1. status' = st /\ UNCHANGED <<secret, generation>>
      BY <2>7, StatusUpdate
    <3>2. QED
      BY <2>7, <3>1, SeenDeactivated DEF Seen
  <2>8. ASSUME NEW q \in Callers, NEW n \in 1..starts, Callback(q, n) PROVE [B!BindingNext]_(B!connection)
    <3>1. status' = "degraded" /\ UNCHANGED <<secret, generation, account>>
      BY <2>8, StatusUpdate DEF Callback
    <3>2. intent.operation = "authorization" /\ intent'.operation = intent.operation
      BY <2>8 DEF Callback, Bound, IInv, TypeOK, Intent
    <3>3. QED
      BY <3>1, <3>2, SeenDeactivated DEF Seen
  <2>9. CASE Start \/ ExpireStaleAuthorizing \/ Disconnect
    BY <2>7, <2>9 DEF Start, ExpireStaleAuthorizing, Disconnect
  <2>10. QED
    BY <2>1, <2>2, <2>3, <2>4, <2>5, <2>6, <2>8, <2>9 DEF Next, vars, Resolve, ResolveHealth, FinishRefused,
       TestConnection, Save, Crash, Cleanup
<1>3. QED
  BY <1>1, <1>2, Invariant, PTL DEF Spec, ImplementsBinding, B!BindingSpec

==============================================================================
