----------------------------- MODULE Lifecycle -----------------------------
(***************************************************************************)
(* The credentials of one connection (appcall-oauth, with the parts of     *)
(* appcall-setup, appcall-store and appcall-api that change the same       *)
(* rows): token refresh, authorization, the setup form, connection tests,  *)
(* disconnects and the cleanup of secrets.                                 *)
(*                                                                         *)
(* A transaction locks the connection's row before it looks at anything,   *)
(* so it is one step.  Calls to the provider lie between transactions;     *)
(* the caller may stop there, or be overtaken by others.  A resolution     *)
(* that finds a fresh token, and one that is refused, changes nothing and  *)
(* appears only as a part of a connection test.  Whether a token needs a   *)
(* refresh is up to the clock, and left open.                              *)
(*                                                                         *)
(* An attempt id is random; here it is the caller, who has one attempt in  *)
(* hand at a time, or the number of the authorization.                     *)
(***************************************************************************)
EXTENDS Integers

CONSTANTS
    Callers,        \* threads of the API and of the worker
    Modes,          \* setup.mode of the connector: "oauth2", "api_key"
    MaxSecret,      \* bound: credential envelopes
    MaxStarts,      \* bound: authorizations
    None

ASSUME LifecycleAssumption ==
    /\ Modes \subseteq {"oauth2", "api_key"}
    /\ MaxSecret \in Nat \ {0}
    /\ MaxStarts \in Nat
    /\ None \notin Callers \cup 1..MaxStarts
    /\ Callers \cap 1..MaxStarts = {}

VARIABLES
    mode,           \* the connector's setup.mode
    status,         \* connections.status
    secret,         \* connections.secret_ref_id; 0 is none
    generation,     \* connections.connection_generation
    account,        \* the provider account behind the credentials
    envelopes,      \* secret_envelopes with credentials
    pkce,           \* secret_envelopes with PKCE verifiers, by authorization
    intent,         \* oauth_refresh_intents
    starts,         \* number of authorizations started
    call,           \* in memory: what each caller is doing
    sends,          \* history: how often the refresh token of a secret was sent
    waived,         \* history: unresolved secrets that a new authorization took over
    overtaken       \* history: callers since whose dispatch the user decided anew

row == <<status, secret, generation>>
histories == <<sends, waived, overtaken>>
vars == <<mode, row, account, envelopes, pkce, intent, starts, call, histories>>

Secrets == 0..MaxSecret
States == {"authorizing", "dispatched", "unknown", "completed"}
Unresolved == {"authorizing", "dispatched", "unknown"}

Intent == [attempt : Callers \cup 1..MaxStarts \cup {None}, secret : Secrets,
           operation : {"refresh", "authorization"}, state : States,
           pkce : 0..MaxStarts]         \* pkce_secret_ref_id; 0 is NULL

Places == {"idle", "tested", "sent", "checked", "failed", "validating"}

(* pending: the secret that a call to the provider replaces; status,       *)
(* secret: the copy of the row that a test or the form compares in the end.*)
Call == [at : Places, purpose : {"use", "test"}, attempt : Callers \cup 1..MaxStarts \cup {None},
         pending : Secrets, status : {"active", "degraded", "authorizing", "disconnected"},
         secret : Secrets, account : Nat]

TypeOK ==
    /\ mode \in Modes
    /\ status \in {"active", "degraded", "authorizing", "disconnected"}
    /\ secret \in Secrets
    /\ generation \in Nat
    /\ account \in Nat
    /\ envelopes \subseteq 1..MaxSecret
    /\ pkce \subseteq 1..MaxStarts
    /\ intent \in Intent
    /\ starts \in 0..MaxStarts
    /\ call \in [Callers -> Call]
    /\ sends \in [1..MaxSecret -> Nat]
    /\ waived \subseteq 1..MaxSecret
    /\ overtaken \subseteq Callers

Idle == [at |-> "idle", purpose |-> "use", attempt |-> None, pending |-> 0,
         status |-> "disconnected", secret |-> 0, account |-> 0]

(* A test or a form that holds a copy of the row. *)
Holding(place, st, sec, acc) ==
    [at |-> place, purpose |-> "test", attempt |-> None, pending |-> 0,
     status |-> st, secret |-> sec, account |-> acc]

(* A connection of the setup form is created active; one of OAuth without  *)
(* credentials, or it has been authorized before.                          *)
Init ==
    /\ mode \in Modes
    /\ secret \in IF mode = "oauth2" THEN 0..1 ELSE {1}
    /\ status = IF secret = 0 THEN "disconnected" ELSE "active"
    /\ generation = 1
    /\ account = 1
    /\ envelopes = 1..secret
    /\ pkce = {}
    /\ intent = [attempt |-> None, secret |-> 0, operation |-> "authorization", state |-> "completed",
                 pkce |-> 0]
    /\ starts = 0
    /\ call = [q \in Callers |-> Idle]
    /\ sends = [s \in 1..MaxSecret |-> 0]
    /\ waived = {}
    /\ overtaken = {}

Go(q, c) == call' = [call EXCEPT ![q] = c]

(* q calls the provider: for tokens of this account, to replace the secret.*)
Dispatch(q, purpose, attempt, acc) ==
    Go(q, [at |-> "sent", purpose |-> purpose, attempt |-> attempt, pending |-> secret,
           status |-> call[q].status, secret |-> call[q].secret, account |-> acc])

Sent == {q \in Callers : call[q].at = "sent"}

----------------------------------------------------------------------------
(* UPDATE connections, with the trigger appcall_bump_connection_generation.*)
(* The marker is the attempt whose tokens replace the secret.              *)

(* Mutant: any attempt in flight counts, whatever its operation. *)
RefreshInFlight_any(st, marker) ==
    /\ status = "degraded" /\ st = "active"
    /\ marker # None
    /\ intent.state = "dispatched"
    /\ intent.secret = secret
    /\ intent.attempt = marker

RefreshInFlight(st, marker) ==
    /\ status = "degraded" /\ st = "active"
    /\ marker # None
    /\ intent.operation = "refresh"
    /\ intent.state = "dispatched"
    /\ intent.secret = secret
    /\ intent.attempt = marker

Bumped(st, sec, marker) ==
    /\ sec # secret \/ (st # status /\ st = "active")
    /\ ~RefreshInFlight(st, marker)

UpdateRow(st, sec, marker) ==
    /\ status' = st
    /\ secret' = sec
    /\ generation' = IF Bumped(st, sec, marker) THEN generation + 1 ELSE generation

UpdateStatus(st) == UpdateRow(st, secret, None)

(* store_secret and replace_credentials *)
ReplaceCredentials(marker) ==
    /\ secret < MaxSecret
    /\ envelopes' = envelopes \cup {secret + 1}
    /\ UpdateRow("active", secret + 1, marker)

----------------------------------------------------------------------------
(* Token refresh.                                                          *)

(* Mutant: an outcome known to be unknown is no obstacle. *)
OutcomeUnknown_dispatched == intent.secret = secret /\ intent.state = "dispatched"

(* An intent for the current secret whose outcome is open. *)
OutcomeUnknown == intent.secret = secret /\ intent.state \in {"dispatched", "unknown"}

(* prepare_refresh gets past its checks. *)
Resolvable(health) ==
    /\ ~OutcomeUnknown
    /\ status # "disconnected"
    /\ health \/ status = "active"

(* prepare_refresh of a token that needs a refresh, and the refresh call   *)
(* to the provider.                                                        *)
PrepareRefresh(q, purpose) ==
    /\ mode = "oauth2"
    /\ Resolvable(purpose = "test")
    /\ secret # 0
    /\ intent' = [attempt |-> q, secret |-> secret, operation |-> "refresh", state |-> "dispatched",
                  pkce |-> intent.pkce]
    /\ UpdateStatus("degraded")
    /\ Dispatch(q, purpose, q, account)
    /\ sends' = [sends EXCEPT ![secret] = @ + 1]
    /\ overtaken' = overtaken \ {q}
    /\ UNCHANGED <<mode, account, envelopes, pkce, starts, waived>>

(* resolve, for an action or a sync page. *)
Resolve(q) == call[q].at = "idle" /\ PrepareRefresh(q, "use")

(* What a caller does after finish: a test goes on, with the row as the    *)
(* resolution left it, or with its own copy if the resolution failed.      *)
Done(q, c) == Go(q, IF call[q].purpose = "test" THEN c ELSE Idle)

Unresolvable(q) == Holding("failed", call[q].status, call[q].secret, 0)

(* finish_fenced, of an error. *)
FinishError(q) ==
    /\ call[q].at = "sent"
    /\ intent' = IF intent.attempt = call[q].attempt /\ intent.state = "dispatched"
                 THEN [intent EXCEPT !.state = "unknown"] ELSE intent
    /\ Done(q, Unresolvable(q))
    /\ UNCHANGED <<mode, row, account, envelopes, pkce, starts, histories>>

(* Mutant: the status of the connection is not looked at. *)
StillDispatched_attempt(q) ==
    /\ intent.attempt = call[q].attempt
    /\ intent.secret = call[q].pending
    /\ intent.state = "dispatched"
    /\ secret = call[q].pending

(* The attempt of q is the one in hand, and the connection is as it was. *)
StillDispatched(q) ==
    /\ intent.attempt = call[q].attempt
    /\ intent.secret = call[q].pending
    /\ intent.state = "dispatched"
    /\ secret = call[q].pending
    /\ status = "degraded"

(* finish_fenced, of new tokens. *)
FinishTokens(q) ==
    /\ call[q].at = "sent"
    /\ StillDispatched(q)
    /\ ReplaceCredentials(call[q].attempt)
    /\ account' = call[q].account
    /\ intent' = [intent EXCEPT !.state = "completed", !.pkce = 0]
    /\ Done(q, Holding("checked", "active", secret + 1, 0))
    /\ UNCHANGED <<mode, pkce, starts, histories>>

(* ... which are lost. *)
FinishRefused(q) ==
    /\ call[q].at = "sent"
    /\ ~StillDispatched(q)
    /\ Done(q, Unresolvable(q))
    /\ UNCHANGED <<mode, row, account, envelopes, pkce, intent, starts, histories>>

----------------------------------------------------------------------------
(* Authorization.                                                          *)

(* start_checked *)
Start ==
    /\ mode = "oauth2"
    /\ starts < MaxStarts
    /\ starts' = starts + 1
    /\ pkce' = pkce \cup {starts + 1}
    /\ intent' = [attempt |-> starts + 1, secret |-> secret, operation |-> "authorization",
                  state |-> "authorizing", pkce |-> starts + 1]
    /\ UpdateStatus("authorizing")
    /\ waived' = IF OutcomeUnknown /\ secret # 0 THEN waived \cup {secret} ELSE waived
    /\ overtaken' = overtaken \cup Sent
    /\ UNCHANGED <<mode, account, envelopes, call, sends>>

(* The callback of authorization n is bound to the intent. *)
Bound(n) ==
    /\ status = "authorizing"
    /\ intent.state = "authorizing"
    /\ intent.operation = "authorization"
    /\ intent.attempt = n
    /\ intent.secret = secret

(* callback_checked: the account is the one the user authorizes. *)
Callback(q, n) ==
    /\ call[q].at = "idle"
    /\ Bound(n)
    /\ n \in pkce
    /\ intent' = [intent EXCEPT !.state = "dispatched"]
    /\ UpdateStatus("degraded")
    /\ Dispatch(q, "use", n, account + 1)
    /\ overtaken' = overtaken \ {q}
    /\ UNCHANGED <<mode, account, envelopes, pkce, starts, sends, waived>>

(* expire_stale_authorizing *)
ExpireStaleAuthorizing ==
    /\ status = "authorizing"
    /\ UpdateStatus("disconnected")
    /\ UNCHANGED <<mode, account, envelopes, pkce, intent, starts, call, histories>>

(* disconnect *)
Disconnect ==
    /\ status # "disconnected"
    /\ UpdateStatus("disconnected")
    /\ overtaken' = overtaken \cup Sent
    /\ UNCHANGED <<mode, account, envelopes, pkce, intent, starts, call, sends, waived>>

----------------------------------------------------------------------------
(* test_connection and the setup form.                                     *)

(* test_connection reads the row ... *)
TestConnection(q) ==
    /\ call[q].at = "idle"
    /\ status # "disconnected"
    /\ Go(q, Holding("tested", status, secret, 0))
    /\ UNCHANGED <<mode, row, account, envelopes, pkce, intent, starts, histories>>

(* ... and resolves its credentials: they are fresh, they are refused, or  *)
(* they are refreshed first.                                               *)
ResolveHealth(q) ==
    /\ call[q].at = "tested"
    /\ \/ PrepareRefresh(q, "test")
       \/ /\ \/ Resolvable(TRUE) /\ Go(q, Holding("checked", status, secret, 0))
             \/ Go(q, Unresolvable(q))
          /\ UNCHANGED <<mode, row, account, envelopes, pkce, intent, starts, histories>>

(* The result of the health check is recorded, if the row is as it was. *)
RecordTest(q, healthy) ==
    /\ call[q].at = "failed" \/ call[q].at = "checked"
    /\ healthy => call[q].at = "checked"
    /\ IF ~healthy /\ status = call[q].status /\ secret = call[q].secret
       THEN UpdateStatus("degraded")
       ELSE UNCHANGED row
    /\ Go(q, Idle)
    /\ UNCHANGED <<mode, account, envelopes, pkce, intent, starts, histories>>

(* save, of an existing connection: up to the provider's validation. *)
Save(q) ==
    /\ mode = "api_key"
    /\ call[q].at = "idle"
    /\ status # "authorizing"
    /\ Go(q, Holding("validating", status, secret, account))
    /\ UNCHANGED <<mode, row, account, envelopes, pkce, intent, starts, histories>>

(* Mutant: the row is not compared. *)
SaveValidated_unfenced(q) ==
    /\ call[q].at = "validating"
    /\ ReplaceCredentials(None)
    /\ account' = account + 1
    /\ Go(q, Idle)
    /\ UNCHANGED <<mode, pkce, intent, starts, histories>>

(* ... and after it. *)
SaveValidated(q) ==
    /\ call[q].at = "validating"
    /\ IF status = call[q].status /\ secret = call[q].secret
       THEN ReplaceCredentials(None) /\ account' = account + 1
       ELSE UNCHANGED <<row, envelopes, account>>
    /\ Go(q, Idle)
    /\ UNCHANGED <<mode, pkce, intent, starts, histories>>

----------------------------------------------------------------------------
(* cleanup_expired_secrets: an envelope that nothing refers to.            *)

(* Mutant: only the intents are looked at. *)
Referenced_intent(s) == intent.secret = s /\ intent.state \in Unresolved

Referenced(s) == s = secret \/ (intent.secret = s /\ intent.state \in Unresolved)

Cleanup ==
    /\ \/ \E s \in envelopes :
            /\ ~Referenced(s)
            /\ envelopes' = envelopes \ {s}
            /\ UNCHANGED pkce
       \/ \E n \in pkce :
            /\ intent.pkce # n
            /\ pkce' = pkce \ {n}
            /\ UNCHANGED envelopes
    /\ UNCHANGED <<mode, row, account, intent, starts, call, histories>>

(* The caller's process stops, or its request is dropped. *)
Crash(q) ==
    /\ call[q].at # "idle"
    /\ Go(q, Idle)
    /\ UNCHANGED <<mode, row, account, envelopes, pkce, intent, starts, histories>>

Next ==
    \/ \E q \in Callers :
        \/ Resolve(q) \/ FinishError(q) \/ FinishTokens(q) \/ FinishRefused(q)
        \/ TestConnection(q) \/ ResolveHealth(q) \/ RecordTest(q, TRUE) \/ RecordTest(q, FALSE)
        \/ Save(q) \/ SaveValidated(q)
        \/ Crash(q)
        \/ \E n \in 1..starts : Callback(q, n)
    \/ Start \/ ExpireStaleAuthorizing \/ Disconnect \/ Cleanup

Spec == Init /\ [][Next]_vars

(***************************************************************************)
(* Properties.                                                             *)
(***************************************************************************)

(* What the connection needs is never cleaned up: its credentials, and the *)
(* verifier of an authorization whose callback can still succeed, although *)
(* cleanup_expired_secrets runs beside refreshes and authorizations that   *)
(* replace them.                                                           *)
CredentialsKept ==
    /\ secret # 0 => secret \in envelopes
    /\ \A n \in 1..MaxStarts : Bound(n) => n \in pkce

(* A refresh token whose use has begun is not sent again by prepare_       *)
(* refresh, however the first use ended (a crash, an error, tokens that    *)
(* came too late), with one exception: by a connection test, when an       *)
(* authorization was begun after that use and is not completed.            *)
RotationFenced ==
    [][\A s \in 1..MaxSecret :
        sends[s] > 0 /\ sends'[s] # sends[s] =>
            s \in waived /\ \E q \in Callers : call[q].at = "tested" /\ call'[q].at = "sent"]_vars

(* Tokens that arrive after the user has disconnected the connection, or   *)
(* has begun a new authorization, neither activate it nor replace its      *)
(* credentials (finish_fenced).                                            *)
NoLateRevival ==
    [][\A q \in overtaken : call[q].at = "sent" /\ call'[q] # call[q] => UNCHANGED row]_vars

(* The setup form does not overwrite credentials that were replaced while  *)
(* its own were being validated (save).                                    *)
NoLostReplacement ==
    [][\A q \in Callers :
        call[q].at = "validating" /\ call'[q] # call[q] /\ secret' # secret => call[q].account = account]_vars

(* The lifecycle implements Binding: a generation names one account.       *)
B == INSTANCE Binding WITH
        MaxGeneration <- MaxSecret + 1,
        status <- IF status = "active" THEN "active"
                  ELSE IF status = "degraded" /\ intent.operation = "refresh" /\ OutcomeUnknown
                          /\ intent.state = "dispatched" THEN "refreshing"
                  ELSE "inactive"

(* Whatever interleaving of refreshes, authorizations, tests, disconnects  *)
(* and forms occurs, the row of the connection changes as Binding says:    *)
(* the secret and the account change together with the generation, except  *)
(* for a refresh, which keeps the account and the generation (the trigger  *)
(* appcall_bump_connection_generation).                                    *)
ImplementsBinding == B!BindingSpec

(* The test health_mode_allows_degraded_credentials_but_never_retries_     *)
(* unknown_rotation says that a rotation of unknown outcome is never       *)
(* retried.                                                                *)
NeverRetriesUnknownRotation == \A s \in 1..MaxSecret : sends[s] <= 1

============================================================================
