------------------------------ MODULE Binding ------------------------------
(***************************************************************************)
(* What the rest of the system may rely on about a connection, whatever    *)
(* its lifecycle does (Lifecycle shows that it implements this):           *)
(*                                                                         *)
(*   - a token refresh replaces the secret, and neither the provider       *)
(*     account behind the connection nor its generation;                   *)
(*   - anything else that makes other credentials current starts a new     *)
(*     generation.                                                         *)
(*                                                                         *)
(* So a generation names one provider account.                             *)
(***************************************************************************)
EXTENDS Integers

CONSTANTS
    MaxGeneration,  \* bound: generations of the connection
    MaxSecret       \* bound: secrets of the connection

VARIABLES
    status,         \* connections.status
    secret,         \* connections.secret_ref_id
    generation,     \* connections.connection_generation
    account         \* the provider account behind the credentials

connection == <<status, secret, generation, account>>

Statuses == {"active", "refreshing", "inactive"}

BindingInit ==
    /\ secret \in 0..1
    /\ status = IF secret = 0 THEN "inactive" ELSE "active"
    /\ generation = 1
    /\ account = 1

BeginRefresh ==
    /\ status # "refreshing"
    /\ status' = "refreshing"
    /\ UNCHANGED <<secret, generation, account>>

FinishRefresh ==
    /\ status = "refreshing" /\ secret < MaxSecret
    /\ status' = "active"
    /\ secret' = secret + 1
    /\ UNCHANGED <<generation, account>>

(* A disconnect, a failed test, an authorization that begins, a refresh    *)
(* whose outcome is not known.                                             *)
Deactivate ==
    /\ status # "inactive"
    /\ status' = "inactive"
    /\ UNCHANGED <<secret, generation, account>>

(* Mutant: the generation stays. *)
Rebind_unmarked ==
    /\ account < MaxGeneration /\ secret < MaxSecret
    /\ status' = "active"
    /\ secret' = secret + 1
    /\ account' = account + 1
    /\ UNCHANGED generation

(* Credentials of an authorization or of the setup form. *)
Rebind ==
    /\ generation < MaxGeneration /\ secret < MaxSecret
    /\ status' = "active"
    /\ secret' = secret + 1
    /\ generation' = generation + 1
    /\ account' = account + 1

BindingNext == BeginRefresh \/ FinishRefresh \/ Deactivate \/ Rebind

BindingSpec == BindingInit /\ [][BindingNext]_connection

============================================================================
