------------------------------ MODULE Circuit ------------------------------
(***************************************************************************)
(* The per-connection circuit breaker of appcall-actions (circuit.rs).     *)
(* An action that is admitted carries an Admission guard; when the guard   *)
(* is resolved with the provider's verdict, or merely dropped because the  *)
(* request future was cancelled, it reports back to the breaker.  Any      *)
(* number of admissions are in flight at once and report in any order.     *)
(*                                                                         *)
(* Breaker states of different keys never interact (each is one entry of   *)
(* a map under one mutex), so the module models one key.  Instants are     *)
(* abstracted to whether the cooldown has elapsed: openUntil is None, or   *)
(* an instant in the future ("cooling") or in the past ("elapsed").        *)
(***************************************************************************)
EXTENDS Integers, FiniteSets

CONSTANTS
    Calls,          \* every action execution ever started; each asks once
    Threshold,      \* consecutive transient failures that open the breaker
    None

ASSUME ThresholdAssumption == Threshold \in Nat \ {0}

VARIABLES
    state,          \* the State struct of the key
    admissions,     \* Calls -> the live Admission guard, or None
    waiting         \* calls that have not asked for admission yet

vars == <<state, admissions, waiting>>

Instants == {"cooling", "elapsed"}

(* Admission.probe is TRUE for the kind "probe"; State.probe for "out".    *)
Kinds == {"ordinary", "probe"}

ProbeSlot == {"free", "out"}

Admission == [generation : Nat, kind : Kinds]

ASSUME NoneAssumption == None \notin Instants \cup Admission

TypeOK ==
    /\ state \in [generation : Nat, failures : Nat,
                  openUntil : Instants \cup {None}, probe : ProbeSlot]
    /\ admissions \in [Calls -> Admission \cup {None}]
    /\ waiting \subseteq Calls

Init ==
    /\ state = [generation |-> 0, failures |-> 0, openUntil |-> None, probe |-> "free"]
    /\ admissions = [c \in Calls |-> None]
    /\ waiting = Calls

----------------------------------------------------------------------------
(* Circuit::admit: refused while a probe is out or the cooldown runs;      *)
(* the first admission after the cooldown becomes the probe.               *)
Admissible == state.probe = "free" /\ state.openUntil # "cooling"

KindNow == IF state.openUntil = None THEN "ordinary" ELSE "probe"

admit_unflagged(c) ==
    /\ c \in waiting
    /\ Admissible
    /\ waiting' = waiting \ {c}
    /\ admissions' = [admissions EXCEPT ![c] =
           [generation |-> state.generation, kind |-> KindNow]]
    /\ UNCHANGED state

admit(c) ==
    /\ c \in waiting
    /\ Admissible
    /\ waiting' = waiting \ {c}
    /\ admissions' = [admissions EXCEPT ![c] =
           [generation |-> state.generation, kind |-> KindNow]]
    /\ state' = [state EXCEPT !.probe = IF KindNow = "probe" THEN "out" ELSE "free"]

(* A refused call leaves with CIRCUIT_OPEN. *)
refuse(c) ==
    /\ c \in waiting
    /\ ~Admissible
    /\ waiting' = waiting \ {c}
    /\ UNCHANGED <<state, admissions>>

(* The effect of Admission::resolve on the breaker, for an admission that  *)
(* still belongs to the breaker's generation.                              *)
Failed_same_generation(s) ==
    LET failures == s.failures + 1
    IN  [generation |-> s.generation, failures |-> failures,
         openUntil |-> IF failures >= Threshold THEN "cooling" ELSE s.openUntil,
         probe |-> "free"]

Failed_late(s) ==
    LET failures == s.failures + 1
    IN  IF failures > Threshold
        THEN [generation |-> s.generation + 1, failures |-> failures,
              openUntil |-> "cooling", probe |-> "free"]
        ELSE [s EXCEPT !.probe = "free", !.failures = failures]

Failed(s) ==
    LET failures == s.failures + 1
    IN  IF failures >= Threshold
        THEN [generation |-> s.generation + 1, failures |-> failures,
              openUntil |-> "cooling", probe |-> "free"]
        ELSE [generation |-> s.generation, failures |-> failures,
              openUntil |-> s.openUntil, probe |-> "free"]

Succeeded(s) ==
    [generation |-> s.generation + 1, failures |-> 0, openUntil |-> None, probe |-> "free"]

Verdict(s, transient_failure) == IF transient_failure THEN Failed(s) ELSE Succeeded(s)

resolve_unfenced(c, transient_failure) ==
    /\ admissions[c] # None
    /\ state' = Verdict(state, transient_failure)
    /\ admissions' = [admissions EXCEPT ![c] = None]
    /\ UNCHANGED waiting

resolve(c, transient_failure) ==
    /\ admissions[c] # None
    /\ state' = IF state.generation = admissions[c].generation
                THEN Verdict(state, transient_failure) ELSE state
    /\ admissions' = [admissions EXCEPT ![c] = None]
    /\ UNCHANGED waiting

(* Drop of an unresolved Admission: only a probe of this generation gives  *)
(* the probe slot back.                                                    *)
drop_silently(c) ==
    /\ admissions[c] # None
    /\ admissions' = [admissions EXCEPT ![c] = None]
    /\ UNCHANGED <<state, waiting>>

drop(c) ==
    /\ admissions[c] # None
    /\ state' = IF admissions[c].kind = "probe" /\ state.generation = admissions[c].generation
                THEN [state EXCEPT !.probe = "free"] ELSE state
    /\ admissions' = [admissions EXCEPT ![c] = None]
    /\ UNCHANGED waiting

(* Time passes the open_until instant. *)
CooldownElapses ==
    /\ state.openUntil = "cooling"
    /\ state' = [state EXCEPT !.openUntil = "elapsed"]
    /\ UNCHANGED <<admissions, waiting>>

Next ==
    \/ \E c \in Calls :
          \/ admit(c) \/ refuse(c) \/ drop(c)
          \/ \E f \in BOOLEAN : resolve(c, f)
    \/ CooldownElapses

(* Every admitted execution ends: the runner answers, or the deadline      *)
(* drops the request future and with it the guard.                         *)
Finish(c) == drop(c) \/ \E f \in BOOLEAN : resolve(c, f)

Fairness == \A c \in Calls : WF_vars(Finish(c))

Spec == Init /\ [][Next]_vars

FairSpec == Spec /\ Fairness

----------------------------------------------------------------------------
CurrentProbes ==
    {c \in Calls : /\ admissions[c] # None
                   /\ admissions[c].kind = "probe"
                   /\ admissions[c].generation = state.generation}

(* The probe flag is set exactly while one admission holds the probe: the  *)
(* flag is never lost to a stale guard (which would let a second probe     *)
(* through) and never left behind by a guard that is gone (which would     *)
(* refuse the connection for ever).                                        *)
ProbeExclusive ==
    /\ state.probe = "out" <=> CurrentProbes # {}
    /\ \A c, d \in CurrentProbes : c = d

(* While the breaker is open no ordinary admission of its generation is    *)
(* out, so nothing admitted before it opened can still change it.          *)
OpenAdmitsOnlyProbes ==
    state.openUntil # None =>
        \A c \in Calls : (/\ admissions[c] # None
                          /\ admissions[c].generation = state.generation)
                             => admissions[c].kind = "probe"

(* No guard is from the future, and the probe flag is only ever set once   *)
(* the cooldown has run out.                                               *)
GuardsAndProbeTiming ==
    /\ \A c \in Calls : admissions[c] # None => admissions[c].generation <= state.generation
    /\ state.probe = "out" => state.openUntil = "elapsed"

(* The breaker is open exactly when the run of consecutive transient       *)
(* failures has reached the threshold.                                     *)
OpenAtThreshold == state.openUntil # None <=> state.failures >= Threshold

(* An open breaker closes only in the step in which the guard holding the  *)
(* probe reports; a late answer to an older call never closes it.          *)
ClosesByProbe ==
    [][(state.openUntil # None /\ state'.openUntil = None) =>
          \E c \in CurrentProbes : admissions'[c] = None]_vars

(* A probe does not occupy the breaker for ever, however its execution     *)
(* ends (answered, failed or cancelled).                                   *)
ProbeReturned == state.probe = "out" ~> state.probe = "free"
============================================================================
