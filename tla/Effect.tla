------------------------------- MODULE Effect -------------------------------
(***************************************************************************)
(* What the engine promises about one activity command: the life of its    *)
(* effect, without runs, hosts, capacity, retries counted or restarts.     *)
(*                                                                         *)
(* `maybe` holds the attempts that were handed out and that nobody has     *)
(* shown not to have run.  Only an effect that is safe to repeat goes back *)
(* to Ready while such an attempt exists.                                  *)
(***************************************************************************)
EXTENDS Naturals

CONSTANT Repeatable     \* the effect policy is Read or Idempotent

VARIABLES state, attempt, maybe

vars == <<state, attempt, maybe>>

Live == {"InFlight", "Invoking"}

Init ==
    /\ state = "Absent"
    /\ attempt = 0
    /\ maybe = {}

(* Move to another state, keeping the attempt and what may have run. *)
Move(from, to) ==
    /\ state \in from
    /\ state' = to
    /\ UNCHANGED <<attempt, maybe>>

create == Move({"Absent"}, "Ready")

(* The only step that may make the effect happen. *)
dispatch ==
    /\ state \in {"Absent", "Ready"}
    /\ state' = "InFlight"
    /\ attempt' = attempt + 1
    /\ maybe' = maybe \cup {attempt'}

invoke == Move({"InFlight"}, "Invoking")

settle == Move(Live \cup {"Uncertain"}, "Done")

doubt == Move(Live, "Uncertain")

repeat == Repeatable /\ (Move(Live, "Ready") \/ Move(Live, "Retrying"))

elapse == Move({"Retrying"}, "Ready")

(* The attempt is known not to have run: refused by the host, or looked    *)
(* into by an operator.                                                    *)
disprove ==
    /\ state \in Live \cup {"Uncertain"}
    /\ state' = "Ready"
    /\ maybe' = maybe \ {attempt}
    /\ UNCHANGED attempt

Next == create \/ dispatch \/ invoke \/ settle \/ doubt \/ repeat \/ elapse \/ disprove

Spec == Init /\ [][Next]_vars

============================================================================
