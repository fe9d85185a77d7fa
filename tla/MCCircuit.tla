----------------------------- MODULE MCCircuit -----------------------------
(* Five executions are enough to open the breaker (Threshold = 2), to keep *)
(* one stale guard alive across the opening, and to send two probes.       *)
EXTENDS Circuit
============================================================================
