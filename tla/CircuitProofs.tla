--------------------------- MODULE CircuitProofs ---------------------------
(* Proofs about module Circuit, for any set of calls and any threshold.    *)
EXTENDS Circuit, TLAPS

(* The inductive invariant.  ProbeExclusive alone is not inductive: that a *)
(* closed-breaker guard cannot release the probe needs OpenAdmitsOnlyProbes,*)
(* and that needs guards never to be ahead of the breaker's generation.    *)
IInv ==
    /\ TypeOK
    /\ ProbeExclusive
    /\ OpenAdmitsOnlyProbes
    /\ OpenAtThreshold
    /\ GuardsAndProbeTiming

(* The breaker starts closed, with no guard out: the invariant holds.      *)
LEMMA InitIInv == Init => IInv
  BY NoneAssumption, ThresholdAssumption
     DEF Init, IInv, TypeOK, ProbeExclusive, CurrentProbes, OpenAdmitsOnlyProbes,
         OpenAtThreshold, GuardsAndProbeTiming, Instants, ProbeSlot

(* Every step of admit, resolve, drop and the clock preserves the          *)
(* invariant.                                                              *)
LEMMA NextIInv == IInv /\ [Next]_vars => IInv'
<1> SUFFICES ASSUME IInv, [Next]_vars PROVE IInv'
  OBVIOUS
<1> USE NoneAssumption, ThresholdAssumption
        DEF IInv, TypeOK, ProbeExclusive, CurrentProbes, OpenAdmitsOnlyProbes,
            OpenAtThreshold, GuardsAndProbeTiming, Instants, Admission, Kinds, ProbeSlot
<1>1. ASSUME NEW c \in Calls, admit(c) PROVE IInv'
  BY <1>1 DEF admit, Admissible, KindNow
<1>2. ASSUME NEW c \in Calls, refuse(c) PROVE IInv'
  BY <1>2 DEF refuse
<1>3. ASSUME NEW c \in Calls, NEW f \in BOOLEAN, resolve(c, f) PROVE IInv'
  <2>1. CASE state.generation # admissions[c].generation
    BY <1>3, <2>1 DEF resolve
  <2>2. CASE state.generation = admissions[c].generation /\ f
    <3>1. CASE state.failures + 1 >= Threshold
      BY <1>3, <2>2, <3>1 DEF resolve, Verdict, Failed
    <3>2. CASE ~(state.failures + 1 >= Threshold)
      <4>1. state.openUntil = None /\ state.probe = "free"
        BY <3>2
      <4>2. state' = [generation |-> state.generation, failures |-> state.failures + 1,
                      openUntil |-> state.openUntil, probe |-> "free"]
        BY <1>3, <2>2, <3>2 DEF resolve, Verdict, Failed
      <4>3. admissions' = [admissions EXCEPT ![c] = None] /\ waiting' = waiting
        BY <1>3 DEF resolve
      <4>4. TypeOK'
        BY <4>2, <4>3
      <4>5. ProbeExclusive' /\ OpenAdmitsOnlyProbes'
        BY <4>1, <4>2, <4>3
      <4>6. OpenAtThreshold' /\ GuardsAndProbeTiming'
        BY <3>2, <4>1, <4>2, <4>3
      <4>7. QED
        BY <4>4, <4>5, <4>6
    <3>3. QED
      BY <3>1, <3>2
  <2>3. CASE state.generation = admissions[c].generation /\ ~f
    BY <1>3, <2>3 DEF resolve, Verdict, Succeeded
  <2>4. QED
    BY <2>1, <2>2, <2>3
<1>4. ASSUME NEW c \in Calls, drop(c) PROVE IInv'
  BY <1>4 DEF drop
<1>5. CASE CooldownElapses
  BY <1>5 DEF CooldownElapses
<1>6. CASE UNCHANGED vars
  BY <1>6 DEF vars
<1>7. QED
  BY <1>1, <1>2, <1>3, <1>4, <1>5, <1>6 DEF Next

(* In every reachable state the probe flag is set exactly while one guard  *)
(* of the breaker's generation holds the probe.                            *)
THEOREM ProbeIsExclusive == Spec => []ProbeExclusive
<1>1. IInv => ProbeExclusive
  BY DEF IInv
<1>2. QED
  BY InitIInv, NextIInv, <1>1, PTL DEF Spec

(* The breaker's entry, its guards and its callers keep their types.       *)
THEOREM TypeCorrect == Spec => []TypeOK
<1>1. IInv => TypeOK
  BY DEF IInv
<1>2. QED
  BY InitIInv, NextIInv, <1>1, PTL DEF Spec

(* Whenever the breaker is open, every guard of its generation is a probe: *)
(* what was admitted before it opened can no longer change it.             *)
THEOREM OpenBreakerAdmitsProbes == Spec => []OpenAdmitsOnlyProbes
<1>1. IInv => OpenAdmitsOnlyProbes
  BY DEF IInv
<1>2. QED
  BY InitIInv, NextIInv, <1>1, PTL DEF Spec

(* The breaker is open exactly when threshold transient failures came in a *)
(* row, however the reports of concurrent calls are ordered.               *)
THEOREM OpensAtThreshold == Spec => []OpenAtThreshold
<1>1. IInv => OpenAtThreshold
  BY DEF IInv
<1>2. QED
  BY InitIInv, NextIInv, <1>1, PTL DEF Spec

(* An open breaker closes only by the report of the guard that holds its   *)
(* probe.                                                                  *)
THEOREM OnlyTheProbeCloses == Spec => ClosesByProbe
<1>1. IInv /\ [Next]_vars =>
        ((state.openUntil # None /\ state'.openUntil = None) =>
            \E c \in CurrentProbes : admissions'[c] = None)
  <2> SUFFICES ASSUME IInv, [Next]_vars, state.openUntil # None, state'.openUntil = None
               PROVE  \E c \in CurrentProbes : admissions'[c] = None
    OBVIOUS
  <2> USE NoneAssumption DEF IInv, TypeOK, Instants
  <2>1. PICK c \in Calls, f \in BOOLEAN : resolve(c, f)
    BY DEF Next, vars, admit, refuse, drop, CooldownElapses, resolve
  <2>2. c \in CurrentProbes
    BY <2>1 DEF resolve, OpenAdmitsOnlyProbes, CurrentProbes
  <2>3. QED
    BY <2>1, <2>2 DEF resolve
<1>2. QED
  BY InitIInv, NextIInv, <1>1, PTL DEF Spec, ClosesByProbe
============================================================================
