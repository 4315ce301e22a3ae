------------------------------ MODULE EdgeCases ------------------------------
(***************************************************************************)
(* The edge-case rules of the transformer (internal/transformer/           *)
(* edge_cases.go).  `last` is the row GetLastIssueEvent returned; the      *)
(* caller has already dealt with the case that there is none.              *)
(***************************************************************************)
EXTENDS Integers

CONSTANT NervousFingerThreshold   \* 15 minutes, in the model's time unit

ASSUME ThresholdAssumption == NervousFingerThreshold \in Nat

\* Mutated form: any re-entry into development is counted.
CalculateCycleCountAnyReentry(last, state) ==
    IF last.state # state /\ state = "IN_PROGRESS" THEN last.cycle + 1 ELSE last.cycle

\* A quick change of state is noise, unless it picks a task from the backlog.
\* An event older than `last` has a negative delta and is noise as well.
DetectNervousFinger(last, state, at) ==
    /\ last.state # state
    /\ last.state # "BACKLOG"
    /\ at - last.at < NervousFingerThreshold

\* One more rework cycle when an issue comes back from QA to development.
CalculateCycleCount(last, state) ==
    IF last.state = "QA_REVIEW" /\ state = "IN_PROGRESS"
      THEN last.cycle + 1 ELSE last.cycle
=============================================================================
