----------------------------- MODULE MCIngestion -----------------------------
(* Small instances of Ingestion. *)
EXTENDS Ingestion, TLC

OneProject == [i \in Issue |-> "p1"]

\* Two groups that share the project.
SharedProject == [g \in Group |-> {"p1"}]

L(id, i) == [id |-> id, type |-> "label_event", issue |-> i]
N(id, i) == [id |-> id, type |-> "note", issue |-> i]

\* Two labels of one issue.
OneIssueEvents == {L(1, 1), L(2, 1)}

\* Two labels of one issue and a note of another.
TwoIssueEvents == {L(1, 1), L(2, 1), N(1, 2)}

CycleSymmetry == Permutations(Cycle)
=============================================================================
