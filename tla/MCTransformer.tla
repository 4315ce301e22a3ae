---------------------------- MODULE MCTransformer ----------------------------
(***************************************************************************)
(* Small instances of Transformer.  Each .cfg picks one of the event sets. *)
(***************************************************************************)
EXTENDS Transformer, TLC

\* Labels: six spellings the mapping tables know, two of them of one label, and
\* one they do not.
MCLabel == {"Doing", "DOING", "QA", "QA Prod", "Done", "prio", "area", "bug"}
MCNormalize == [l \in MCLabel |->
    CASE l \in {"Doing", "DOING"} -> "doing" [] l = "QA" -> "qa" [] l = "QA Prod" -> "qa prod"
      [] l = "Done" -> "done" [] OTHER -> l]
MCStateMapping ==
    [k \in {"doing", "qa", "qa prod", "done"} |->
        CASE k = "doing" -> "IN_PROGRESS" [] k = "done" -> "DONE" [] OTHER -> "QA_REVIEW"]
MCMetadataMapping == [k \in {"prio", "area"} |-> k]

\* These are the caches of the following rows of the two tables.
Mapping(label, value) == [label |-> label, value |-> value]
ASSUME CachesAssumption ==
    /\ StateMapping =
         LoadFromDB(<<Mapping("DOING", "BLOCKED"), Mapping("Done", "DONE"),
                      Mapping("Doing", "IN_PROGRESS"), Mapping("QA", "QA_REVIEW"),
                      Mapping("QA Prod", "QA_REVIEW")>>)
    /\ MetadataMapping = LoadFromDB(<<Mapping("area", "area"), Mapping("prio", "prio")>>)

MCUser == {"ana", "bob"}
MCMention == [u \in MCUser |-> u]

\* Events, all other fields at their zero value.
ZeroEvent(id, i, at) ==
    [id |-> id, type |-> "other", issue |-> i, at |-> at, action |-> "add",
     label |-> None, system |-> FALSE, assigned |-> <<>>, unassigned |-> <<>>]
Add(id, i, at, l) == [ZeroEvent(id, i, at) EXCEPT !.type = "label_event", !.label = l]
Remove(id, i, at, l) == [Add(id, i, at, l) EXCEPT !.action = "remove"]
Comment(id, i, at) == [ZeroEvent(id, i, at) EXCEPT !.type = "note"]
Note(id, i, at, as, un) ==
    [Comment(id, i, at) EXCEPT !.system = TRUE, !.assigned = as, !.unassigned = un]

MCIssue == {"i1"}
MCProjectOf == [i \in MCIssue |-> "p1"]

\* A rework round, QA again within the threshold, and a return to development
\* after an unmapped label.
ReworkEvents ==
    {Add(1, "i1", 0, "QA"), Add(2, "i1", 20, "Doing"), Add(3, "i1", 25, "QA Prod"),
     Add(4, "i1", 50, "bug"), Add(5, "i1", 70, "Doing")}

\* The documents of an issue row: two assignments, two metadata labels
\* and a state.
DocumentEvents ==
    {Note(1, "i1", 10, <<"ana">>, <<>>), Note(2, "i1", 20, <<"bob", "ana">>, <<"ana">>),
     Add(3, "i1", 5, "prio"), Add(4, "i1", 6, "area"), Add(5, "i1", 7, "Doing")}

\* One period of assignment.
AssignedAndUnassigned == {Note(1, "i1", 10, <<"ana">>, <<>>), Note(2, "i1", 20, <<>>, <<"ana">>)}

\* Two projects; "p2" has no Silver row to begin with.
TwoIssues == {"i1", "i2"}
TwoProjects == [i \in TwoIssues |-> IF i = "i1" THEN "p1" ELSE "p2"]
TwoProjectEvents == {Add(1, "i1", 0, "Doing"), Comment(2, "i2", 1)}

\* Two projects again: transitions to a mapped state and to UNKNOWN, a removal, a
\* metadata label, and a comment in the project that Silver does not know at first.
MixedEvents ==
    {Add(1, "i1", 0, "QA"), Add(2, "i1", 10, "bug"), Remove(3, "i1", 21, "QA"),
     Add(4, "i1", 12, "prio"), Comment(5, "i2", 5)}

RunSymmetry == Permutations(Run)
=============================================================================
