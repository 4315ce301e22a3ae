------------------------------- MODULE MCGold -------------------------------
(* Small instances of Gold. *)
EXTENDS Gold, MCTransformer

\* "ana" works on an issue, hands it to "bob" and gets it back; the issue moves
\* on meanwhile, once too quickly to count.  She has a second issue of the same
\* project.  Two metadata labels.
HandOverEvents ==
    {Note(1, "i1", 1, <<"ana">>, <<>>), Note(2, "i1", 5, <<"bob", "ana">>, <<"ana">>),
     Note(3, "i1", 7, <<"ana">>, <<"bob">>), Add(4, "i1", 3, "Doing"), Add(5, "i1", 8, "QA"),
     Add(6, "i1", 9, "Doing"), Add(7, "i1", 10, "prio"), Add(8, "i1", 10, "area"),
     Note(9, "i2", 2, <<"ana">>, <<>>), Add(10, "i2", 4, "QA")}

OneProject == [i \in TwoIssues |-> "p1"]
=============================================================================
