------------------------------ MODULE SilverLog ------------------------------
(***************************************************************************)
(* What issue_events promises its readers, with no batches, runs, crashes  *)
(* or snapshots: a log to which one state transition at a time is added,   *)
(* classified in the same step against the latest event the log holds.     *)
(***************************************************************************)
EXTENDS BronzeEvents

VARIABLE events   \* the rows of issue_events, in the order of their insertion

Init == events = <<>>

\* One transition is classified and recorded, at most once.
Record(e) ==
    /\ IsTransition(e)
    /\ ~IsRecorded(events, e)
    /\ \E last \in LastIssueEvents(events, e.issue) :
           events' = Append(events, SilverRow(e, last))

Next == \E e \in Event : Record(e)

Spec == Init /\ [][Next]_events
=============================================================================
