---------------------------- MODULE BronzeEvents ----------------------------
(***************************************************************************)
(* The GitLab events the extractor writes to raw_events, what the          *)
(* transformer makes of one of them, and the Silver row it becomes.        *)
(***************************************************************************)
EXTENDS Mapper, EdgeCases, Assignees

CONSTANTS
    Project,      \* GitLab projects
    Issue,        \* issues, over all projects
    ProjectOf,    \* Issue -> Project
    Event         \* the label events and notes GitLab has for these issues

EventType == {"label_event", "note", "other"}

\* The payload fields the transformer reads.  `assigned` and `unassigned` list
\* the users a system note names after "assigned to" and "unassigned".
EventRecord ==
    [id : Nat, type : EventType, issue : Issue, at : Nat,
     action : {"add", "remove"}, label : Label \cup {None},
     system : BOOLEAN, assigned : Seq(User), unassigned : Seq(User)]

ASSUME EventAssumption ==
    /\ ProjectOf \in [Issue -> Project]
    /\ Event \subseteq EventRecord

\* determineCanonicalState: None for a metadata label or a label that is gone;
\* the label taken off tells nothing about the state that follows.
DetermineCanonicalState(e) ==
    CASE e.label = None -> None
      [] e.label # None /\ MapLabel(e.label).type = "metadata" -> None
      [] e.label # None /\ MapLabel(e.label).type = "state" /\ e.action = "add" ->
             MapLabel(e.label).state
      [] OTHER -> "UNKNOWN"

\* The four effects transformEvent can have; an event with none of them (a
\* removal, a system note about something else, an unknown type) is skipped.
IsMetadata(e) ==
    /\ e.type = "label_event" /\ e.action = "add"
    /\ DetermineCanonicalState(e) = None /\ MetadataKey(e.label) # None

IsTransition(e) ==
    /\ e.type = "label_event" /\ e.action = "add"
    /\ DetermineCanonicalState(e) # None

IsAssignment(e) ==
    /\ e.type = "note" /\ e.system
    /\ Captured(e.assigned) \cup Captured(e.unassigned) # {}

IsComment(e) == e.type = "note" /\ ~e.system

HasEffect(e) == IsMetadata(e) \/ IsTransition(e) \/ IsAssignment(e) \/ IsComment(e)

\* The transitions whose label no mapping row knows.
IsUnmapped(e) == IsTransition(e) /\ MapLabel(e.label).type = "unknown"

-----------------------------------------------------------------------------
\* A row of issue_events, and the zero row GetLastIssueEvent leaves.
SilverEvent ==
    [id : Nat, issue : Issue, state : CanonicalState, at : Nat,
     noise : BOOLEAN, cycle : Nat]

NoEvent == [id |-> 0, state |-> None, at |-> 0, noise |-> FALSE, cycle |-> 0]

\* The row inserted for e when `last` is the row read before it.
SilverRow(e, last) ==
    LET state == DetermineCanonicalState(e)
    IN  [id |-> e.id, issue |-> e.issue, state |-> state, at |-> e.at,
         noise |-> last # NoEvent /\ DetectNervousFinger(last, state, e.at),
         cycle |-> IF last = NoEvent THEN 0 ELSE CalculateCycleCount(last, state)]

\* What GetLastIssueEvent can return for issue i: a latest event that is not
\* noise (any one of them when timestamps tie), or no row.
LastIssueEvents(log, i) ==
    LET rows == {k \in DOMAIN log : log[k].issue = i /\ ~log[k].noise}
    IN  IF rows = {} THEN {NoEvent}
        ELSE {log[k] : k \in {k \in rows : \A j \in rows : log[j].at <= log[k].at}}

\* The unique key (gitlab_event_id, project_id) of issue_events.
SameKey(s, e) == s.id = e.id /\ ProjectOf[s.issue] = ProjectOf[e.issue]

IsRecorded(log, e) == \E k \in DOMAIN log : SameKey(log[k], e)

\* Mutated forms: no unique key; ON CONFLICT DO UPDATE.
InsertIssueEventNoKey(log, e, s) == Append(log, s)

InsertIssueEventUpdate(log, e, s) ==
    IF IsRecorded(log, e)
      THEN [k \in DOMAIN log |-> IF SameKey(log[k], e) THEN s ELSE log[k]]
      ELSE Append(log, s)

\* InsertIssueEvent: ON CONFLICT DO NOTHING, and then no row is returned.
InsertIssueEvent(log, e, s) == IF IsRecorded(log, e) THEN log ELSE Append(log, s)
=============================================================================
