------------------------------ MODULE Assignees ------------------------------
(***************************************************************************)
(* The assignee history kept in issues.assignees (internal/transformer/    *)
(* assignees.go).  The JSON document is abstracted to the set of current   *)
(* assignees and, per name, the sequence of assignment periods: the code   *)
(* never relates the entries of two names.                                 *)
(***************************************************************************)
EXTENDS Integers, Sequences

CONSTANTS
    User,      \* GitLab user names
    Name,      \* what the patterns' \w+ captures of a user name, lower-cased
    Mention    \* User -> Name: "@ana.silva" is captured as "ana"

ASSUME MentionAssumption == Mention \in [User -> Name]

\* unassigned_at = nil.
StillAssigned == -1

Period == [assigned : Nat, unassigned : Nat \cup {StillAssigned}]

AssigneeHistory == [current : SUBSET Name, history : [Name -> Seq(Period)]]

EmptyHistory == [current |-> {}, history |-> [n \in Name |-> <<>>]]

\* The names parseAssigneeChangeFromSystemNote finds after one of the two
\* phrases of a note: the pattern captures the first user of a list only.
Captured(mentions) ==
    IF mentions = <<>> THEN {} ELSE {Mention[Head(mentions)]}

\* The open entries of one name.
OpenPeriods(periods) ==
    {i \in DOMAIN periods : periods[i].unassigned = StillAssigned}

\* Mutated form: a new entry is added although one is still open.
AssignedPeriodsAlways(periods, at) ==
    Append(periods, [assigned |-> at, unassigned |-> StillAssigned])

\* handleAssigned on the entries of the assigned name.
AssignedPeriods(periods, at) ==
    IF OpenPeriods(periods) # {} THEN periods
      ELSE Append(periods, [assigned |-> at, unassigned |-> StillAssigned])

\* handleUnassigned on the entries of the unassigned name: the first open
\* entry is closed.
UnassignedPeriods(periods, at) ==
    IF OpenPeriods(periods) = {} THEN periods
      ELSE LET first == CHOOSE i \in OpenPeriods(periods) :
                            \A j \in OpenPeriods(periods) : i <= j
           IN  [periods EXCEPT ![first].unassigned = at]

\* The loop over applyAssigneeChange: the names assigned by a note first,
\* then the names it unassigns, all at the note's own time.
ApplyAssigneeChanges(h, assigned, unassigned, at) ==
    [current |-> (h.current \cup assigned) \ unassigned,
     history |-> [n \in Name |->
        LET after == IF n \in assigned THEN AssignedPeriods(h.history[n], at)
                                       ELSE h.history[n]
        IN  IF n \in unassigned THEN UnassignedPeriods(after, at) ELSE after]]

\* A well-formed document: the current assignees are exactly the names with an
\* open entry, and no name has two open entries.
WellFormedHistory(h) ==
    \A n \in Name :
        /\ n \in h.current <=> OpenPeriods(h.history[n]) # {}
        /\ \A i, j \in OpenPeriods(h.history[n]) : i = j
=============================================================================
