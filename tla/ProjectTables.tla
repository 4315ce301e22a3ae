---------------------------- MODULE ProjectTables ----------------------------
(***************************************************************************)
(* The two tables that discovery and extraction share: raw_projects        *)
(* (Bronze), whose cursor a cycle starts from, and projects (Silver), which *)
(* the foreign keys of issues refer to.  One operator per SQL statement.   *)
(***************************************************************************)
EXTENDS Integers, FiniteSets

CONSTANTS
    Project,         \* GitLab projects
    MaxTime,         \* bound on the clock
    MaxSetbacks      \* bound on failed steps and killed runs

ASSUME TablesAssumption == MaxTime \in Nat /\ MaxSetbacks \in Nat

VARIABLES
    rawProjects,     \* the rows of raw_projects
    rawCursor,       \* raw_projects.last_synced_at; 0 is the epoch
    projects,        \* the rows of projects
    silverCursor,    \* projects.last_synced_at
    setbacks         \* how many requests, statements and runs have failed

projectTables == <<rawProjects, rawCursor, projects, silverCursor>>

Time == 0 .. MaxTime

TablesTypeOK ==
    /\ rawProjects \subseteq Project
    /\ rawCursor \in [Project -> Time]
    /\ projects \subseteq Project
    /\ silverCursor \in [Project -> Time]
    /\ setbacks \in 0 .. MaxSetbacks

TablesInit ==
    /\ rawProjects = {}
    /\ rawCursor = [p \in Project |-> 0]
    /\ projects = {}
    /\ silverCursor = [p \in Project |-> 0]
    /\ setbacks = 0

\* One more request or statement fails, or one more run is killed.
Setback == setbacks < MaxSetbacks /\ setbacks' = setbacks + 1

\* UpsertRawProject: a new row starts at the epoch, an old one keeps its cursor.
UpsertRawProject(p) ==
    /\ rawProjects' = rawProjects \cup {p}
    /\ UNCHANGED <<rawCursor, projects, silverCursor>>

\* Mutated form: the cursor is overwritten, without GREATEST.
UpsertProjectPlain(p, t) ==
    /\ projects' = projects \cup {p}
    /\ silverCursor' = [silverCursor EXCEPT ![p] = t]
    /\ UNCHANGED <<rawProjects, rawCursor>>

\* UpsertProject: GREATEST keeps a cursor that has moved on.
UpsertProject(p, t) ==
    /\ projects' = projects \cup {p}
    /\ silverCursor' = [silverCursor EXCEPT
                            ![p] = IF p \in projects /\ t < @ THEN @ ELSE t]
    /\ UNCHANGED <<rawProjects, rawCursor>>

\* SyncProjectLastSynced: both cursors, or neither when a row is missing.
SyncProjectLastSynced(p, t) ==
    /\ IF p \in rawProjects \cap projects
         THEN /\ rawCursor' = [rawCursor EXCEPT ![p] = t]
              /\ silverCursor' = [silverCursor EXCEPT ![p] = t]
         ELSE UNCHANGED <<rawCursor, silverCursor>>
    /\ UNCHANGED <<rawProjects, projects>>
=============================================================================
