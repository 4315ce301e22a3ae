------------------------------ MODULE Discovery ------------------------------
(***************************************************************************)
(* Project discovery (internal/discovery/service.go).  A pass is one call  *)
(* of Run: cron starts one every few hours, the worker one at start-up and *)
(* cmd/backfill another, so that passes overlap.  Each GitLab listing and  *)
(* each SQL statement is one step.                                         *)
(***************************************************************************)
EXTENDS ProjectTables

CONSTANTS
    Group,           \* the configured groups, GITLAB_GROUP_IDS
    ProjectsOf,      \* Group -> the projects GitLab lists for it
    Pass             \* the calls of Run that may be active at once

ASSUME DiscoveryAssumption == ProjectsOf \in [Group -> SUBSET Project]

VARIABLES
    at,              \* per pass: the listing or statement it is about to make
    groups,          \* per pass: the groups still to be listed
    found,           \* per pass: the projects still to be persisted
    current,         \* per pass: the project being persisted, as a set
    silverSeen       \* per pass: silverLastSyncedAt

discoveryVars == <<at, groups, found, current, silverSeen>>

DiscoveryTypeOK ==
    /\ at \in [Pass -> {"idle", "list", "get", "raw", "silver"}]
    /\ groups \in [Pass -> SUBSET Group]
    /\ found \in [Pass -> SUBSET Project]
    /\ current \in [Pass -> SUBSET Project]
    /\ silverSeen \in [Pass -> Time]

DiscoveryInit ==
    /\ at = [d \in Pass |-> "idle"]
    /\ groups = [d \in Pass |-> {}]
    /\ found = [d \in Pass |-> {}]
    /\ current = [d \in Pass |-> {}]
    /\ silverSeen = [d \in Pass |-> 0]

\* Run returned, or its process ended.
EndPass(d) ==
    /\ at' = [at EXCEPT ![d] = "idle"]
    /\ groups' = [groups EXCEPT ![d] = {}]
    /\ found' = [found EXCEPT ![d] = {}]
    /\ current' = [current EXCEPT ![d] = {}]
    /\ silverSeen' = [silverSeen EXCEPT ![d] = 0]

\* The loop over the projects in S that are still to be persisted.
NextProject(d, S) ==
    /\ at' = [at EXCEPT ![d] = IF S = {} THEN "idle" ELSE "get"]
    /\ found' = [found EXCEPT ![d] = S]
    /\ current' = [current EXCEPT ![d] = {}]
    /\ silverSeen' = [silverSeen EXCEPT ![d] = 0]
    /\ UNCHANGED groups

StartPass(d) ==
    /\ at[d] = "idle" /\ Group # {}
    /\ at' = [at EXCEPT ![d] = "list"]
    /\ groups' = [groups EXCEPT ![d] = Group]
    /\ UNCHANGED <<projectTables, found, current, silverSeen, setbacks>>

\* fetchAllGroupProjects: a project of two groups is found once, and a group
\* that cannot be listed ends the whole pass.
ListGroup(d) ==
    /\ at[d] = "list"
    /\ \E g \in groups[d] :
        \/ /\ groups' = [groups EXCEPT ![d] = @ \ {g}]
           /\ found' = [found EXCEPT ![d] = @ \cup ProjectsOf[g]]
           /\ at' = [at EXCEPT ![d] = IF groups'[d] # {} THEN @
                                      ELSE IF found'[d] = {} THEN "idle" ELSE "get"]
           /\ UNCHANGED <<current, silverSeen, setbacks>>
        \/ Setback /\ EndPass(d)
    /\ UNCHANGED projectTables

\* GetProject: the epoch when there is no row; another error gives p up.
ReadSilverProject(d) ==
    /\ at[d] = "get"
    /\ \E p \in found[d] :
        \/ /\ at' = [at EXCEPT ![d] = "raw"]
           /\ found' = [found EXCEPT ![d] = @ \ {p}]
           /\ current' = [current EXCEPT ![d] = {p}]
           /\ silverSeen' = [silverSeen EXCEPT
                                 ![d] = IF p \in projects THEN silverCursor[p] ELSE 0]
           /\ UNCHANGED <<groups, setbacks>>
        \/ Setback /\ NextProject(d, found[d] \ {p})
    /\ UNCHANGED projectTables

\* A failed write may have been applied all the same.
WriteRawProject(d) ==
    /\ at[d] = "raw"
    /\ \E p \in current[d] :
        \/ /\ UpsertRawProject(p)
           /\ at' = [at EXCEPT ![d] = "silver"]
           /\ UNCHANGED <<groups, found, current, silverSeen, setbacks>>
        \/ /\ Setback /\ NextProject(d, found[d])
           /\ UpsertRawProject(p) \/ UNCHANGED projectTables

WriteSilverProject(d) ==
    /\ at[d] = "silver"
    /\ \E p \in current[d] :
        \/ UpsertProject(p, silverSeen[d]) /\ UNCHANGED setbacks
        \/ Setback /\ (UpsertProject(p, silverSeen[d]) \/ UNCHANGED projectTables)
    /\ NextProject(d, found[d])

\* The start-up pass is not waited for at shutdown, and no pass survives a kill.
KillPass(d) ==
    /\ at[d] # "idle"
    /\ Setback /\ EndPass(d)
    /\ UNCHANGED projectTables

PassStep(d) ==
    \/ StartPass(d) \/ ListGroup(d) \/ ReadSilverProject(d)
    \/ WriteRawProject(d) \/ WriteSilverProject(d)

DiscoveryNext == \E d \in Pass : PassStep(d) \/ KillPass(d)
=============================================================================
