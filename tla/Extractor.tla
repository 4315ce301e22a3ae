------------------------------ MODULE Extractor ------------------------------
(***************************************************************************)
(* The Bronze extraction (internal/sync/extractor.go) with the GitLab      *)
(* requests it makes.  A cycle is one call of ExtractAll; cron starts one  *)
(* at every tick without waiting for the previous one, so cycles overlap.  *)
(*                                                                         *)
(* Each request and each SQL statement is one step, and GitLab goes on     *)
(* changing between any two of them.  What is worked through one by one is *)
(* kept as a set; an order is kept where it matters, among the events of   *)
(* one type of an issue.                                                   *)
(***************************************************************************)
EXTENDS ProjectTables, Sequences

CONSTANTS
    Issue,           \* issues, over all projects, by their GitLab ID
    ProjectOf,       \* Issue -> Project
    Event,           \* the label events and notes these issues will get
    Cycle,           \* the calls of ExtractAll that may be active at once
    PageSize,        \* per_page of the issue listing
    MaxRaw           \* no cycle starts once raw_events has this many rows

EventRecord == [id : Nat, type : {"label_event", "note"}, issue : Issue]

ASSUME ExtractorAssumption ==
    /\ Issue \subseteq Nat
    /\ ProjectOf \in [Issue -> Project]
    /\ Event \subseteq EventRecord
    /\ PageSize \in Nat \ {0}
    /\ MaxRaw \in Nat

VARIABLES
    now,             \* the clock, in seconds, shared with GitLab
    present,         \* the events GitLab has
    updatedAt,       \* updated_at of the issues in GitLab
    raw,             \* raw_events in fetched_at order, each row its GitLab event
    rawIssues,       \* the rows of raw_issues
    lastTick,        \* when cron last started a cycle
    pc,              \* per cycle: the request or statement it is about to make
    todo,            \* per cycle: the projects to extract, with their cursors
    project,         \* per cycle: the project being extracted, as a set
    since,           \* per cycle: lastSynced
    start,           \* per cycle: syncStartTime
    page,            \* per cycle: the page of issues to ask for
    listed,          \* per cycle: the issues listed and still to be fetched
    issue,           \* per cycle: the issue being fetched, as a set
    labels,          \* per cycle: its label events
    fetched,         \* per cycle: rawEvents still to be inserted
    missed           \* history: the issues that a cycle has passed over

gitlab == <<present, updatedAt>>
bronze == <<raw, rawIssues>>
listing == <<since, page, listed>>
fetching == <<issue, labels, fetched>>
cycleVars == <<pc, todo, project, start, listing, fetching>>
extractorVars == <<now, gitlab, bronze, lastTick, cycleVars, missed>>

ExtractorTypeOK ==
    /\ now \in Time
    /\ present \subseteq Event
    /\ updatedAt \in [Issue -> Time]
    /\ raw \in Seq(Event)
    /\ rawIssues \subseteq Issue
    /\ lastTick \in Time
    /\ pc \in [Cycle -> {"idle", "projects", "next", "issues", "labels", "notes",
                         "insert"}]
    /\ todo \in [Cycle -> SUBSET (Project \X Time)]
    /\ project \in [Cycle -> SUBSET Project]
    /\ since \in [Cycle -> Time]
    /\ start \in [Cycle -> Time]
    /\ page \in [Cycle -> Nat]
    /\ listed \in [Cycle -> SUBSET Issue]
    /\ issue \in [Cycle -> SUBSET Issue]
    /\ labels \in [Cycle -> SUBSET Event]
    /\ fetched \in [Cycle -> SUBSET Event]
    /\ missed \subseteq Issue

ExtractorInit ==
    /\ now = 0
    /\ present = {}
    /\ updatedAt = [i \in Issue |-> 0]
    /\ raw = <<>>
    /\ rawIssues = {}
    /\ lastTick = 0
    /\ pc = [c \in Cycle |-> "idle"]
    /\ todo = [c \in Cycle |-> {}]
    /\ project = [c \in Cycle |-> {}]
    /\ since = [c \in Cycle |-> 0]
    /\ start = [c \in Cycle |-> 0]
    /\ page = [c \in Cycle |-> 0]
    /\ listed = [c \in Cycle |-> {}]
    /\ issue = [c \in Cycle |-> {}]
    /\ labels = [c \in Cycle |-> {}]
    /\ fetched = [c \in Cycle |-> {}]
    /\ missed = {}

-----------------------------------------------------------------------------
(* The environment: time and GitLab.                                       *)

Tick ==
    /\ now < MaxTime
    /\ now' = now + 1
    /\ UNCHANGED <<gitlab, bronze, lastTick, cycleVars, missed, projectTables, setbacks>>

Earlier(f, e) == f.issue = e.issue /\ f.type = e.type /\ f.id < e.id

\* Somebody labels an issue or writes a note, which touches its updated_at.
\* The IDs of an issue's events of one type grow.  Nothing more happens at
\* MaxTime, so that extraction can catch up.
Occur(e) ==
    /\ now < MaxTime
    /\ e \notin present
    /\ \A f \in Event : Earlier(f, e) => f \in present
    /\ present' = present \cup {e}
    /\ updatedAt' = [updatedAt EXCEPT ![e.issue] = now]
    /\ UNCHANGED <<now, bronze, lastTick, cycleVars, missed, projectTables, setbacks>>

\* Mutated form: issues updated in the second of the cursor are left out.
UpdatedStrictly(p, from) == {i \in Issue : ProjectOf[i] = p /\ from < updatedAt[i]}

\* The issues of p updated_after `from`, as GitLab has them at the request.
Updated(p, from) == {i \in Issue : /\ ProjectOf[i] = p
                                   /\ \E e \in present : e.issue = i
                                   /\ from <= updatedAt[i]}

\* order_by=updated_at and sort=asc (and, within a second, by ID).
ListedBefore(i, j) == updatedAt[i] < updatedAt[j] \/ (updatedAt[i] = updatedAt[j] /\ i < j)

\* Page n of a listing of S.
PageOf(S, n) ==
    LET Rank(i) == Cardinality({j \in S : ListedBefore(j, i)})
    IN  {i \in S : (n - 1) * PageSize <= Rank(i) /\ Rank(i) < n * PageSize}

EventsOf(i, type) == {e \in present : e.issue = i /\ e.type = type}

-----------------------------------------------------------------------------
(* The ways a cycle goes on.                                               *)

Ok == UNCHANGED setbacks

Goto(c, label) == pc' = [pc EXCEPT ![c] = label]

ClearProject(c) ==
    /\ project' = [project EXCEPT ![c] = {}]
    /\ since' = [since EXCEPT ![c] = 0]
    /\ start' = [start EXCEPT ![c] = 0]
    /\ page' = [page EXCEPT ![c] = 0]
    /\ listed' = [listed EXCEPT ![c] = {}]
    /\ issue' = [issue EXCEPT ![c] = {}]
    /\ labels' = [labels EXCEPT ![c] = {}]
    /\ fetched' = [fetched EXCEPT ![c] = {}]

\* ExtractProject returned: ExtractAll goes on with the next project, or returns.
EndProject(c) ==
    /\ Goto(c, IF todo[c] = {} THEN "idle" ELSE "next")
    /\ ClearProject(c)
    /\ UNCHANGED todo

\* ExtractAll returned, or its process ended.
EndCycle(c) == Goto(c, "idle") /\ ClearProject(c) /\ todo' = [todo EXCEPT ![c] = {}]

\* The next step once the issues in S are still to be fetched.
FetchNext(c, S) == Goto(c, IF S = {} THEN "insert" ELSE "labels")

-----------------------------------------------------------------------------
(* ExtractAll and ExtractProject.                                          *)

\* A cron tick; at MaxTime the clock stands for all later ticks.
StartCycle(c) ==
    /\ pc[c] = "idle"
    /\ lastTick < now \/ now = MaxTime
    /\ Len(raw) < MaxRaw
    /\ lastTick' = now
    /\ Goto(c, "projects")
    /\ UNCHANGED <<now, gitlab, bronze, todo, project, start, listing, fetching, missed,
                   projectTables, setbacks>>

\* ListRawProjects: the cursors the whole cycle works with.
ListProjects(c) ==
    /\ pc[c] = "projects"
    /\ \/ /\ Ok
          /\ todo' = [todo EXCEPT ![c] = {<<p, rawCursor[p]>> : p \in rawProjects}]
          /\ Goto(c, IF rawProjects = {} THEN "idle" ELSE "next")
          /\ UNCHANGED <<project, start, listing, fetching>>
       \/ Setback /\ EndCycle(c)
    /\ UNCHANGED <<now, gitlab, bronze, lastTick, missed, projectTables>>

\* The cursor-to-be, syncStartTime, is read before the first request.
BeginProject(c) ==
    /\ pc[c] = "next"
    /\ \E row \in todo[c] :
        /\ todo' = [todo EXCEPT ![c] = @ \ {row}]
        /\ project' = [project EXCEPT ![c] = {row[1]}]
        /\ since' = [since EXCEPT ![c] = row[2]]
    /\ start' = [start EXCEPT ![c] = now]
    /\ page' = [page EXCEPT ![c] = 1]
    /\ Goto(c, "issues")
    /\ UNCHANGED <<now, gitlab, bronze, lastTick, listed, fetching, missed, projectTables,
                   setbacks>>

\* ListIssues: page after page until there is no next one.  An issue that the
\* listing has lost, because pages moved between two requests, is `missed`.
ListIssues(c) ==
    /\ pc[c] = "issues"
    /\ \E p \in project[c] :
        LET matching == Updated(p, since[c])
            got == listed[c] \cup PageOf(matching, page[c])
        IN  \/ /\ page[c] * PageSize < Cardinality(matching)
               /\ Ok
               /\ listed' = [listed EXCEPT ![c] = got]
               /\ page' = [page EXCEPT ![c] = @ + 1]
               /\ UNCHANGED <<pc, todo, project, start, since, fetching, missed>>
            \/ /\ Cardinality(matching) <= page[c] * PageSize
               /\ Ok
               /\ listed' = [listed EXCEPT ![c] = got]
               /\ page' = [page EXCEPT ![c] = 0]
               /\ FetchNext(c, got)
               /\ missed' = missed \cup {i \in matching \ got : updatedAt[i] < start[c]}
               /\ UNCHANGED <<todo, project, start, since, fetching>>
            \/ Setback /\ EndProject(c) /\ UNCHANGED missed
    /\ UNCHANGED <<now, gitlab, bronze, lastTick, projectTables>>

\* The issue is done with, or given up.
NextIssue(c, S) ==
    /\ FetchNext(c, S)
    /\ issue' = [issue EXCEPT ![c] = {}]
    /\ labels' = [labels EXCEPT ![c] = {}]

\* The next issue: persistIssueMetadata, whose error is only logged, writes
\* raw_issues, which no step reads; then its label events are requested.
FetchLabels(c) ==
    /\ pc[c] = "labels"
    /\ \E i \in listed[c] :
        /\ listed' = [listed EXCEPT ![c] = @ \ {i}]
        /\ \/ /\ \/ Ok /\ rawIssues' = rawIssues \cup {i}
                 \/ Setback /\ rawIssues' \in {rawIssues, rawIssues \cup {i}}
              /\ issue' = [issue EXCEPT ![c] = {i}]
              /\ labels' = [labels EXCEPT ![c] = EventsOf(i, "label_event")]
              /\ Goto(c, "notes")
              /\ UNCHANGED missed
           \/ /\ Setback
              /\ rawIssues' = rawIssues \cup {i}
              /\ NextIssue(c, listed'[c])
              /\ missed' = missed \cup {i}
    /\ UNCHANGED <<now, gitlab, raw, lastTick, todo, project, start, since, page, fetched,
                   projectTables>>

\* The label events of an issue count only when its notes came, too.
FetchNotes(c) ==
    /\ pc[c] = "notes"
    /\ NextIssue(c, listed[c])
    /\ \E i \in issue[c] :
        \/ /\ Ok
           /\ fetched' = [fetched EXCEPT ![c] = @ \cup labels[c] \cup EventsOf(i, "note")]
           /\ UNCHANGED missed
        \/ Setback /\ missed' = missed \cup {i} /\ UNCHANGED fetched
    /\ UNCHANGED <<now, gitlab, bronze, lastTick, todo, project, start, listing,
                   projectTables>>

\* Mutated form: the newest events of an issue are inserted first.
FirstOfNewest(S) == {e \in S : \A f \in S : ~Earlier(e, f)}

\* The events that are next: GitLab lists those of one type oldest first.
FirstOf(S) == {e \in S : \A f \in S : ~Earlier(f, e)}

\* BulkInsertRawEvent: ON CONFLICT DO NOTHING on a table whose only key is its
\* own sequence, so nothing conflicts.  An error is logged and skipped.
InsertRawEvent(c) ==
    /\ pc[c] = "insert"
    /\ \E e \in FirstOf(fetched[c]) :
        /\ fetched' = [fetched EXCEPT ![c] = @ \ {e}]
        /\ \/ Ok /\ raw' = Append(raw, e) /\ UNCHANGED missed
           \/ /\ Setback
              /\ raw' \in {raw, Append(raw, e)}
              /\ missed' = missed \cup {e.issue}
    /\ UNCHANGED <<now, gitlab, rawIssues, lastTick, pc, todo, project, start, listing,
                   issue, labels, projectTables>>

\* Mutated form: the time of the write becomes the cursor.
SyncCursorNow(c) ==
    /\ pc[c] = "insert" /\ fetched[c] = {}
    /\ \E p \in project[c] : Ok /\ SyncProjectLastSynced(p, now)
    /\ EndProject(c)
    /\ UNCHANGED <<now, gitlab, bronze, lastTick, missed>>

\* Mutated form: a second is added, to not list the same issues again.
SyncCursorAhead(c) ==
    /\ pc[c] = "insert" /\ fetched[c] = {}
    /\ \E p \in project[c] : Ok /\ SyncProjectLastSynced(p, start[c] + 1)
    /\ EndProject(c)
    /\ UNCHANGED <<now, gitlab, bronze, lastTick, missed>>

\* The time before the first request becomes the cursor.
SyncCursor(c) ==
    /\ pc[c] = "insert" /\ fetched[c] = {}
    /\ \E p \in project[c] :
        \/ Ok /\ SyncProjectLastSynced(p, start[c])
        \/ Setback /\ (SyncProjectLastSynced(p, start[c]) \/ UNCHANGED projectTables)
    /\ EndProject(c)
    /\ UNCHANGED <<now, gitlab, bronze, lastTick, missed>>

\* The process of the cycle is killed.
KillCycle(c) ==
    /\ pc[c] # "idle"
    /\ Setback /\ EndCycle(c)
    /\ UNCHANGED <<now, gitlab, bronze, lastTick, missed, projectTables>>

CycleStep(c) ==
    \/ StartCycle(c) \/ ListProjects(c) \/ BeginProject(c) \/ ListIssues(c)
    \/ FetchLabels(c) \/ FetchNotes(c) \/ InsertRawEvent(c) \/ SyncCursor(c)

ExtractorNext ==
    \/ Tick
    \/ \E e \in Event : Occur(e)
    \/ \E c \in Cycle : CycleStep(c) \/ KillCycle(c)
=============================================================================
