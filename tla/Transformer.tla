----------------------------- MODULE Transformer -----------------------------
(***************************************************************************)
(* The Bronze -> Silver transformation (internal/transformer/service.go)   *)
(* over the database it shares with the extractor and with other           *)
(* transformation runs.  A run is one call of TransformAll: cron starts    *)
(* them without waiting for the previous one, and cmd/backfill is another. *)
(*                                                                         *)
(* Each SQL statement is one step, because each is its own transaction;    *)
(* the Go code between two statements only touches the locals of its run.  *)
(* A statement may fail, and a write that failed for the client may have   *)
(* been applied by the server.  A crash ends a run between two statements. *)
(***************************************************************************)
EXTENDS BronzeEvents, FiniteSets

CONSTANTS
    Run,             \* the transformation runs that may be active at once
    BatchSize,       \* Service.batchSize
    SilverAtStart,   \* the projects that have a row in Silver to begin with
    Feed,            \* "in_order": the events of an issue reach Bronze in order;
                     \* "any_order": a failed insert let later events overtake
    MaxRaw,          \* bound on the rows of raw_events
    MaxRepeats,      \* bound on those that repeat an earlier one
    MaxErrors,       \* bound on the statements that fail
    MaxCrashes       \* bound on the runs that are killed

ASSUME TransformerAssumption ==
    /\ BatchSize \in Nat \ {0}
    /\ SilverAtStart \subseteq Project
    /\ Feed \in {"in_order", "any_order"}
    /\ MaxRaw \in Nat /\ MaxRepeats \in Nat
    /\ MaxErrors \in Nat /\ MaxCrashes \in Nat

VARIABLES
    raw,             \* raw_events in fetched_at order, each row its GitLab event
    processed,       \* the rows of raw_events with processed = TRUE
    silverProjects,  \* the rows of projects
    issues,          \* the rows of issues
    events,          \* the rows of issue_events, in the order of their insertion
    comments,        \* the gitlab_note_id's of issue_comments
    unknownLabels,   \* the labels of unknown_labels_log
    pc,              \* per run: the statement it is about to execute
    batch,           \* per run: the rows of its batch still to be looked at
    row,             \* per run: the row being transformed
    done,            \* per run: processedIDs
    snap,            \* per run: the issue row it read
    last,            \* per run: the event GetLastIssueEvent returned
    errors, crashes  \* how many failures have happened

bronze == <<raw, processed>>
silver == <<silverProjects, issues, events, comments, unknownLabels>>
locals == <<pc, batch, row, done, snap, last>>
vars == <<bronze, silver, locals, errors, crashes>>

Control ==
    {"idle", "list", "next", "lookup", "create", "last", "insert", "cache",
     "readmeta", "writemeta", "comment", "assign"}

\* A row of issues; `exists` is FALSE while there is none.
IssueRow ==
    [exists : BOOLEAN, state : CanonicalState \cup {None},
     metadata : SUBSET Label, assignees : AssigneeHistory]

NoIssue == [exists |-> FALSE, state |-> None, metadata |-> {}, assignees |-> EmptyHistory]

TypeOK ==
    /\ raw \in Seq(Event)
    /\ processed \subseteq DOMAIN raw
    /\ silverProjects \subseteq Project
    /\ issues \in [Issue -> IssueRow]
    /\ events \in Seq(SilverEvent)
    /\ comments \subseteq Nat
    /\ unknownLabels \subseteq Label
    /\ pc \in [Run -> Control]
    /\ batch \in [Run -> SUBSET DOMAIN raw]
    /\ row \in [Run -> DOMAIN raw \cup {0}]
    /\ done \in [Run -> SUBSET DOMAIN raw]
    /\ snap \in [Run -> IssueRow]
    /\ last \in [Run -> SilverEvent \cup {NoEvent}]
    /\ errors \in 0 .. MaxErrors
    /\ crashes \in 0 .. MaxCrashes

Init ==
    /\ raw = <<>>
    /\ processed = {}
    /\ silverProjects = SilverAtStart
    /\ issues = [i \in Issue |-> NoIssue]
    /\ events = <<>>
    /\ comments = {}
    /\ unknownLabels = {}
    /\ pc = [t \in Run |-> "idle"]
    /\ batch = [t \in Run |-> {}]
    /\ row = [t \in Run |-> 0]
    /\ done = [t \in Run |-> {}]
    /\ snap = [t \in Run |-> NoIssue]
    /\ last = [t \in Run |-> NoEvent]
    /\ errors = 0
    /\ crashes = 0

-----------------------------------------------------------------------------
(* The environment: the extractor and project discovery.                   *)

InBronze(e) == \E r \in DOMAIN raw : raw[r] = e

Repeats == {r \in DOMAIN raw : \E q \in DOMAIN raw : q < r /\ raw[q] = raw[r]}

\* BulkInsertRawEvent.  raw_events has no unique key, so an event that is
\* fetched again becomes one more row.
Ingest(e) ==
    /\ Len(raw) < MaxRaw /\ (InBronze(e) => Cardinality(Repeats) < MaxRepeats)
    /\ Feed = "in_order" =>
           \A f \in Event : f.issue = e.issue /\ f.type = e.type /\ f.id < e.id => InBronze(f)
    /\ raw' = Append(raw, e)
    /\ UNCHANGED <<processed, silver, locals, errors, crashes>>

\* Discovery writes the Silver row of a project (UpsertProject).
DiscoverProject(p) ==
    /\ p \notin silverProjects
    /\ silverProjects' = silverProjects \cup {p}
    /\ UNCHANGED <<bronze, issues, events, comments, unknownLabels, locals, errors, crashes>>

-----------------------------------------------------------------------------
(* Outcomes of a statement, and the ways a run goes on.                    *)

DbOk == UNCHANGED <<errors, crashes>>

DbError ==
    /\ errors < MaxErrors
    /\ errors' = errors + 1
    /\ UNCHANGED crashes

Goto(t, label) == pc' = [pc EXCEPT ![t] = label]

\* The locals of transformEvent end with it.
EndEvent(t) ==
    /\ pc' = [pc EXCEPT ![t] = "next"]
    /\ row' = [row EXCEPT ![t] = 0]
    /\ snap' = [snap EXCEPT ![t] = NoIssue]
    /\ last' = [last EXCEPT ![t] = NoEvent]
    /\ UNCHANGED batch

\* Mutated form: the ID is taken when the locals are already gone.
SucceedLate(t) == EndEvent(t) /\ done' = [done EXCEPT ![t] = @ \cup {row'[t]}]

\* transformEvent returned nil: the row's ID joins processedIDs.
Succeed(t) == EndEvent(t) /\ done' = [done EXCEPT ![t] = @ \cup {row[t]}]

\* Mutated form: the loop collects the ID before it looks at the error.
FailCounted(t) == EndEvent(t) /\ done' = [done EXCEPT ![t] = @ \cup {row[t]}]

\* transformEvent returned an error: it is logged and the row left as it is.
Fail(t) == EndEvent(t) /\ UNCHANGED done

\* TransformAll returned, or the process of the run died.
EndRun(t) ==
    /\ pc' = [pc EXCEPT ![t] = "idle"]
    /\ batch' = [batch EXCEPT ![t] = {}]
    /\ row' = [row EXCEPT ![t] = 0]
    /\ done' = [done EXCEPT ![t] = {}]
    /\ snap' = [snap EXCEPT ![t] = NoIssue]
    /\ last' = [last EXCEPT ![t] = NoEvent]

Current(t) == raw[row[t]]

Unprocessed == DOMAIN raw \ processed

\* ListUnprocessedRawEvents: the oldest BatchSize rows.
FirstBatch ==
    {r \in Unprocessed : Cardinality({q \in Unprocessed : q < r}) < BatchSize}

-----------------------------------------------------------------------------
(* TransformAll and TransformBatch: the loop around the events.            *)

\* A scheduler tick or a backfill calls TransformAll.
StartRun(t) ==
    /\ pc[t] = "idle"
    /\ Goto(t, "list")
    /\ UNCHANGED <<bronze, silver, batch, row, done, snap, last, errors, crashes>>

ListBatch(t) ==
    /\ pc[t] = "list"
    /\ \/ /\ DbOk /\ Unprocessed # {}
          /\ Goto(t, "next")
          /\ batch' = [batch EXCEPT ![t] = FirstBatch]
          /\ UNCHANGED <<row, done, snap, last>>
       \/ DbOk /\ Unprocessed = {} /\ EndRun(t)
       \/ DbError /\ EndRun(t)
    /\ UNCHANGED <<bronze, silver>>

\* UpsertUnknownLabel is only logged when it fails.
LogUnknownLabel(e) ==
    \/ /\ IsUnmapped(e)
       /\ \/ DbOk /\ unknownLabels' = unknownLabels \cup {e.label}
          \/ DbError /\ unknownLabels' \in {unknownLabels, unknownLabels \cup {e.label}}
    \/ ~IsUnmapped(e) /\ DbOk /\ UNCHANGED unknownLabels

\* Mutated form: the rows of a batch are taken in any order.
TransformEventUnordered(t) ==
    /\ pc[t] = "next"
    /\ \E r \in batch[t] :
        /\ batch' = [batch EXCEPT ![t] = @ \ {r}]
        /\ LogUnknownLabel(raw[r])
        /\ HasEffect(raw[r])
        /\ Goto(t, "lookup")
        /\ row' = [row EXCEPT ![t] = r]
    /\ UNCHANGED <<bronze, silverProjects, issues, events, comments, snap, last, done>>

\* The next row of the batch: one without effect succeeds at once, the others
\* begin with ensureIssue.
TransformEvent(t) ==
    /\ pc[t] = "next"
    /\ \E r \in batch[t] :
        /\ \A q \in batch[t] : r <= q
        /\ batch' = [batch EXCEPT ![t] = @ \ {r}]
        /\ LogUnknownLabel(raw[r])
        /\ \/ /\ ~HasEffect(raw[r])
              /\ done' = [done EXCEPT ![t] = @ \cup {r}]
              /\ UNCHANGED <<pc, row>>
           \/ /\ HasEffect(raw[r])
              /\ Goto(t, "lookup")
              /\ row' = [row EXCEPT ![t] = r]
              /\ UNCHANGED done
    /\ UNCHANGED <<bronze, silverProjects, issues, events, comments, snap, last>>

\* MarkRawEventsProcessedBatch; a batch without a success ends the run.
FinishBatch(t) ==
    /\ pc[t] = "next" /\ batch[t] = {}
    /\ \/ done[t] = {} /\ DbOk /\ EndRun(t) /\ UNCHANGED processed
       \/ /\ done[t] # {} /\ DbOk
          /\ processed' = processed \cup done[t]
          /\ Goto(t, "list")
          /\ done' = [done EXCEPT ![t] = {}]
          /\ UNCHANGED <<batch, row, snap, last>>
       \/ /\ done[t] # {} /\ DbError /\ EndRun(t)
          /\ processed' \in {processed, processed \cup done[t]}
    /\ UNCHANGED <<raw, silver>>

-----------------------------------------------------------------------------
(* ensureIssue.                                                            *)

\* The statement that follows ensureIssue, by the kind of event.
AfterEnsure(e) ==
    CASE IsMetadata(e) -> "readmeta"
      [] IsTransition(e) -> "last"
      [] IsComment(e) -> "comment"
      [] OTHER -> "assign"

\* Mutated form: the row is upserted without looking for it.
LookupIssueSkipped(t) ==
    /\ pc[t] = "lookup" /\ DbOk
    /\ Goto(t, "create")
    /\ UNCHANGED <<bronze, silver, batch, row, done, snap, last>>

\* GetIssueByProjectAndIID: any error, not only "no rows", leads to the upsert.
LookupIssue(t) ==
    /\ pc[t] = "lookup"
    /\ LET i == Current(t).issue
       IN  \/ /\ DbOk /\ issues[i].exists
              /\ snap' = [snap EXCEPT ![t] = issues[i]]
              /\ Goto(t, AfterEnsure(Current(t)))
           \/ /\ DbError \/ (DbOk /\ ~issues[i].exists)
              /\ Goto(t, "create")
              /\ UNCHANGED snap
    /\ UNCHANGED <<bronze, silver, batch, row, done, last>>

\* The row UpsertIssue leaves: state, metadata_labels and assignees are
\* overwritten with the NULLs of the stub, also when the row was there.
Stub == [NoIssue EXCEPT !.exists = TRUE]

\* UpsertIssue; the foreign key rejects an issue of a project not in Silver.
CreateIssue(t) ==
    /\ pc[t] = "create"
    /\ LET i == Current(t).issue
           upserted == [issues EXCEPT ![i] = Stub]
           inSilver == ProjectOf[i] \in silverProjects
       IN  \/ /\ DbOk /\ inSilver
              /\ issues' = upserted
              /\ snap' = [snap EXCEPT ![t] = Stub]
              /\ Goto(t, AfterEnsure(Current(t)))
              /\ UNCHANGED <<batch, row, done, last>>
           \/ DbOk /\ ~inSilver /\ Fail(t) /\ UNCHANGED issues
           \/ /\ DbError /\ Fail(t)
              /\ issues' \in {issues} \cup (IF inSilver THEN {upserted} ELSE {})
    /\ UNCHANGED <<bronze, silverProjects, events, comments, unknownLabels>>

-----------------------------------------------------------------------------
(* transformLabelEvent: a state transition.                                *)

\* GetLastIssueEvent; its error is dropped and looks like "no event".
ReadLastEvent(t) ==
    /\ pc[t] = "last"
    /\ \/ /\ DbOk
          /\ \E s \in LastIssueEvents(events, Current(t).issue) :
                 last' = [last EXCEPT ![t] = s]
       \/ DbError /\ last' = [last EXCEPT ![t] = NoEvent]
    /\ Goto(t, "insert")
    /\ UNCHANGED <<bronze, silver, batch, row, done, snap>>

\* Mutated form: noise is kept out of the state cache.
UpdatesCacheNoNoise(s) == s.state # "UNKNOWN" /\ ~s.noise

\* An UNKNOWN state does not go into the state cache.
UpdatesCache(s) == s.state # "UNKNOWN"

\* Mutated form: an error of the insert is logged, and the cache written.
InsertEventContinues(t) ==
    /\ pc[t] = "insert"
    /\ LET e == Current(t)
           inserted == InsertIssueEvent(events, e, SilverRow(e, last[t]))
       IN  (DbOk /\ events' = inserted) \/ (DbError /\ events' \in {events, inserted})
    /\ Goto(t, "cache")
    /\ UNCHANGED <<bronze, silverProjects, issues, comments, unknownLabels, batch, row,
                   done, snap, last>>

\* Mutated form: that no row is returned is taken for an error.
InsertEventNoRowFails(t) ==
    /\ pc[t] = "insert"
    /\ LET e == Current(t)
           s == SilverRow(e, last[t])
           inserted == InsertIssueEvent(events, e, s)
       IN  \/ /\ DbOk /\ events' = inserted
              /\ IF inserted = events THEN Fail(t) ELSE ~UpdatesCache(s) /\ Succeed(t)
           \/ /\ DbOk /\ events' = inserted
              /\ inserted # events /\ UpdatesCache(s)
              /\ Goto(t, "cache")
              /\ UNCHANGED <<batch, row, done, snap, last>>
           \/ DbError /\ Fail(t) /\ events' \in {events, inserted}
    /\ UNCHANGED <<bronze, silverProjects, issues, comments, unknownLabels>>

\* InsertIssueEvent; when it returns no row the event ends without touching
\* the state cache.
InsertEvent(t) ==
    /\ pc[t] = "insert"
    /\ LET e == Current(t)
           s == SilverRow(e, last[t])
           inserted == InsertIssueEvent(events, e, s)
       IN  \/ /\ DbOk /\ events' = inserted
              /\ inserted = events \/ ~UpdatesCache(s)
              /\ Succeed(t)
           \/ /\ DbOk /\ events' = inserted
              /\ inserted # events /\ UpdatesCache(s)
              /\ Goto(t, "cache")
              /\ UNCHANGED <<batch, row, done, snap, last>>
           \/ DbError /\ Fail(t) /\ events' \in {events, inserted}
    /\ UNCHANGED <<bronze, silverProjects, issues, comments, unknownLabels>>

\* UpdateIssueCanonicalState; its error is only logged.
UpdateCache(t) ==
    /\ pc[t] = "cache"
    /\ LET e == Current(t)
           updated == [issues EXCEPT ![e.issue].state = DetermineCanonicalState(e)]
       IN  \/ DbOk /\ issues' = updated
           \/ DbError /\ issues' \in {issues, updated}
    /\ Succeed(t)
    /\ UNCHANGED <<bronze, silverProjects, events, comments, unknownLabels>>

-----------------------------------------------------------------------------
(* updateIssueMetadata: read, add, write; its errors are only logged.      *)

ReadMetadata(t) ==
    /\ pc[t] = "readmeta"
    /\ \/ /\ DbOk
          /\ snap' = [snap EXCEPT ![t] = issues[Current(t).issue]]
          /\ Goto(t, "writemeta")
          /\ UNCHANGED <<batch, row, done, last>>
       \/ DbError /\ Succeed(t)
    /\ UNCHANGED <<bronze, silver>>

\* Mutated form: the list of the key is replaced.
AccumulateReplace(metadata, label) == {label}

\* The lists of all keys together: a label has one key and is listed once.
Accumulate(metadata, label) == metadata \cup {label}

WriteMetadata(t) ==
    /\ pc[t] = "writemeta"
    /\ LET e == Current(t)
           updated == [issues EXCEPT ![e.issue].metadata = Accumulate(snap[t].metadata, e.label)]
       IN  \/ DbOk /\ issues' = updated
           \/ DbError /\ issues' \in {issues, updated}
    /\ Succeed(t)
    /\ UNCHANGED <<bronze, silverProjects, events, comments, unknownLabels>>

-----------------------------------------------------------------------------
(* transformNote: a comment, or a change of assignees.                     *)

\* InsertIssueComment, ON CONFLICT (gitlab_note_id) DO NOTHING.
InsertComment(t) ==
    /\ pc[t] = "comment"
    /\ LET inserted == comments \cup {Current(t).id}
       IN  \/ DbOk /\ comments' = inserted /\ Succeed(t)
           \/ DbError /\ comments' \in {comments, inserted} /\ Fail(t)
    /\ UNCHANGED <<bronze, silverProjects, issues, events, unknownLabels>>

\* processAssigneeChanges: the new history is computed from the issue row that
\* ensureIssue returned; when nothing changes there is no statement.
UpdateAssignees(t) ==
    /\ pc[t] = "assign"
    /\ LET e == Current(t)
           changed == ApplyAssigneeChanges(snap[t].assignees,
                          Captured(e.assigned), Captured(e.unassigned), e.at)
           updated == [issues EXCEPT ![e.issue].assignees = changed]
       IN  \/ /\ DbOk /\ Succeed(t)
              /\ issues' = IF changed = snap[t].assignees THEN issues ELSE updated
           \/ /\ changed # snap[t].assignees
              /\ DbError /\ issues' \in {issues, updated} /\ Fail(t)
    /\ UNCHANGED <<bronze, silverProjects, events, comments, unknownLabels>>

-----------------------------------------------------------------------------
\* The run is killed: a forced shutdown, or the end of its process.
Crash(t) ==
    /\ pc[t] # "idle"
    /\ crashes < MaxCrashes
    /\ crashes' = crashes + 1
    /\ EndRun(t)
    /\ UNCHANGED <<bronze, silver, errors>>

\* A step of the code of run t.
RunStep(t) ==
    \/ StartRun(t) \/ ListBatch(t) \/ TransformEvent(t) \/ FinishBatch(t)
    \/ LookupIssue(t) \/ CreateIssue(t)
    \/ ReadLastEvent(t) \/ InsertEvent(t) \/ UpdateCache(t)
    \/ ReadMetadata(t) \/ WriteMetadata(t)
    \/ InsertComment(t) \/ UpdateAssignees(t)

Next ==
    \/ \E e \in Event : Ingest(e)
    \/ \E p \in Project : DiscoverProject(p)
    \/ \E t \in Run : RunStep(t) \/ Crash(t)

Spec == Init /\ [][Next]_vars

\* The scheduler starts a run again and again, and a started run goes on.
RunFairness == \A t \in Run : WF_vars(RunStep(t))

\* The discovery job, too, is run again and again, and lists every project.
DiscoveryFairness == \A p \in Project : WF_vars(DiscoverProject(p))

FairSpec == Spec /\ RunFairness /\ DiscoveryFairness

\* Without it: a project that no configured group lists any more.
RunFairSpec == Spec /\ RunFairness

-----------------------------------------------------------------------------
(* Safety.                                                                 *)

\* The Silver rows that show that e has been transformed.
Recorded(e) ==
    /\ IsTransition(e) => IsRecorded(events, e)
    /\ IsComment(e) => e.id \in comments

\* No silent loss: a raw event marked processed has its row in Silver, whatever
\* fails, crashes or overlaps (service.go:88-108: only successes are marked).
ProcessedIsRecorded == \A r \in processed : Recorded(raw[r])

\* However often a GitLab event was fetched and by however many runs it is
\* transformed, it is counted once (issue_events.sql:8).
RecordedOnce ==
    \A j, k \in DOMAIN events : SameKey(events[j], events[k]) => j = k

\* The state cache of an issue never shows a state that no recorded transition
\* of that issue has, also when a run dies between the two writes
\* (service.go:257-298: the cache is written after the event).
CacheIsRecorded ==
    \A i \in Issue :
        issues[i].state # None =>
            \E k \in DOMAIN events :
                events[k].issue = i /\ events[k].state = issues[i].state

\* A recorded transition is never reclassified or deleted, and a processed row
\* never becomes unprocessed: what a reader of Silver saw stays true.
SilverIsAppendOnly ==
    [][/\ Len(events) <= Len(events')
       /\ \A k \in DOMAIN events : events'[k] = events[k]
       /\ comments \subseteq comments'
       /\ processed \subseteq processed']_vars

\* Refinement: without failed statements the snapshot each run classifies with
\* is the current one at the insert, so issue_events grows like SilverLog.
Log == INSTANCE SilverLog WITH events <- events
RefinesSilverLog == Log!Spec

\* cycle_count is the number of returns from QA to development in the history
\* of the issue up to the event, noise left out (000006 up.sql:32).
CycleCountIsReworkRounds ==
    \A k \in DOMAIN events :
        LET s == events[k]
            before == {j \in DOMAIN events : /\ events[j].issue = s.issue
                                             /\ ~events[j].noise /\ events[j].at < s.at}
            FollowsQA(j) ==
                \E q \in before :
                    /\ events[q].state = "QA_REVIEW" /\ events[q].at < events[j].at
                    /\ \A m \in before : events[m].at < events[j].at => events[m].at <= events[q].at
        IN  s.cycle = Cardinality({j \in before \cup {k} :
                                      events[j].state = "IN_PROGRESS" /\ FollowsQA(j)})

\* The state cache of an issue is that of its latest transition whose state is
\* known, or NULL when there is none (000005 up.sql:31), while no run is active.
\* Asked of an issue whose transitions were recorded in the order of their time;
\* a statement that failed or a run that died before the cache was written
\* leaves it behind for good, since the event is then never transformed again.
InTimeOrder(i) ==
    \A j, k \in DOMAIN events :
        (events[j].issue = i /\ events[k].issue = i /\ j < k) => events[j].at < events[k].at

CacheIsLatestState ==
    (crashes = 0 /\ errors = 0 /\ \A t \in Run : pc[t] = "idle") =>
        \A i \in Issue : InTimeOrder(i) =>
            LET known == {k \in DOMAIN events :
                             events[k].issue = i /\ events[k].state # "UNKNOWN"}
            IN  issues[i].state =
                  IF known = {} THEN None
                    ELSE events[CHOOSE k \in known : \A j \in known : j <= k].state

\* ensureIssue creates what is missing and nothing else: what an issue row has
\* accumulated is not taken away again (service.go:413-414, 463).
IssueRowsSurvive ==
    [][\A i \in Issue :
         issues[i].exists =>
           /\ issues'[i].exists
           /\ issues[i].metadata \subseteq issues'[i].metadata
           /\ issues[i].state # None => issues'[i].state # None
           /\ \A n \in Name : Len(issues[i].assignees.history[n])
                                <= Len(issues'[i].assignees.history[n])]_vars

\* The assignments of issue i came to Bronze once, in the order of their time.
AssignedInOrder(i) ==
    \A q, r \in DOMAIN raw :
        /\ raw[q].issue = i /\ IsAssignment(raw[q])
        /\ raw[r].issue = i /\ IsAssignment(raw[r])
        /\ q < r
        => raw[q].at < raw[r].at

\* The metadata labels and assignments of processed rows are on their issue: no
\* update of the two documents is lost, also when a run dies and its batch is
\* transformed again (service.go:355-401, 464-505).  A note that comes late or
\* twice may close a newer period, so the assignments are asked for in order.
ProcessedIsAccumulated ==
    \A r \in processed :
        LET e == raw[r]
        IN  /\ IsMetadata(e) => e.label \in issues[e.issue].metadata
            /\ IsAssignment(e) /\ AssignedInOrder(e.issue) =>
                 \A n \in Captured(e.assigned) :
                   LET periods == issues[e.issue].assignees.history[n]
                   IN  \E k \in DOMAIN periods :
                         /\ periods[k].assigned <= e.at
                         /\ \/ periods[k].unassigned = StillAssigned
                            \/ e.at <= periods[k].unassigned

\* Every document in issues.assignees is well formed whatever notes are repeated
\* or late: a name has one open period at most, and the current assignees are the
\* names that have one (assignees.go:103-179).
HistoriesWellFormed == \A i \in Issue : WellFormedHistory(issues[i].assignees)

\* The entries of a name follow each other in time: none ends before it begins or
\* after the next one begins, and only the last one may be open.
InOrder(periods) ==
    /\ \A k \in DOMAIN periods :
          periods[k].unassigned # StillAssigned => periods[k].assigned <= periods[k].unassigned
    /\ \A j, k \in DOMAIN periods :
          j < k => /\ periods[j].unassigned # StillAssigned
                   /\ periods[j].unassigned <= periods[k].assigned

\* The periods in a document are in order, so that the Gold view can measure them,
\* as long as the assignments of the issue came once and in order and no failed
\* statement, killed run or missing project makes one be transformed late or again
\* (assignees.go:153-179).
PeriodsInOrder ==
    (crashes = 0 /\ errors = 0) =>
        \A i \in Issue : ProjectOf[i] \in SilverAtStart /\ AssignedInOrder(i) =>
            \A n \in Name : InOrder(issues[i].assignees.history[n])

\* "Idempotente (rodar 2x nao duplica Silver)" (implementation-roadmap.md:513):
\* the periods of a name in a document begin at different times
\* (assignees.go:133: only a period that is open is seen to be there already).
PeriodsOnce ==
    \A i \in Issue, n \in Name :
        LET periods == issues[i].assignees.history[n]
        IN  \A j, k \in DOMAIN periods : periods[j].assigned = periods[k].assigned => j = k

-----------------------------------------------------------------------------
(* Liveness.                                                               *)

\* Every raw event is eventually processed: neither a batch full of failing
\* rows, nor a failed statement or a crash, starves one for ever.
EventuallyProcessed ==
    \A r \in 1 .. MaxRaw : (r \in DOMAIN raw) ~> (r \in processed)

\* TransformAll "processes all unprocessed raw events in batches until none
\* remain" (service.go:119): a raw event of a project that Silver knows is
\* eventually processed.
KnownProjectsDrain ==
    \A r \in 1 .. MaxRaw :
        (r \in DOMAIN raw /\ ProjectOf[raw[r].issue] \in silverProjects)
            ~> (r \in processed)
=============================================================================
