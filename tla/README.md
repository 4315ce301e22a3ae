# gitlab-elt: a TLA+ verification project

gitlab-elt copies the label events and notes of GitLab issues into PostgreSQL
(Bronze), turns them into a history of canonical states (Silver) and offers SQL
views over it (Gold). This directory holds TLA+ models of the parts of the
program where order, overlap and failure decide whether the history is right,
TLC configurations that check them on small instances, and TLAPS proofs of the
main safety properties for instances of any size.

Paths below are relative to the repository.

## 1. Inventory

| Component | State it keeps | Operations | What makes it correct |
|---|---|---|---|
| Extractor (`internal/sync/extractor.go`) | `raw_events`, `raw_issues`, the cursors `raw_projects.last_synced_at` and `projects.last_synced_at` | ExtractAll, ExtractProject | nothing falls behind a cursor; the events of an issue reach Bronze in order |
| Discovery (`internal/discovery/service.go`) | the rows of `raw_projects` and `projects`, the same two cursors | Run, fetchAllGroupProjects, persistProject | each project gets both rows; no cursor is taken back |
| GitLab client (`internal/gitlab/client.go`) | rate limiter | getPaginated, doGet, four listings | pages are taken in turn; a listing that succeeds is complete; errors have a cause; it ends |
| Transformer (`internal/transformer/service.go`) | `raw_events.processed`, `issues`, `issue_events`, `issue_comments`, `unknown_labels_log` | TransformAll, TransformBatch, one handler per kind of event | no silent loss, no double counting, cache and documents agree with the history, everything is processed in the end |
| Edge-case rules (`edge_cases.go`) | none | detectNervousFinger, calculateCycleCount | noise and rework rounds are counted as documented |
| Assignee histories (`assignees.go`) | the document `issues.assignees` | applyAssigneeChange | periods well formed and chronological |
| State mapper (`internal/mapper`) | two caches, loaded once | LoadFromDB, MapLabel, MetadataKey | total; state rows win; spellings of one label agree |
| Scheduler (`internal/scheduler`) | cron entries | Start, Stop, isPeakHour | each hour belongs to one schedule; nothing starts after Stop |
| Worker and backfill (`cmd/`) | none | start-up discovery, sync = extraction then transformation, shutdown | syncs are frequent; each delivers what it read; a shutdown comes to its end |
| Configuration (`internal/config`) | none | Load | variables and files give the same settings; what is malformed refuses the start |
| Assignee reports (`db/migrations/000017`, `assignee_performance.sql.go`) | none (views, queries) | vw_assignee_cycle_time and the reports over it | hours are time in state; the reports agree up to rounding |
| Engineering views (`000013`-`000016`), project catalog | none (views, queries) | | |
| Health, metrics, telemetry | none that matters here | | |
| Dead-letter queue, `sync_state` | tables without a caller | | |

How they interact: everything goes through the database. Discovery creates the
rows of a project in both tables; the extractor reads the Bronze rows, appends
to `raw_events` and moves both cursors; the transformer reads the unprocessed
rows, writes Silver, whose foreign keys need the `projects` row, and marks them;
the Gold views are computed from Silver. The scheduler (`robfig/cron` without a
skip-if-running wrapper) calls the sync and the discovery function in a new
goroutine at every tick, so two syncs overlap when one takes longer than the
interval; `cmd/backfill` is a further process doing the same. No statement is
wrapped in a transaction with another.

What is hard: two runs over the same rows; read-modify-write of JSON documents;
pairs of writes that are two transactions; failures that are logged and passed
over; cursors that are read, carried along and written back much later; a queue
whose head can be blocked; GitLab changing under a paginated listing; settings
that pass the validation and stop the pipeline. `PROJECT.json` lists these
hazards at their lines.

## 2. Modules

| Module | Models |
|---|---|
| `Mapper` | LoadFromDB, MapLabel and MetadataKey |
| `EdgeCases` | the noise rule and the cycle counter |
| `Assignees` | the assignee document and what a note does to it |
| `BronzeEvents` | GitLab events as the transformer sees them, the effect each one has, the row it becomes, the statements on `issue_events` |
| `SilverLog` | abstract specification of `issue_events`: one transition at a time is classified against the log and recorded at most once |
| `Transformer` | TransformAll with overlapping runs, one SQL statement per step |
| `Gold` | the cycle-time view and the reports over it, as functions of the state of `Transformer` |
| `ProjectTables` | `raw_projects` and `projects`, one operator per statement |
| `Extractor` | ExtractAll with overlapping cycles, one request or statement per step, GitLab changing in between |
| `Discovery` | Run with overlapping passes, one listing or statement per step |
| `Ingestion` | `Extractor` and `Discovery` side by side on `ProjectTables` |
| `PagedListing` | abstract specification of getPaginated: pages taken one by one, or nothing |
| `GitlabClient` | getPaginated and doGet, one attempt per step, while the listing changes |
| `Config` | Load: sources, defaults, required and malformed values |
| `Worker` | the process, its scheduler and a backfill, with `Config`; a stage of a job is one step |
| `TransformerProofs` | theorems about `Transformer`: types, what is recorded, the cache |
| `HistoryProofs` | the assignee documents |
| `LogProofs` | the refinement of `SilverLog`, the cycle counter |
| `SequentialProofs` | one run at a time: the cache, labels and assignments, the rows of issues, the order of periods |
| `GoldProofs` | theorems about `Gold`: time in state and when it can be measured, the sums of the reports |
| `IngestionProofs` | theorems about `Ingestion`: types, cursors, the order of arrival |
| `GitlabClientProofs` | theorems about `GitlabClient` |
| `WorkerProofs` | theorems about `Worker` |
| `MCTransformer`, `MCGold`, `MCIngestion`, `MCGitlabClient`, `MCWorker` | small instances for TLC |

### Transformer and Gold

`raw` is `raw_events` in `fetched_at` order and `processed` the rows whose flag
is set. `issues` has, per issue, whether the row exists, the state cache, the
metadata labels and the assignee document; `events` is `issue_events` in order
of insertion; `comments` and `unknownLabels` are the keys of the other two
tables. Per run, `pc` is the statement it is about to execute and `batch`,
`row`, `done`, `snap`, `last` are the Go locals `events`, `raw`, `processedIDs`,
`issue` and `lastEvent`.

An action is one SQL statement with the Go code up to the next one, because a
statement is a transaction and the code in between touches only locals. Each has
the outcomes success and error; an error of a write leaves it open whether the
server applied it (the connection may die after the commit). `Crash` kills a run
between two statements. `Ingest` and `DiscoverProject` are the effect of
extraction and discovery. `Feed` says how events reach Bronze: `"in_order"`, as
`ArrivesInOrder` of `Ingestion` shows where no issue was passed over, or
`"any_order"`, as a failed insert makes possible.

The mapper's caches are constants, because a process loads them once and nothing
writes the tables afterwards; `MCTransformer` assumes that they are what
`LoadFromDB` makes of a list of rows, of which a later one wins.

`Gold` adds no state. `Rows`, `HoursOf`, `HoursIn` and `CycleTime` follow the
common table expressions of the view (periods, the LEFT JOIN, LEAD, LEAST and
GREATEST, which treat NULL as PostgreSQL does), and the reports sum its rows up.
Time comes in units of which `Hundredth` make 0.01 hours, and `Round` rounds each
column of a view row to hundredths, one by one as the view does, before the
reports sum them up; averages and percentiles are left out.

Data that no property is about is left out: names, titles, bodies, the raw issue
that ensureIssue copies a title from. A payload that does not parse cannot
occur, the extractor marshals it. A note is what the patterns of `assignees.go`
capture of it. The labels of all metadata keys are one set, a label having one
key.

### Ingestion

`present` and `updatedAt` are GitLab, which `Occur` changes at any time; `now` is
a clock in seconds that the worker and GitLab share (no skew is modelled). An
issue exists in GitLab from its first event on. `rawCursor` and `silverCursor`
are `last_synced_at` of the two tables, and the operators of `ProjectTables` say
what each statement does to them: `UpsertRawProject` keeps a cursor,
`UpsertProject` takes the greater one, `SyncProjectLastSynced` writes both or
none.

Per cycle the locals are those of ExtractAll and ExtractProject: the rows read at
the beginning (`todo`), `since`, the cursor-to-be `start`, the `page` to ask for,
`listed`, `labels`, `fetched`. Per pass they are those of Run and persistProject:
`groups`, `found`, `current`, and `silverSeen`, the Silver cursor that is read
two statements before it is written back. A request is one step whose failure
means that doGet has given up; a failed write may have been applied. Every step
may fail and every cycle and pass may be killed, `MaxSetbacks` times in all.

`missed` is a history variable: the issues that a cycle has passed over, because
a request or an insert for them failed, which is only logged, or because they
slipped between two pages. The properties except these issues; run
`ingestion_insert_error` shows why they must.

### GitLab client

A listing is a sequence of items, and `page`, `attempt`, `result` and `outcome`
are the locals of getPaginated and doGet. `Transient` is a 429, a server error or
a broken connection, `Refused` any other answer, `LimiterFails` a rate of zero.
Meanwhile GitLab creates, touches (which moves an issue to the end of a listing by
`updated_at`) and deletes items. `shifted` records that an item has left a page
already fetched. The length of the backoff is left out.

### Worker

Time is a slot of the day. `fired` are the cron entries that are due and whose
goroutine has not begun; the job checks the hour by itself, perhaps so late that
the next slot has come. A stage (`discover`, `extract`, `transform`) of a runner
ends in one step, with the effect that `Ingestion` and `Transformer` show of it:
what it saw when it began, and perhaps more, is dealt with; after a setback a part
of it; and a row whose project has no Silver row may keep the others waiting.
`setbacks` covers failed stages, signals, kills and a failed boot. What happens in
a project is one fact. `Deployment` names configurations, and the process starts
with what `Config` makes of the container's environment.

`CronJob` bounds the functions of cron that run at once; a job that finds all of
them taken begins later.

## 3. Runs

| Run | Instance | Shows |
|---|---|---|
| `transformer_runs` | 2 runs with batches of 1; 2 projects, 1 unknown at first; labels added and removed, an unknown and a metadata label, a comment; any order, 2 rows, also of the same event, 1 error in any statement, 1 crash | types, `ProcessedIsRecorded`, `RecordedOnce`, `CacheIsRecorded`, `SilverIsAppendOnly`; each row is eventually processed |
| `transformer_refinement` | 2 runs; rework round, noise and an unmapped label, in order | `Transformer` implements `SilverLog`; `cycle_count` counts returns from QA |
| `transformer_documents` | 1 run; 2 issues; assignment notes, transitions and metadata labels in order, 5 rows, 1 of them repeated, 1 crash; 3 units of time to a hundredth of an hour | documents and state cache lose nothing; periods are well formed, and in order; the view measures time in state; the reports agree over both issues; rows are not wiped |
| `ingestion_safety` | 2 cycles and a pass, 2 issues on a page each, 3 events, 3 seconds, 1 failure or kill anywhere | types, `NothingBehindCursor`, `ArrivesInOrder`, `SilverNotBehindBronze` |
| `ingestion_liveness` | 1 cycle and 1 pass at a time from an empty database, 2 groups with a common project, 1 failure or kill | each event is eventually in Bronze |
| `gitlab_client` | 4 items, 2 per page; maximum of retries -1, 0 and 2, rate 0 and 1; all endpoints | types, `Complete`, `OldestFirst`, `ErrorIsJustified`; the client implements `PagedListing`; each listing ends |
| `worker` | a cron job, start-up discovery and a backfill, days of 24 slots, 6 configurations, one of them partly in variables and partly in files, 2 setbacks | types, `SyncsAreFrequent`, `SyncDelivers`, `ShutdownEnds`, `EventuallyInSilver` |

Five more runs end in a counterexample; each contradicts a sentence of the
repository and is a finding in `PROJECT.json`:

| Run | What happens |
|---|---|
| `transformer_head_of_line` | rows that always fail fill the batch; later rows are never reached |
| `transformer_lookup_wipe` | a failed lookup becomes an upsert that overwrites the issue with NULLs |
| `transformer_replayed_notes` | notes that are fetched again open a second period of the assignee |
| `ingestion_insert_error` | a failed insert is skipped and the cursor moves past it |
| `gold_handed_over` | who is assigned an issue that is in progress gets no active hours for it |

Limits of the passing runs that are deliberate, each the cause of a further
counterexample that the models produce when it is lifted:

- `CacheIsLatestState` and `ProcessedIsAccumulated` are checked with one run at a
  time. Two overlapping runs may write the state cache in the wrong order, and
  one of two metadata labels can be lost (`updateIssueMetadata` reads, adds and
  writes back without a lock). They are checked without failed statements, too:
  the errors of these two writes are logged and the row is marked all the same.
- `Complete` excepts listings in which an item has left a page already fetched:
  an issue that is updated between two requests moves to the end of the listing,
  so that another one slips between the pages. `missed` has it in `Ingestion`.
- `CycleTimeIsTimeInState` is about periods in chronological order. `PeriodsInOrder`
  says when they are: the notes of the issue came once and in the order of their
  time, and no failure or kill made one of them be transformed late or again. A
  replayed unassignment may close a newer period before it began.
- `CycleTimeIsTimeInState` measures each period from the first transition within it
  (`Counted`), as the view does, where the documents promise the whole period:
  the view joins no transition from before the assignment and so does not know the
  state an issue had when it was assigned. `gold_handed_over` checks the documents'
  promise, `ActiveWorkIsCredited`.
- `ReportsAgree` lets development and QA hours miss the active ones by a hundredth
  per issue, in either direction: that much the view loses or gains by rounding its
  columns one by one (0.004 and 0.004 make 0.00 and 0.00, and 0.01 together).
- `CycleCountIsReworkRounds` takes a return from QA for two consecutive transitions,
  as the code does; a transition to UNKNOWN in between hides one from both.
- `raw` may hold an event many times in every run: the `ON CONFLICT DO NOTHING` of
  `db/query/raw_events.sql` has no unique key to conflict with, so each cycle that
  lists an issue stores its whole history again. That is why `RecordedOnce`
  matters.
- `EventuallyInSilver` asks for settings with which the worker can work. With
  `GITLAB_PROJECT_IDS` alone, a rate of 0 or a maximum of retries below 0, Load
  succeeds and nothing ever arrives; two of these configurations are in the run, for the other properties.

Bounds. `BatchSize` is 1 in `transformer_runs`, where two rows may wait: one of them
can fill the batch and fail again and again, as long as its project is unknown, and
the other one is behind it. `MaxRepeats` bounds the rows that repeat an earlier
event, apart from `MaxRaw`, so that distinct events have room as well. Two runs or cycles suffice for every pairwise race, and a third one only
repeats the role of one of them. The bound on `raw` leaves room for the events of
the instance, or for duplicates where they matter; one error or kill may strike
at any step. The clock of `Ingestion` has a second for events before a cycle, one
for events during it, and one after. Four items on pages of two give a listing
that ends with a full page and one that does not. A day of 24 slots passes both
changes between peak and off-peak hours, and the clock starts again after it.
The one cron job of `worker` overlaps with the start-up discovery and with all
stages of a backfill, as it would with another cron job; with two of them and one
setback the safety properties hold as well (850,000 states).
With `MaxRaw` reached no cycle starts, hence `CHECK_DEADLOCK FALSE` in
`ingestion_safety`; `ingestion_liveness` leaves room for two more extractions of
all events. Symmetry is used over runs and cycles only, and only in runs without
liveness properties.

Fairness. `RunFairness` of `Transformer` and the weak fairness of `CycleStep` and
`PassStep` say that cron goes on ticking and that a started call goes on: each
request has a client timeout and a bounded number of retries, and no lock is held
across statements. `DiscoveryFairness` says that discovery, run on its own
schedule, finds each project that a configured group lists;
`transformer_head_of_line` leaves it out, which is a project that is listed no
longer or whose Silver upsert fails. `GitlabClient` is fair to the client's own
steps only, as every attempt ends by the HTTP timeout; that a listing ends needs
the listing to be finite. `Worker` is fair to time, to the restart of the
container, to goroutines that cron has started, and to one of the cron jobs under
way; to no particular one, and not to the backfill or the start-up discovery.

Each property of a passing run has a mutant in `PROJECT.json`: a plausible bug
in one of the modelled definitions under which TLC finds the property violated.

## 4. Proofs

The theorems hold for all values of the constants that satisfy the named
assumptions of the modules (`MapperAssumption`, `ThresholdAssumption`,
`MentionAssumption`, `EventAssumption`, `TransformerAssumption`, `GoldAssumption`;
`TablesAssumption`, `ExtractorAssumption`, `DiscoveryAssumption`;
`ClientAssumption`; `WorkerAssumption`), and for those that a theorem names
itself.

`TransformerProofs`, for any number of runs, rows, issues and failures:

- `TypeCorrect`: `TypeOK`. The inductive invariant `TypeInv` adds `Located`: a
  run inside a handler has a row, and the row's event is of the kind the
  statement belongs to. Without it nothing is known of `raw[row[t]]`.
- `AppendOnly`: `SilverIsAppendOnly`, from the fact that `InsertIssueEvent` only
  extends the log (`InsertTyped`, `Grows`).
- `NoSilentLoss`: `ProcessedIsRecorded`. It is not inductive: between the insert
  and the mark, the fact lives in a run's `processedIDs`. `RecordedInv` says it
  of `processed`, of every run's `done`, and of the runs that are about to write
  the cache; each action keeps it because what is recorded stays recorded.
- `CountedOnce`: `RecordedOnce`, inductive with `TypeInv`.
- `CacheBehindLog`: `CacheIsRecorded`, inductive with the part of `RecordedInv`
  about the runs that are about to write the cache.

`HistoryProofs`:

- `DocumentsStayWellFormed`: `HistoriesWellFormed`. A run writes over the document
  the one it computed from the copy that ensureIssue returned, which may be out
  of date. `DocumentsInv` therefore says it of these copies as well; the lemmas
  before it follow handleAssigned and handleUnassigned through one note. Nothing
  else is needed: not the order of the notes, and no limit on overlap or failure.
  `DocumentsKept` says this once for any set of documents that is closed under notes.

`LogProofs`, for any number of overlapping and crashing runs, while nothing fails:

- `ImplementsSilverLog`: the refinement of `SilverLog`. GetLastIssueEvent and
  InsertIssueEvent are two statements, and the abstract log classifies a
  transition against the event that is the latest at the insert. `OrderInv` says
  why no other run comes between: each takes the rows in the order of Bronze and
  leaves none behind (`TakesInOrder`), so what comes before the row is in the log
  already, and a run that is at a later row has put this one there; what a run has
  read stays the latest until its row is in the log (`ReadsCurrent`).
- `ImplementsSilverLogFromStart`: the same for `MaxErrors = 0` and
  `SilverAtStart = Project`, from the constants alone.
- `CyclesAreReworkRounds`: `CycleCountIsReworkRounds` where the log of each issue is
  in the order of time. The code reads one row, the latest that is not noise.
  `CountsRounds` relates the counter of every row to the returns before it, and
  `RoundsAppend` says that one more row changes no earlier count and adds one
  return or none.
- `CyclesAreReworkRoundsInOrder`: with `Feed = "in_order"` and events whose ids
  ascend with their times the log is in the order of time, whatever overlaps:
  `DeliveredInv` says that an event in Bronze or in the log has all earlier
  transitions of its issue there too.

The premise is `NothingFails`: no statement has failed, and the project of each
row in `raw` is in Silver. It cannot be dropped, since a row whose statement fails
or which the foreign key rejects stays unprocessed, and a later row passes it; nor
is it vacuous, as `ImplementsSilverLogFromStart` shows. Crashes are allowed.

`SequentialProofs`, for one run at a time (`OneRun`), as in `transformer_documents`;
two runs do lose updates (section 3):

- `RowsOfIssuesSurvive`: `IssueRowsSurvive`, while there are no errors. `RowsInv`
  says that what the run knows of the row is what is there, so that the stub of
  ensureIssue meets no row, and each document is written over the one it was
  computed from.
- `CacheStaysLatest`: `CacheIsLatestState`. `CacheInv` says it of every issue but
  the one whose state the run is about to write, and there it says what will be
  written. It does not need the property's premise that the transitions came in
  the order of time.
- `ProcessedStaysAccumulated`: `ProcessedIsAccumulated`, while nothing fails.
  Between the write and the mark a row is in the run's `processedIDs`, and a crash
  forgets them: its rows are transformed again, over documents that have them
  already. `PrefixInv` says that the rows are covered in the order of Bronze, and
  that those a run has in its hands come next. `AccumulatedInv` says that an
  assignment is in a period of its name as long as its row is covered, and also
  while a newer period of the name is open, since a note that is transformed once
  more adds nothing then; and that each period was begun by a note of Bronze.
- `PeriodsStayInOrder`: `PeriodsInOrder`. `TimesInv` says that, until a run is
  killed, a document knows no other times than those of notes that are covered.
  By `PrefixInv` the next note to be covered comes behind them in Bronze; where
  notes came in order it is newer, so that it begins its period after the last
  one, and ends only a period that began before it (`ApplyInOrder`). A kill lifts
  this: its notes are covered no longer, and the document knows their times.

`GoldProofs`, for any issues, notes and transitions in any order:

- `ReportsTellOneStory`: `ReportsAgree`, of any finite number of issues. That sums of
  any size are equal calls for an induction; the lemmas on sums rule out a smallest
  counterexample instead, by the well-foundedness of the naturals and of the subsets
  of a finite set. `SumsExist` and `SumsUnique` say that the recursion `SumOf` is
  defined by has one solution, `SumsAddUp` that the order of the rows makes no
  difference, `TotalOfSum` and `TotalOfUnion` how sums combine, and `SumOfIs` what
  becomes of a NULL. `RoundedSum` says that two rounded numbers miss their rounded
  sum by one at most, and that only a positive number is rounded to one;
  `TotalWithin` adds up what the rows miss (`FitsTogether`), and `TotalPositive`
  finds the row that contributed. Active and wait hours make up the total exactly,
  because the query computes the wait hours from the rounded columns.
- `HoursAreTimeInState`: `CycleTimeIsTimeInState`. `Moments` are the moments between
  a row's transition and the one LEAD finds: they are as many as its hours
  (`MomentsAre`), no moment belongs to two rows (`MomentsDisjoint`, because of two
  rows one follows the other), and a moment belongs to a row of state s exactly if
  the latest transition of the period was to s (`CountedIsInState`,
  `InStateIsCounted`; the second one needs the periods to follow each other, since
  LEAD looks at the rows of all of them). `TotalOfSizes` turns the sum of the hours
  into the size of the union. Up to here the state is that of the latest transition
  within the period; `SameState` says that it is the state of the issue, because
  what comes before the period is older, and `InStateIsState` that the moments are
  those of `Counted`. The inductive part is `DocumentsIn(BoundedDocuments)`:
  no period ends in the future.
- `NotesInOrderCanBeMeasured`: the premise `Chronological` of the property above is
  true of every issue whose notes came once and in order, for one run at a time,
  while nothing fails and no run is killed. It follows from `TimesInv`, and from
  the end of an open period, which is after its beginning.

`IngestionProofs`, for any number of projects, issues, cycles and passes:

- `TypeCorrect`: `TypeOK`, inductive by itself.
- `SilverKeepsUp`: `SilverNotBehindBronze`. `CursorsInv` adds that the Bronze
  cursor of a project that lacks one of its rows is at the epoch, so that
  discovery may insert the other row with any time.
- `NoEventLeftBehind`: `NothingBehindCursor`. A cursor may be written from a time
  that was read long before, so `CoverInv` says of every such time that it is
  `Safe`: not in the future, and all that happened before it is in Bronze or
  passed over. These are the rows a cycle has read, its `since` and a pass's
  `silverSeen`; they stay safe because an event that occurs gets the time of its
  step (`Monotone`, `SafeStable`). `start` becomes safe in the course of a cycle:
  `Pending` follows each event from the listing through the fetching to the
  insert (`ListIssuesCovers` to `InsertRawEventCovers`), and when nothing is left
  in the cycle's hands it may be written (`StartIsSafe`).
- `EventsArriveInOrder`: `ArrivesInOrder`. Each cycle inserts a copy of the history
  of its own. `ArrivalInv` says that histories are fetched from their beginning
  (`Complete`) and that what comes before an event yet to be inserted is to be
  inserted by the same cycle first, or is in Bronze, or was passed over
  (`Arriving`). Then the first row of an event cannot precede that of an earlier one.

`GitlabClientProofs`, for listings of any length and every page size, rate and
maximum of retries:

- `TypeCorrect`: `TypeOK`, from `TypeInv`.
- `FailsForCause`: `ErrorIsJustified`. `ErrorInv` counts a failure for every
  attempt but the first.
- `PagesInTurn`: `TakesPagesInTurn`, the refinement of `PagedListing`: each attempt
  is a step of it or a stutter.
- `Completeness`: `Complete`. `CompleteInv` says that while a request is under way
  each expected item has been received or is still ahead of the page, unless
  `shifted`.
- `HistoriesInOrder`: `OldestFirst`. `OrderInv` adds that nothing is listed twice
  and that what was received is not ahead any more.

`WorkerProofs`, for any number of cron jobs and projects, any configurations and
any number of slots in an hour:

- `TypeCorrect`: `TypeOK`. `TypeInv` adds what the tables have to do with each
  other: Silver is within Bronze, Bronze within GitLab, and what a stage has read
  is still there when it ends.
- `DeliversWhatItOwes`: `SyncDelivers`. What a sync owes is in Bronze once its
  extraction has ended, and what it transforms is in Silver in the end.
- `StaysFresh`: `SyncsAreFrequent`. A job of the peak entry may come so late that it
  finds the hour after 19 and does nothing. `Cadence` relates the time since the
  last sync to the clock and to what is due: at the change to off-peak hours at
  most one slot has passed, the off-peak entry is due in that slot, and later its
  phase bounds the time.

Only model-checked:

- the liveness properties, as fairness and ENABLED are out of the prover's reach.

## 5. Not modelled

- The engineering views (`000013`, `000016`), the materialized ghost-work view
  (`000015`) and the project catalog: read-only SQL that no statement of the
  program reads.
- The monthly report of `assignee_performance.sql.go`, and averages and percentiles
  in the others.
- The OpenTelemetry settings of `config.go`, metrics, telemetry and the health
  endpoints: nothing of the pipeline depends on them.
- The dead-letter queue, `sync_state` and the statements without a caller.
- Clock skew between GitLab and the worker, and time zones: the peak hours are
  documented in UTC (`docs/DATA_CONTRACT.md:166`), while `isPeakHour` and cron take
  the local time of the worker, which is UTC in a container that sets no zone. The
  model has one clock.
- What the transport does with an issue that a listing returns twice: `ListIssues`
  gives a set. The second fetch of its history would add copies of rows, as the next
  cycle does anyway.

## 6. Plan

Done: every part of the pipeline from configuration to the assignee reports, and
a theorem for every safety property of a passing run.

Next, in this order:

1. The premise of `NotesInOrderCanBeMeasured` from the extractor's side: which
   schedules of cycles let the notes of an issue reach Bronze once.
2. The monthly report and the engineering views, as functions like those of `Gold`.
