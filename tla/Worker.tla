------------------------------- MODULE Worker -------------------------------
(***************************************************************************)
(* The worker process with its scheduler (cmd/worker/main.go, internal/    *)
(* scheduler/scheduler.go) beside a backfill (cmd/backfill/main.go) on the *)
(* same database: which job runs when, what a job does with the failure of *)
(* one of its stages, and what a shutdown waits for.                       *)
(*                                                                         *)
(* A stage is a whole call of discovery, extraction or transformation and  *)
(* takes effect when it ends, by what the modules of these components show *)
(* of it.  All that happens in a project is one fact.                      *)
(***************************************************************************)
EXTENDS Config, FiniteSets

CONSTANTS
    Project,         \* the projects of the configured groups
    CronJob,         \* the cron jobs that may run at once
    SlotsPerHour,    \* slots of the clock per hour; peak syncs are due in each
    Deployment,      \* names of configurations
    EnvironmentOf,   \* Deployment -> the settings of its container
    MaxSetbacks      \* bound on failed stages, signals and kills

ASSUME WorkerAssumption ==
    /\ SlotsPerHour \in Nat \ {0}
    /\ \A d \in Deployment : DOMAIN EnvironmentOf[d] = Key
    /\ MaxSetbacks \in Nat

Runner == CronJob \cup {"startup", "backfill"}
Stage == {"idle", "discover", "extract", "transform"}
Entry == {"peak", "offpeak", "discovery"}

VARIABLES
    deployment,      \* which of the configurations it is
    clock,           \* the slot of the day
    process,         \* the worker: "down", "refused", "up" or "stopping"
    fired,           \* the cron entries due in this slot whose job has not begun
    stage,           \* per runner: what it is doing
    seen,            \* per runner: what the stage has read
    present,         \* the projects in which something has happened
    rawProjects,     \* the rows of raw_projects
    projects,        \* the rows of projects
    bronze,          \* the projects whose fact is in raw_events
    silver,          \* the projects whose fact is in Silver
    sinceSync,       \* slots since a sync began, or the worker was started
    setbacks,        \* how many stages, processes and statements have failed
    owed,            \* history, per runner: what its sync has to deliver
    missed           \* history: the projects of issues an extraction gave up

database == <<rawProjects, projects, bronze, silver>>
jobs == <<stage, seen, owed>>
vars == <<deployment, clock, process, fired, jobs, present, database, sinceSync,
          setbacks, missed>>

SlotsPerDay == 24 * SlotsPerHour
Hour(slot) == (slot \div SlotsPerHour) % 24

TypeOK ==
    /\ deployment \in Deployment
    /\ clock \in 0 .. SlotsPerDay - 1
    /\ process \in {"down", "refused", "up", "stopping"}
    /\ fired \subseteq Entry /\ (fired # {} => process # "down")
    /\ stage \in [Runner -> Stage]
    /\ seen \in [Runner -> SUBSET Project]
    /\ owed \in [Runner -> SUBSET Project]
    /\ rawProjects \cup projects \cup present \cup missed \subseteq Project
    /\ bronze \subseteq present /\ silver \subseteq bronze
    /\ sinceSync \in 0 .. SlotsPerDay
    /\ setbacks \in 0 .. MaxSetbacks

Init ==
    /\ deployment \in Deployment
    /\ clock \in {0, 8 * SlotsPerHour}
    /\ process = "down"
    /\ fired = {}
    /\ stage = [r \in Runner |-> "idle"]
    /\ seen = [r \in Runner |-> {}]
    /\ owed = [r \in Runner |-> {}]
    /\ present = {} /\ rawProjects = {} /\ projects = {} /\ bronze = {} /\ silver = {}
    /\ sinceSync = 0 /\ setbacks = 0 /\ missed = {}

Setback == setbacks < MaxSetbacks /\ setbacks' = setbacks + 1
Ok == UNCHANGED setbacks

-----------------------------------------------------------------------------
(* The environment.                                                        *)

Happen(p) ==
    /\ p \notin present
    /\ present' = present \cup {p}
    /\ UNCHANGED <<deployment, clock, process, fired, jobs, database, sinceSync, setbacks,
                   missed>>

\* The entries due in a slot by the default schedules.
Due(slot) ==
    {"peak"}
    \cup (IF slot % (4 * SlotsPerHour) = 0 THEN {"offpeak"} ELSE {})
    \cup (IF slot % (6 * SlotsPerHour) = 0 THEN {"discovery"} ELSE {})

\* Mutated forms: cron runs whatever becomes of the worker; nobody calls Stop.
FiresAlways(slot) == Due(slot)

FiresUntilExit(slot) == IF process \in {"up", "stopping"} THEN Due(slot) ELSE {}

\* What cron starts in a slot; nothing once Stop has been called.
Fires(slot) == IF process = "up" THEN Due(slot) ELSE {}

\* The next slot; cron starts a goroutine for every entry that is due.
Tick ==
    /\ fired = {}
    /\ clock' = (clock + 1) % SlotsPerDay
    /\ fired' = Fires(clock')
    /\ sinceSync' = IF process = "up" /\ sinceSync < SlotsPerDay THEN sinceSync + 1
                                                                 ELSE sinceSync
    /\ UNCHANGED <<deployment, process, jobs, present, database, setbacks, missed>>

-----------------------------------------------------------------------------
(* Jobs.                                                                   *)

Settings == Load(EnvironmentOf[deployment])

\* What a stage is certain to deal with when it begins: rows of raw_events whose
\* project has no Silver row fail, and may keep the others waiting.
Reads(s) == CASE s = "extract" -> rawProjects \cap present
              [] s = "transform" -> IF bronze \subseteq projects THEN bronze ELSE {}
              [] OTHER -> {}

BeginStage(r, s) ==
    /\ stage' = [stage EXCEPT ![r] = s]
    /\ seen' = [seen EXCEPT ![r] = Reads(s)']

\* Mutated form: Silver is brought up to date before Bronze.
SyncStagesSwapped == <<"transform", "extract">>

\* The stages of a sync.
SyncStages == <<"extract", "transform">>

NextStage(s) == IF s = SyncStages[1] THEN SyncStages[2] ELSE "idle"

\* A runner begins with stage s; a sync owes what there is to extract.
Begin(r, s) ==
    /\ stage[r] = "idle"
    /\ BeginStage(r, s)
    /\ owed' = [owed EXCEPT ![r] = IF s = "discover" THEN {} ELSE Reads("extract")]

\* A rate and a maximum of retries that let requests through; the backfill
\* makes its own client.
Reachable(r) ==
    CanRequest(IF r = "backfill" THEN BackfillRate(Settings)
                                 ELSE Settings["GITLAB_RATE_LIMIT"].value,
               Settings["GITLAB_RETRY_MAX"].value)

\* isPeakHour
IsPeakHour(h) == 8 <= h /\ h < 20

\* Mutated form: the check of the peak entry, copied.
RunsCopied(entry, h) == entry = "discovery" \/ IsPeakHour(h)

\* Whether the job of an entry goes on when it finds that it is hour h.
Runs(entry, h) ==
    CASE entry = "peak" -> IsPeakHour(h)
      [] entry = "offpeak" -> ~IsPeakHour(h)
      [] entry = "discovery" -> TRUE

\* A started function of cron is one of these until it returns.
ActiveCronJobs == {j \in CronJob : stage[j] # "idle"}

\* The function of a cron entry looks at the clock itself, perhaps so late that
\* the next slot has come, and returns or goes on.
RunEntry(entry) ==
    /\ entry \in fired
    /\ UNCHANGED <<deployment, clock, process, present, database, setbacks, missed>>
    /\ fired' = fired \ {entry}
    /\ \E slot \in {clock, clock + 1} :
        \/ /\ ~Runs(entry, Hour(slot))
           /\ UNCHANGED <<jobs, sinceSync>>
        \/ /\ Runs(entry, Hour(slot))
           /\ ActiveCronJobs # CronJob
           /\ Begin(CHOOSE j \in CronJob : j \notin ActiveCronJobs,
                    IF entry = "discovery" THEN "discover" ELSE SyncStages[1])
           /\ sinceSync' = IF entry = "discovery" THEN sinceSync ELSE 0

\* The end of a discovery.  One group that cannot be listed fails it as a whole,
\* and with it the backfill; a project that cannot be written is passed over.
Discover(r) ==
    LET grouped == Settings["GITLAB_GROUP_IDS"] # Blank
        listed == IF grouped /\ Reachable(r) THEN Project ELSE {}
        Succeed == BeginStage(r, IF r = "backfill" THEN SyncStages[1] ELSE "idle")
        GiveUp == BeginStage(r, "idle")
    IN  /\ stage[r] = "discover"
        /\ UNCHANGED <<deployment, clock, process, fired, present, bronze, silver, sinceSync,
                       missed>>
        /\ \/ /\ Ok
              /\ rawProjects' = rawProjects \cup listed /\ projects' = projects \cup listed
              /\ IF grouped /\ ~Reachable(r) THEN GiveUp ELSE Succeed
           \/ /\ Setback
              /\ \E some \in SUBSET listed : \E both \in SUBSET some :
                    rawProjects' = rawProjects \cup some /\ projects' = projects \cup both
              /\ GiveUp \/ Succeed
        /\ owed' = [owed EXCEPT ![r] = IF stage'[r] = "idle" THEN {} ELSE Reads("extract")']

\* The end of ExtractAll.  After a failure of a request or an insert an issue
\* may be given up, and no later cycle is certain to come back to it; after
\* another failure its project waits for the next cycle.  The error is logged
\* and the transformation begins all the same.
Extract(r) ==
    /\ stage[r] = "extract"
    /\ UNCHANGED <<deployment, clock, process, fired, present, rawProjects, projects, silver,
                   sinceSync>>
    /\ \E more \in SUBSET (rawProjects \cap present), lost \in SUBSET seen[r] :
        \/ /\ Ok /\ Reachable(r)
           /\ bronze' = bronze \cup (seen[r] \ missed) \cup more
           /\ owed' = [owed EXCEPT ![r] = IF bronze' \subseteq projects THEN @ ELSE {}]
           /\ UNCHANGED missed
        \/ /\ Setback \/ (Ok /\ ~Reachable(r) /\ more \cup lost = {})
           /\ bronze' = bronze \cup more
           /\ missed' = missed \cup lost
           /\ owed' = [owed EXCEPT ![r] = {}]
    /\ BeginStage(r, NextStage("extract"))

\* The end of TransformAll.
Transform(r) ==
    /\ stage[r] = "transform"
    /\ UNCHANGED <<deployment, clock, process, fired, owed, present, rawProjects, projects, bronze,
                   sinceSync, missed>>
    /\ \E more \in SUBSET (bronze \cap projects) :
        \/ Ok /\ silver' = silver \cup seen[r] \cup more
        \/ Setback /\ silver' = silver \cup more
    /\ BeginStage(r, NextStage("transform"))

RunnerStep(r) == Discover(r) \/ Extract(r) \/ Transform(r)

-----------------------------------------------------------------------------
(* The worker process.                                                     *)

\* Load, the connection and the mappings; then cron and a first discovery.
Boot ==
    /\ process = "down"
    /\ UNCHANGED <<deployment, clock, fired, present, database, missed>>
    /\ \/ /\ Ok
          /\ IF Loads(EnvironmentOf[deployment]) /\ Settings["schedules"] # Words
               THEN process' = "up" /\ Begin("startup", "discover")
               ELSE process' = "refused" /\ UNCHANGED jobs
       \/ Setback /\ UNCHANGED <<process, jobs>>
    /\ sinceSync' = 0

\* SIGINT or SIGTERM: cron starts nothing more.
Signal ==
    /\ process = "up"
    /\ Setback
    /\ process' = "stopping"
    /\ UNCHANGED <<deployment, clock, fired, jobs, present, database, sinceSync, missed>>

\* The runners in R end with their process, each stage with a part of its work
\* done.
EndRunners(R) ==
    LET doing(s) == \E r \in R : stage[r] = s
        without(f, none) == [r \in Runner |-> IF r \in R THEN none ELSE f[r]]
    IN  /\ stage' = without(stage, "idle")
        /\ seen' = without(seen, {})
        /\ owed' = without(owed, {})
        /\ \E got \in SUBSET (rawProjects \cap present) :
             bronze' = IF doing("extract") THEN bronze \cup got ELSE bronze
        /\ \E got \in SUBSET (bronze \cap projects) :
             silver' = IF doing("transform") THEN silver \cup got ELSE silver
        /\ UNCHANGED <<rawProjects, projects>>

EndProcess ==
    /\ EndRunners(Runner \ {"backfill"})
    /\ process' = "down" /\ fired' = {}
    /\ UNCHANGED <<deployment, clock, present, sinceSync, missed>>

\* The context of Stop is done: no function of a cron entry is running.
CronHasStopped == fired = {} /\ ActiveCronJobs = {}

Exit ==
    /\ process = "stopping" /\ CronHasStopped
    /\ EndProcess
    /\ Ok

\* After 30 seconds main returns all the same, or the process is killed.
ForcedExit ==
    /\ process \in {"up", "stopping"}
    /\ Setback
    /\ EndProcess

\* Somebody runs a backfill, with the same settings.
StartBackfill ==
    /\ process # "down" /\ Loads(EnvironmentOf[deployment])
    /\ UNCHANGED <<deployment, clock, process, fired, present, database, sinceSync, setbacks,
                   missed>>
    /\ Begin("backfill", "discover")

KillBackfill ==
    /\ stage["backfill"] # "idle"
    /\ UNCHANGED <<deployment, clock, process, fired, present, sinceSync, missed>>
    /\ Setback
    /\ EndRunners({"backfill"})

Next ==
    \/ Tick \/ Boot \/ Signal \/ Exit \/ ForcedExit \/ StartBackfill \/ KillBackfill
    \/ \E p \in Project : Happen(p)
    \/ \E entry \in Entry : RunEntry(entry)
    \/ \E r \in Runner : RunnerStep(r)

Spec == Init /\ [][Next]_vars

\* Time passes, the container is restarted, what cron starts begins, and of the
\* jobs under way one goes on (none is promised to: the others may overtake it).
FairSpec ==
    /\ Spec
    /\ WF_vars(Tick) /\ WF_vars(Boot \/ Exit)
    /\ WF_vars(\E entry \in Entry : RunEntry(entry))
    /\ WF_vars(\E j \in CronJob : RunnerStep(j))

-----------------------------------------------------------------------------
(* Properties.                                                             *)

\* Freshness (docs/DATA_CONTRACT.md:166): a worker that is up begins a sync in
\* every slot of the peak hours, or the one after when a job begins late, and
\* every four hours otherwise; the two entries, each of which checks the hour
\* by itself, leave no gap at 8 and at 20 (scheduler.go:45-66, 120).
SyncsAreFrequent ==
    process = "up" /\ fired = {} =>
        sinceSync <= IF IsPeakHour(Hour(clock)) THEN 1 ELSE 4 * SlotsPerHour

\* A sync that ends without a failure has brought everything that was in GitLab
\* when it began to Silver, whatever else runs (main.go:149-160): except what
\* an earlier cycle gave up, and unless rows without a Silver project are in the
\* way.
SyncDelivers ==
    [][\A r \in Runner :
         /\ stage[r] # "idle" /\ stage'[r] = "idle"
         /\ process' = process /\ setbacks' = setbacks
         => owed[r] \subseteq silver' \cup missed]_vars

\* Settings with which the worker can do its work, each in either of its forms.
Sensible(s) ==
    LET given(k) == IF s[k].var # Blank THEN s[k].var ELSE s[k].file
    IN  /\ given("GITLAB_RATE_LIMIT") # Number(0) /\ given("GITLAB_RETRY_MAX") # Number(-1)
        /\ given("GITLAB_GROUP_IDS").kind = "number"
        /\ given("strings") # Blank /\ given("POSTGRES_PORT").kind = "number"
        /\ \A k \in Key \ {"strings", "schedules"} : given(k) \notin {Words, Error}
        /\ given("schedules") # Words

\* After a signal the worker ends, also when nothing makes it: jobs that are due may
\* still begin, and with each end of one there is one less until Stop's context is
\* done; the 30 seconds are for jobs that are slow, not for ones that never run out
\* (main.go:243-250).
ShutdownEnds == (process = "stopping") ~> (process # "stopping")

\* What happens in GitLab reaches Silver, through restarts, failures of any
\* stage and with settings from files and variables, unless it was given up.
EventuallyInSilver ==
    \A p \in Project :
        (Sensible(EnvironmentOf[deployment]) /\ p \in present) ~> (p \in silver \/ p \in missed)
=============================================================================
