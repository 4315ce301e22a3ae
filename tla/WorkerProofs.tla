---------------------------- MODULE WorkerProofs ----------------------------
(***************************************************************************)
(* Proofs about Worker, for every number of cron jobs, slots per hour,     *)
(* projects and settings.                                                  *)
(***************************************************************************)
EXTENDS Worker, TLAPS

-----------------------------------------------------------------------------
(* Type correctness.                                                       *)

DatabaseOK ==
    /\ rawProjects \subseteq Project /\ projects \subseteq Project
    /\ present \subseteq Project /\ missed \subseteq Project
    /\ bronze \subseteq present /\ silver \subseteq bronze

\* What a stage under way has read is there still, and a sync owes nothing that
\* it has not read or that was not given up.
StageOK(r) ==
    /\ stage[r] = "discover" => owed[r] = {}
    /\ stage[r] = "extract" =>
           seen[r] \subseteq rawProjects \cap present /\ owed[r] \subseteq seen[r]
    /\ stage[r] = "transform" =>
           seen[r] \subseteq bronze /\ owed[r] \subseteq seen[r] \cup missed

JobsOK ==
    /\ stage \in [Runner -> Stage]
    /\ seen \in [Runner -> SUBSET Project]
    /\ owed \in [Runner -> SUBSET Project]
    /\ \A r \in Runner : StageOK(r)

ClockOK ==
    /\ deployment \in Deployment
    /\ clock \in 0 .. SlotsPerDay - 1
    /\ process \in {"down", "refused", "up", "stopping"}
    /\ fired \subseteq Entry /\ (fired # {} => process # "down")
    /\ sinceSync \in 0 .. SlotsPerDay
    /\ setbacks \in 0 .. MaxSetbacks

TypeInv == DatabaseOK /\ JobsOK /\ ClockOK

LEMMA TypeInvType == TypeInv => TypeOK
BY DEF TypeInv, TypeOK, DatabaseOK, JobsOK, ClockOK

LEMMA InitType == Init => TypeInv
<1>. SUFFICES ASSUME Init PROVE DatabaseOK /\ JobsOK /\ ClockOK
    BY DEF TypeInv
<1>1. DatabaseOK
    BY DEF Init, DatabaseOK
<1>2. JobsOK
    BY DEF Init, JobsOK, StageOK, Stage
<1>3. ClockOK
    BY WorkerAssumption DEF Init, ClockOK, SlotsPerDay
<1>4. QED
    BY <1>1, <1>2, <1>3

\* What GitLab, Bronze and Silver have, and what was given up, stays.
Grows ==
    /\ rawProjects \subseteq rawProjects' /\ projects \subseteq projects'
    /\ present \subseteq present' /\ missed \subseteq missed'
    /\ bronze \subseteq bronze' /\ silver \subseteq silver'

LEMMA SameJobs ==
    ASSUME JobsOK, Grows, UNCHANGED jobs
    PROVE  JobsOK'
BY DEF JobsOK, StageOK, Grows, jobs

\* A runner goes to stage s, in which it owes o.
LEMMA BeginJobs ==
    ASSUME JobsOK, DatabaseOK', Grows, NEW r \in Runner, NEW s \in Stage, NEW o,
           BeginStage(r, s), owed' = [owed EXCEPT ![r] = o],
           o \subseteq Project, s = "discover" => o = {},
           s = "extract" => o \subseteq rawProjects' \cap present',
           s = "transform" => o \subseteq Reads("transform")' \cup missed'
    PROVE  JobsOK'
<1>0. /\ stage \in [Runner -> Stage] /\ seen \in [Runner -> SUBSET Project]
      /\ owed \in [Runner -> SUBSET Project]
    BY DEF JobsOK
<1>1. /\ stage' = [stage EXCEPT ![r] = s] /\ seen' = [seen EXCEPT ![r] = Reads(s)']
    BY DEF BeginStage
<1>2. /\ Reads("extract")' = rawProjects' \cap present'
      /\ Reads("transform")' \subseteq bronze'
      /\ s \notin {"extract", "transform"} => Reads(s)' = {}
    BY DEF Reads
<1>3. Reads(s)' \subseteq Project
    BY <1>2 DEF DatabaseOK
<1>. HIDE DEF Reads
<1>4. /\ stage' \in [Runner -> Stage] /\ seen' \in [Runner -> SUBSET Project]
      /\ owed' \in [Runner -> SUBSET Project]
    BY <1>0, <1>1, <1>3
<1>5. ASSUME NEW q \in Runner \ {r} PROVE StageOK(q)'
  <2>1. stage'[q] = stage[q] /\ seen'[q] = seen[q] /\ owed'[q] = owed[q]
      BY <1>0, <1>1
  <2>2. QED
      BY <2>1 DEF JobsOK, StageOK, Grows
<1>6. StageOK(r)'
  <2>1. stage'[r] = s /\ seen'[r] = Reads(s)' /\ owed'[r] = o
      BY <1>0, <1>1
  <2>2. QED
      BY <1>2, <2>1 DEF StageOK
<1>7. QED
    BY <1>4, <1>5, <1>6 DEF JobsOK

\* Runners end with their process.
LEMMA EndJobs ==
    ASSUME DatabaseOK, JobsOK, NEW R \in SUBSET Runner, EndRunners(R), UNCHANGED <<present, missed>>
    PROVE  DatabaseOK' /\ JobsOK' /\ Grows
<1>0. /\ stage \in [Runner -> Stage] /\ seen \in [Runner -> SUBSET Project]
      /\ owed \in [Runner -> SUBSET Project]
    BY DEF JobsOK
<1>1. /\ \E got \in SUBSET (rawProjects \cap present) : bronze' \in {bronze, bronze \cup got}
      /\ \E got \in SUBSET (bronze \cap projects) : silver' \in {silver, silver \cup got}
      /\ UNCHANGED <<rawProjects, projects>>
    BY DEF EndRunners
<1>2. DatabaseOK' /\ Grows
    BY <1>1 DEF DatabaseOK, Grows
<1>3. /\ stage' = [r \in Runner |-> IF r \in R THEN "idle" ELSE stage[r]]
      /\ seen' = [r \in Runner |-> IF r \in R THEN {} ELSE seen[r]]
      /\ owed' = [r \in Runner |-> IF r \in R THEN {} ELSE owed[r]]
    BY DEF EndRunners
<1>4. /\ stage' \in [Runner -> Stage] /\ seen' \in [Runner -> SUBSET Project]
      /\ owed' \in [Runner -> SUBSET Project]
    BY <1>0, <1>3 DEF Stage
<1>5. ASSUME NEW r \in Runner PROVE StageOK(r)'
  <2>1. CASE r \in R
      BY <1>3, <2>1 DEF StageOK
  <2>2. CASE r \notin R
    <3>1. stage'[r] = stage[r] /\ seen'[r] = seen[r] /\ owed'[r] = owed[r]
        BY <1>3, <2>2
    <3>2. QED
        BY <1>2, <3>1 DEF JobsOK, StageOK, Grows
  <2>3. QED
      BY <2>1, <2>2
<1>6. QED
    BY <1>2, <1>4, <1>5 DEF JobsOK

\* The counters of a step.
LEMMA SetbacksTyped ==
    ASSUME ClockOK, Setback \/ Ok
    PROVE  setbacks' \in 0 .. MaxSetbacks
BY WorkerAssumption DEF ClockOK, Setback, Ok

\* The end of each stage.
LEMMA DiscoverType ==
    ASSUME TypeInv, NEW r \in Runner, Discover(r)
    PROVE  DatabaseOK' /\ JobsOK' /\ Grows /\ setbacks' \in 0 .. MaxSetbacks
<1>1. PICK all, some \in SUBSET Project :
          rawProjects' = rawProjects \cup all /\ projects' = projects \cup some
  <2>. DEFINE listed == IF Settings["GITLAB_GROUP_IDS"] # Blank /\ Reachable(r)
                          THEN Project ELSE {}
  <2>1. listed \subseteq Project
      OBVIOUS
  <2>2. \/ rawProjects' = rawProjects \cup listed /\ projects' = projects \cup listed
        \/ \E s \in SUBSET listed : \E both \in SUBSET s :
               rawProjects' = rawProjects \cup s /\ projects' = projects \cup both
      BY DEF Discover
  <2>. HIDE DEF listed
  <2>3. QED
      BY <2>1, <2>2
<1>2. UNCHANGED <<present, bronze, silver, missed>>
    BY DEF Discover
<1>3. DatabaseOK' /\ Grows
    BY <1>1, <1>2 DEF TypeInv, DatabaseOK, Grows
<1>4. PICK s \in {"idle", "extract"} : BeginStage(r, s)
    BY DEF Discover, SyncStages
<1>5. owed' = [owed EXCEPT ![r] = IF stage'[r] = "idle" THEN {} ELSE Reads("extract")']
    BY DEF Discover
<1>6. stage'[r] = s
    BY <1>4 DEF BeginStage, TypeInv, JobsOK
<1>7. PICK o : o = IF stage'[r] = "idle" THEN {} ELSE Reads("extract")'
    OBVIOUS
<1>8. o \subseteq rawProjects' \cap present'
    BY <1>7 DEF Reads
<1>9. owed' = [owed EXCEPT ![r] = o]
    BY <1>5, <1>7
<1>10. s \in Stage /\ o \subseteq Project
    BY <1>3, <1>8 DEF Stage, DatabaseOK
<1>11. JobsOK'
    BY <1>3, <1>4, <1>8, <1>9, <1>10, BeginJobs DEF TypeInv
<1>12. Setback \/ Ok
    BY DEF Discover
<1>13. QED
    BY <1>3, <1>11, <1>12, SetbacksTyped DEF TypeInv

LEMMA ExtractType ==
    ASSUME TypeInv, NEW r \in Runner, Extract(r)
    PROVE  DatabaseOK' /\ JobsOK' /\ Grows /\ setbacks' \in 0 .. MaxSetbacks
<1>0. /\ stage[r] = "extract" /\ seen[r] \subseteq rawProjects \cap present
      /\ owed[r] \subseteq seen[r] /\ owed[r] \subseteq Project /\ seen[r] \subseteq Project
      /\ owed \in [Runner -> SUBSET Project]
    BY DEF Extract, TypeInv, JobsOK, StageOK
<1>1. PICK more \in SUBSET (rawProjects \cap present), lost \in SUBSET seen[r] :
        \/ /\ Ok /\ bronze' = bronze \cup (seen[r] \ missed) \cup more
           /\ owed' = [owed EXCEPT ![r] = IF bronze' \subseteq projects THEN @ ELSE {}]
           /\ UNCHANGED missed
        \/ /\ Setback \/ Ok
           /\ bronze' = bronze \cup more
           /\ missed' = missed \cup lost
           /\ owed' = [owed EXCEPT ![r] = {}]
    BY DEF Extract
<1>2. UNCHANGED <<present, rawProjects, projects, silver>>
    BY DEF Extract
<1>3. DatabaseOK' /\ Grows
    BY <1>0, <1>1, <1>2 DEF TypeInv, DatabaseOK, Grows
<1>4. BeginStage(r, "transform")
    BY DEF Extract, NextStage, SyncStages
<1>5. PICK o : /\ owed' = [owed EXCEPT ![r] = o]
               /\ \/ o = {}
                  \/ /\ o = owed[r] /\ bronze' \subseteq projects'
                     /\ bronze' = bronze \cup (seen[r] \ missed) \cup more /\ missed' = missed
    BY <1>0, <1>1, <1>2
<1>6. o \subseteq Reads("transform")' \cup missed'
    BY <1>0, <1>5 DEF Reads
<1>7. o \subseteq Project /\ "transform" \in Stage
    BY <1>0, <1>5 DEF Stage
<1>8. JobsOK'
    BY <1>3, <1>4, <1>5, <1>6, <1>7, BeginJobs DEF TypeInv
<1>9. QED
    BY <1>1, <1>3, <1>8, SetbacksTyped DEF TypeInv

LEMMA TransformType ==
    ASSUME TypeInv, NEW r \in Runner, Transform(r)
    PROVE  DatabaseOK' /\ JobsOK' /\ Grows /\ setbacks' \in 0 .. MaxSetbacks
<1>0. seen[r] \subseteq bronze /\ owed \in [Runner -> SUBSET Project]
    BY DEF Transform, TypeInv, JobsOK, StageOK
<1>1. PICK more \in SUBSET (bronze \cap projects) :
          \/ Ok /\ silver' = silver \cup seen[r] \cup more
          \/ Setback /\ silver' = silver \cup more
    BY DEF Transform
<1>2. UNCHANGED <<owed, present, rawProjects, projects, bronze, missed>>
    BY DEF Transform
<1>3. DatabaseOK' /\ Grows
    BY <1>0, <1>1, <1>2 DEF TypeInv, DatabaseOK, Grows
<1>4. BeginStage(r, "idle")
    BY DEF Transform, NextStage, SyncStages
<1>5. PICK o : o = owed[r]
    OBVIOUS
<1>6. owed' = [owed EXCEPT ![r] = o] /\ o \subseteq Project /\ "idle" \in Stage
    BY <1>0, <1>2, <1>5 DEF Stage
<1>7. JobsOK'
    BY <1>3, <1>4, <1>6, BeginJobs DEF TypeInv
<1>8. QED
    BY <1>1, <1>3, <1>7, SetbacksTyped DEF TypeInv

\* A runner begins with a discovery or a sync.
LEMMA BeginType ==
    ASSUME TypeInv, NEW r \in Runner, NEW s \in {"discover", "extract"}, Begin(r, s),
           UNCHANGED <<present, database, missed>>
    PROVE  DatabaseOK' /\ JobsOK' /\ Grows
<1>1. DatabaseOK' /\ Grows
    BY DEF TypeInv, DatabaseOK, Grows, database
<1>2. PICK o : o = IF s = "discover" THEN {} ELSE Reads("extract")
    OBVIOUS
<1>3. BeginStage(r, s) /\ owed' = [owed EXCEPT ![r] = o]
    BY <1>2 DEF Begin
<1>4. /\ s = "discover" => o = {}
      /\ o \subseteq rawProjects' \cap present'
    BY <1>2 DEF Reads, database
<1>5. o \subseteq Project /\ s \in Stage
    BY <1>1, <1>4 DEF DatabaseOK, Stage
<1>6. JobsOK'
    BY <1>1, <1>3, <1>4, <1>5, BeginJobs DEF TypeInv
<1>7. QED
    BY <1>1, <1>6

\* A function of a cron entry returns, or becomes a job of its own.
LEMMA EntryType ==
    ASSUME TypeInv, NEW entry \in Entry, RunEntry(entry)
    PROVE  DatabaseOK' /\ JobsOK' /\ Grows /\ fired' \subseteq fired
           /\ sinceSync' \in {sinceSync, 0}
<1>1. UNCHANGED <<present, database, missed>> /\ fired' \subseteq fired
    BY DEF RunEntry
<1>2. CASE UNCHANGED <<jobs, sinceSync>>
  <2>1. DatabaseOK' /\ Grows
      BY <1>1 DEF TypeInv, DatabaseOK, Grows, database
  <2>2. QED
      BY <1>1, <1>2, <2>1, SameJobs DEF TypeInv
<1>3. CASE /\ ActiveCronJobs # CronJob
           /\ Begin(CHOOSE j \in CronJob : j \notin ActiveCronJobs,
                    IF entry = "discovery" THEN "discover" ELSE SyncStages[1])
           /\ sinceSync' = IF entry = "discovery" THEN sinceSync ELSE 0
  <2>. DEFINE j == CHOOSE j \in CronJob : j \notin ActiveCronJobs
  <2>1. PICK k : k = j
      OBVIOUS
  <2>2. k \in CronJob
      BY <1>3, <2>1 DEF ActiveCronJobs
  <2>3. PICK s \in {"discover", "extract"} : Begin(k, s)
      BY <1>3, <2>1 DEF SyncStages
  <2>4. QED
      BY <1>1, <1>3, <2>2, <2>3, BeginType DEF Runner
<1>4. QED
    BY <1>2, <1>3 DEF RunEntry

\* The slots of the clock.
LEMMA TickType ==
    ASSUME TypeInv, Tick
    PROVE  /\ clock' \in 0 .. SlotsPerDay - 1
           /\ fired' \subseteq Due(clock)' /\ fired' \subseteq Entry
           /\ process # "up" => fired' = {}
           /\ sinceSync' \in 0 .. SlotsPerDay
<1>1. SlotsPerDay \in Nat \ {0}
    BY WorkerAssumption DEF SlotsPerDay
<1>2. clock + 1 \in Nat /\ sinceSync \in 0 .. SlotsPerDay
    BY DEF TypeInv, ClockOK, SlotsPerDay
<1>3. clock' = (clock + 1) % SlotsPerDay /\ clock' \in 0 .. SlotsPerDay - 1
    BY <1>1, <1>2 DEF Tick
<1>4. Due(clock)' \subseteq Entry
    BY DEF Due, Entry
<1>5. fired' \in {{}, Due(clock)'} /\ (process # "up" => fired' = {})
    BY DEF Tick, Fires, Due
<1>6. sinceSync' \in {sinceSync} \cup (IF sinceSync < SlotsPerDay THEN {sinceSync + 1} ELSE {})
    BY DEF Tick
<1>7. QED
    BY <1>1, <1>2, <1>3, <1>4, <1>5, <1>6

\* The worker's process, and the one of a backfill, begin and end.
LEMMA ProcessType ==
    ASSUME TypeInv,
           Boot \/ Signal \/ Exit \/ ForcedExit \/ StartBackfill \/ KillBackfill
    PROVE  DatabaseOK' /\ JobsOK' /\ ClockOK' /\ Grows
<1>0. DatabaseOK /\ JobsOK /\ ClockOK
    BY DEF TypeInv
<1>r. {"startup", "backfill"} \subseteq Runner
    BY DEF Runner
<1>same. UNCHANGED <<present, database, missed>> => DatabaseOK' /\ Grows
    BY <1>0 DEF DatabaseOK, Grows, database
<1>1. CASE Boot
  <2>1. /\ UNCHANGED <<deployment, clock, fired, present, database, missed>>
        /\ sinceSync' = 0 /\ process = "down"
        /\ process' \in {"down", "up", "refused"}
        /\ Begin("startup", "discover") \/ UNCHANGED jobs
        /\ Setback \/ Ok
      BY <1>1 DEF Boot
  <2>2. JobsOK'
      BY <1>0, <1>r, <1>same, <2>1, BeginType, SameJobs
  <2>3. ClockOK'
    <3>1. setbacks' \in 0 .. MaxSetbacks
        BY <1>0, <2>1, SetbacksTyped
    <3>2. 0 \in 0 .. SlotsPerDay
        BY WorkerAssumption DEF SlotsPerDay
    <3>3. QED
        BY <1>0, <2>1, <3>1, <3>2 DEF ClockOK
  <2>4. QED
      BY <1>same, <2>1, <2>2, <2>3
<1>2. CASE Signal
  <2>1. /\ UNCHANGED <<deployment, clock, fired, jobs, present, database, sinceSync, missed>>
        /\ process' = "stopping" /\ setbacks' \in 0 .. MaxSetbacks
      BY <1>0, <1>2, SetbacksTyped DEF Signal
  <2>2. QED
      BY <1>0, <1>same, <2>1, SameJobs DEF ClockOK
<1>3. CASE Exit \/ ForcedExit
  <2>1. EndProcess /\ setbacks' \in 0 .. MaxSetbacks
      BY <1>0, <1>3, SetbacksTyped DEF Exit, ForcedExit
  <2>2. DatabaseOK' /\ JobsOK' /\ Grows
      BY <1>0, <2>1, EndJobs DEF EndProcess
  <2>3. ClockOK'
      BY <1>0, <2>1 DEF EndProcess, ClockOK
  <2>4. QED
      BY <2>2, <2>3
<1>4. CASE StartBackfill
  <2>1. /\ UNCHANGED <<deployment, clock, process, fired, present, database, sinceSync,
                       setbacks, missed>>
        /\ Begin("backfill", "discover")
      BY <1>4 DEF StartBackfill
  <2>2. QED
      BY <1>0, <1>r, <2>1, BeginType DEF ClockOK
<1>5. CASE KillBackfill
  <2>1. /\ UNCHANGED <<deployment, clock, process, fired, present, sinceSync, missed>>
        /\ setbacks' \in 0 .. MaxSetbacks /\ EndRunners({"backfill"})
      BY <1>0, <1>5, SetbacksTyped DEF KillBackfill
  <2>2. DatabaseOK' /\ JobsOK' /\ Grows
      BY <1>0, <1>r, <2>1, EndJobs
  <2>3. QED
      BY <1>0, <2>1, <2>2 DEF ClockOK
<1>6. QED
    BY <1>1, <1>2, <1>3, <1>4, <1>5

LEMMA NextType ==
    ASSUME TypeInv, [Next]_vars
    PROVE  TypeInv' /\ Grows
<1>. SUFFICES DatabaseOK' /\ JobsOK' /\ ClockOK' /\ Grows
    BY DEF TypeInv
<1>0. DatabaseOK /\ JobsOK /\ ClockOK
    BY DEF TypeInv
<1>same. UNCHANGED <<present, database, missed>> => DatabaseOK' /\ Grows
    BY <1>0 DEF DatabaseOK, Grows, database
<1>1. CASE UNCHANGED vars
    BY <1>0, <1>1, <1>same, SameJobs DEF vars, ClockOK
<1>2. CASE Tick
  <2>1. UNCHANGED <<deployment, process, jobs, present, database, setbacks, missed>>
      BY <1>2 DEF Tick
  <2>2. ClockOK'
      BY <1>0, <1>2, <2>1, TickType DEF ClockOK
  <2>3. QED
      BY <1>0, <1>same, <2>1, <2>2, SameJobs
<1>3. CASE Boot \/ Signal \/ Exit \/ ForcedExit \/ StartBackfill \/ KillBackfill
    BY <1>3, ProcessType
<1>4. ASSUME NEW p \in Project, Happen(p) PROVE DatabaseOK' /\ JobsOK' /\ ClockOK' /\ Grows
  <2>1. present' = present \cup {p}
        /\ UNCHANGED <<deployment, clock, process, fired, jobs, database, sinceSync, setbacks,
                       missed>>
      BY <1>4 DEF Happen
  <2>2. DatabaseOK' /\ Grows
      BY <1>0, <2>1 DEF DatabaseOK, Grows, database
  <2>3. QED
      BY <1>0, <2>1, <2>2, SameJobs DEF ClockOK
<1>5. ASSUME NEW entry \in Entry, RunEntry(entry)
      PROVE  DatabaseOK' /\ JobsOK' /\ ClockOK' /\ Grows
  <2>1. UNCHANGED <<deployment, clock, process, setbacks>>
      BY <1>5 DEF RunEntry
  <2>2. DatabaseOK' /\ JobsOK' /\ Grows /\ fired' \subseteq fired
        /\ sinceSync' \in {sinceSync, 0}
      BY <1>5, EntryType
  <2>3. 0 \in 0 .. SlotsPerDay
      BY WorkerAssumption DEF SlotsPerDay
  <2>4. QED
      BY <1>0, <2>1, <2>2, <2>3 DEF ClockOK
<1>6. ASSUME NEW r \in Runner, RunnerStep(r) PROVE DatabaseOK' /\ JobsOK' /\ ClockOK' /\ Grows
  <2>1. UNCHANGED <<deployment, clock, process, fired, sinceSync>>
      BY <1>6 DEF RunnerStep, Discover, Extract, Transform
  <2>2. DatabaseOK' /\ JobsOK' /\ Grows /\ setbacks' \in 0 .. MaxSetbacks
      BY <1>6, DiscoverType, ExtractType, TransformType DEF RunnerStep
  <2>3. QED
      BY <1>0, <2>1, <2>2 DEF ClockOK
<1>7. QED
    BY <1>1, <1>2, <1>3, <1>4, <1>5, <1>6 DEF Next

LEMMA TypeInvariant == Spec => []TypeInv
BY InitType, NextType, PTL DEF Spec

\* The worker's clock, jobs and tables keep their types; behind it, Silver holds
\* only what is in Bronze, Bronze only what happened in GitLab, and a stage finds
\* all it has read when it ends.
THEOREM TypeCorrect == Spec => []TypeOK
BY TypeInvariant, TypeInvType, PTL

-----------------------------------------------------------------------------
(* What a sync delivers.                                                   *)

\* A sync that ends without a failure has brought what was in GitLab when it
\* began to Silver (main.go:149-160), whatever other syncs, discoveries and
\* backfills do meanwhile, unless it was given up by an earlier cycle.
THEOREM DeliversWhatItOwes == Spec => SyncDelivers
<1>1. ASSUME TypeInv, [Next]_vars, NEW r \in Runner,
             stage[r] # "idle", stage'[r] = "idle", process' = process, setbacks' = setbacks
      PROVE  owed[r] \subseteq silver' \cup missed
  <2>0. stage \in [Runner -> Stage] /\ StageOK(r) /\ setbacks \in Nat
      BY <1>1, WorkerAssumption DEF TypeInv, JobsOK, ClockOK
  <2>1. ~Setback
      BY <1>1, <2>0 DEF Setback
  <2>2. ASSUME NEW q \in Runner, NEW s \in Stage, BeginStage(q, s), s # "idle" \/ q # r
        PROVE  FALSE
      BY <1>1, <2>0, <2>2 DEF BeginStage
  <2>3. CASE stage' = stage
      BY <1>1, <2>3
  <2>4. CASE \E s : BeginStage(r, s) /\ Discover(r)
      BY <2>0, <2>4 DEF Discover, StageOK
  <2>5. CASE Extract(r)
      BY <2>2, <2>5 DEF Extract, NextStage, SyncStages, Stage
  <2>6. CASE Transform(r)
    <3>1. stage[r] = "transform" /\ seen[r] \subseteq silver'
        BY <2>1, <2>6 DEF Transform
    <3>2. QED
        BY <2>0, <3>1 DEF StageOK
  <2>7. ASSUME NEW q \in Runner, RunnerStep(q) PROVE q = r
      BY <2>2, <2>7 DEF RunnerStep, Discover, Extract, Transform, NextStage, SyncStages, Stage
  <2>8. ASSUME NEW q \in Runner, NEW s \in {"discover", "extract"}, Begin(q, s) PROVE FALSE
      BY <2>2, <2>8 DEF Begin, Stage
  <2>9. CASE Tick \/ Signal \/ \E p \in Project : Happen(p)
      BY <2>3, <2>9 DEF Tick, Signal, Happen, jobs
  <2>10. ~Exit /\ ~ForcedExit /\ ~KillBackfill
      BY <1>1, <2>1 DEF Exit, ForcedExit, KillBackfill, EndProcess
  <2>11. CASE Boot \/ StartBackfill
      BY <2>3, <2>8, <2>11 DEF Boot, StartBackfill, jobs, Runner
  <2>12. ASSUME NEW entry \in Entry, RunEntry(entry)
         PROVE  owed[r] \subseteq silver' \cup missed
    <3>1. CASE UNCHANGED jobs
        BY <2>3, <3>1 DEF jobs
    <3>2. CASE /\ ActiveCronJobs # CronJob
               /\ Begin(CHOOSE j \in CronJob : j \notin ActiveCronJobs,
                        IF entry = "discovery" THEN "discover" ELSE SyncStages[1])
      <4>1. PICK k : k = CHOOSE j \in CronJob : j \notin ActiveCronJobs
          OBVIOUS
      <4>2. k \in Runner
          BY <3>2, <4>1 DEF ActiveCronJobs, Runner
      <4>3. \E s \in {"discover", "extract"} : Begin(k, s)
          BY <3>2, <4>1 DEF SyncStages
      <4>4. QED
          BY <2>8, <4>2, <4>3
    <3>3. QED
        BY <2>12, <3>1, <3>2 DEF RunEntry
  <2>13. ASSUME NEW q \in Runner, RunnerStep(q)
         PROVE  owed[r] \subseteq silver' \cup missed
      BY <2>4, <2>5, <2>6, <2>7, <2>13 DEF RunnerStep, Discover
  <2>14. QED
      BY <1>1, <2>3, <2>9, <2>10, <2>11, <2>12, <2>13 DEF Next, vars, jobs
<1>2. TypeInv /\ [Next]_vars =>
          [\A r \in Runner :
             /\ stage[r] # "idle" /\ stage'[r] = "idle"
             /\ process' = process /\ setbacks' = setbacks
             => owed[r] \subseteq silver' \cup missed]_vars
    BY <1>1
<1>3. QED
    BY <1>2, TypeInvariant, PTL DEF Spec, SyncDelivers

-----------------------------------------------------------------------------
(* Hours and slots.                                                        *)

LEMMA DivMod ==
    ASSUME NEW n \in Nat \ {0}, NEW c \in Nat
    PROVE  \E q \in Nat, r \in 0 .. n - 1 : q = c \div n /\ r = c % n /\ c = q * n + r
<1>1. PICK q, r : q = c \div n /\ r = c % n
    OBVIOUS
<1>2. q \in Nat /\ r \in 0 .. n - 1
    BY <1>1
<1>3. c % n = c - (c \div n) * n
    BY SMTT(30)
<1>4. r = c - q * n
    BY <1>1, <1>3
<1>5. c = q * n + r
    BY <1>2, <1>4
<1>6. QED
    BY <1>1, <1>2, <1>5

LEMMA Remainder ==
    ASSUME NEW n \in Nat \ {0}, NEW c \in Nat, NEW q \in Nat, NEW r \in 0 .. n - 1,
           c = q * n + r
    PROVE  c % n = r
<1>1. (q * n + r) % n = r
    OBVIOUS
<1>2. QED
    BY <1>1

LEMMA Times ==
    ASSUME NEW n \in Nat, NEW p \in Nat, NEW q \in Nat, p <= q
    PROVE  p * n <= q * n
OBVIOUS

\* The remainder grows with the number until it starts again from 0.
LEMMA ModStep ==
    ASSUME NEW n \in Nat \ {0}, NEW c \in Nat, (c + 1) % n # 0
    PROVE  (c + 1) % n = (c % n) + 1
<1>1. PICK q \in Nat, r \in 0 .. n - 1 : r = c % n /\ c = q * n + r
    BY DivMod
<1>2. c = q * n + r
    BY <1>1
<1>3. CASE r = n - 1
  <2>1. c + 1 = (q + 1) * n + 0
      BY <1>2, <1>3
  <2>2. c + 1 \in Nat /\ q + 1 \in Nat /\ 0 \in 0 .. n - 1
      OBVIOUS
  <2>3. (c + 1) % n = 0
      BY ONLY <2>1, <2>2, Remainder, n \in Nat \ {0}
  <2>4. QED
      BY <2>3
<1>4. CASE r # n - 1
  <2>1. c + 1 = q * n + (r + 1) /\ r + 1 \in 0 .. n - 1 /\ c + 1 \in Nat
      BY <1>2, <1>4
  <2>2. (c + 1) % n = r + 1
      BY <2>1, Remainder
  <2>3. QED
      BY <1>1, <2>2
<1>5. QED
    BY <1>3, <1>4

\* The peak hours of a day, in slots; the slot after the last is of the next day.
LEMMA PeakSlots ==
    ASSUME NEW c \in 0 .. SlotsPerDay
    PROVE  IsPeakHour(Hour(c)) <=> 8 * SlotsPerHour <= c /\ c < 20 * SlotsPerHour
<1>. DEFINE S == SlotsPerHour
<1>1. S \in Nat \ {0} /\ c \in Nat /\ c <= 24 * S
    BY WorkerAssumption DEF SlotsPerDay
<1>2. PICK q \in Nat, r \in 0 .. S - 1 : q = c \div S /\ c = q * S + r
    BY <1>1, DivMod
<1>3. Hour(c) = q % 24
    BY <1>2 DEF Hour
<1>. HIDE DEF S
<1>4. 25 <= q => 25 * S <= q * S
    BY <1>1, <1>2, Times
<1>5. q \in 0 .. 24
    BY <1>1, <1>2, <1>4
<1>6. (8 <= q => 8 * S <= q * S) /\ (q <= 7 => q * S <= 7 * S)
      /\ (20 <= q => 20 * S <= q * S) /\ (q <= 19 => q * S <= 19 * S)
    BY <1>1, <1>2, Times
<1>7. 8 <= q /\ q < 20 <=> 8 * S <= c /\ c < 20 * S
    BY <1>1, <1>2, <1>6
<1>8. Hour(c) = IF q = 24 THEN 0 ELSE q
    BY <1>3, <1>5
<1>9. QED
    BY <1>5, <1>7, <1>8 DEF IsPeakHour, S

-----------------------------------------------------------------------------
(* Freshness.                                                              *)

Peak(slot) == IsPeakHour(Hour(slot))

\* Why no gap opens between the two entries: a job of the peak entry may come
\* so late that it finds the hour after 19 and returns, but the entry before it
\* has begun a sync; the off-peak entry is due in the slot in which the peak
\* hours end, and never in the last slot before they begin.
Cadence ==
    process = "up" =>
        /\ fired \subseteq Due(clock)
        /\ Peak(clock) /\ Peak(clock + 1) /\ "peak" \notin fired => sinceSync = 0
        /\ Peak(clock) /\ ~Peak(clock + 1) => sinceSync <= 1
        /\ ~Peak(clock) /\ "offpeak" \notin fired => sinceSync <= clock % (4 * SlotsPerHour)

\* A worker that has just begun a sync, or started, is in time.
LEMMA JustSynced ==
    ASSUME TypeInv', sinceSync' = 0, fired' \subseteq Due(clock)'
    PROVE  Cadence'
<1>1. clock' \in Nat /\ 4 * SlotsPerHour \in Nat \ {0}
    BY WorkerAssumption DEF TypeInv, ClockOK, SlotsPerDay
<1>2. 0 <= clock' % (4 * SlotsPerHour)
    BY <1>1, DivMod
<1>3. QED
    BY <1>2 DEF Cadence

\* The last slot before the peak hours is no slot of the off-peak entry.
LEMMA BeforePeak ==
    ASSUME NEW c \in 0 .. SlotsPerDay - 1, ~Peak(c), Peak(c + 1)
    PROVE  c % (4 * SlotsPerHour) # 0
<1>. DEFINE n == 4 * SlotsPerHour
<1>1. n \in Nat \ {0} /\ SlotsPerHour \in Nat \ {0} /\ SlotsPerDay = 24 * SlotsPerHour
    BY WorkerAssumption DEF SlotsPerDay
<1>2. c + 1 = 8 * SlotsPerHour
    BY <1>1, PeakSlots DEF Peak
<1>3. c = 1 * n + (n - 1) /\ c \in Nat /\ n - 1 \in 0 .. n - 1
    BY <1>1, <1>2
<1>. HIDE DEF n
<1>4. c % n = n - 1
    BY <1>1, <1>3, Remainder
<1>5. n - 1 # 0
    BY <1>1 DEF n
<1>6. QED
    BY <1>4, <1>5 DEF n

\* The slot in which the peak hours end is one.
LEMMA AfterPeak ==
    ASSUME NEW c \in 0 .. SlotsPerDay - 1, Peak(c), ~Peak(c + 1)
    PROVE  (c + 1) % (4 * SlotsPerHour) = 0 /\ c + 1 < SlotsPerDay
<1>. DEFINE n == 4 * SlotsPerHour
<1>1. n \in Nat \ {0} /\ SlotsPerHour \in Nat \ {0} /\ SlotsPerDay = 24 * SlotsPerHour
    BY WorkerAssumption DEF SlotsPerDay
<1>2. c + 1 = 20 * SlotsPerHour
    BY <1>1, PeakSlots DEF Peak
<1>3. c + 1 = 5 * n + 0 /\ c + 1 \in Nat /\ 0 \in 0 .. n - 1 /\ c + 1 < SlotsPerDay
    BY <1>1, <1>2
<1>. HIDE DEF n
<1>4. (c + 1) % n = 0
    BY <1>1, <1>3, Remainder
<1>5. QED
    BY <1>3, <1>4 DEF n

\* The peak hours do not begin in the slot in which they end, nor end at midnight.
LEMMA LastPeakSlot ==
    ASSUME NEW c \in 0 .. SlotsPerDay - 1, Peak(c), ~Peak(c + 1)
    PROVE  c # 0 /\ Peak(c - 1)
<1>1. SlotsPerHour \in Nat \ {0} /\ SlotsPerDay = 24 * SlotsPerHour
    BY WorkerAssumption DEF SlotsPerDay
<1>2. c + 1 = 20 * SlotsPerHour
    BY <1>1, PeakSlots DEF Peak
<1>3. c - 1 \in 0 .. SlotsPerDay /\ 8 * SlotsPerHour <= c - 1 /\ c - 1 < 20 * SlotsPerHour
    BY <1>1, <1>2
<1>4. c # 0
    BY <1>1, <1>2
<1>5. QED
    BY <1>3, <1>4, PeakSlots DEF Peak

LEMMA TickCadence ==
    ASSUME TypeInv, TypeInv', Cadence, Tick
    PROVE  Cadence'
<1>. DEFINE n == 4 * SlotsPerHour
<1>. SUFFICES ASSUME process = "up" PROVE Cadence'
    BY DEF Tick, Cadence
<1>1. n \in Nat \ {0} /\ SlotsPerHour \in Nat \ {0} /\ SlotsPerDay = 24 * SlotsPerHour
    BY WorkerAssumption DEF SlotsPerDay
<1>2. /\ clock \in 0 .. SlotsPerDay - 1 /\ clock' \in 0 .. SlotsPerDay - 1
      /\ sinceSync \in Nat /\ sinceSync' \in Nat
    BY <1>1 DEF TypeInv, ClockOK
<1>3. fired = {} /\ fired' = Due(clock') /\ sinceSync' <= sinceSync + 1
    BY <1>2 DEF Tick, Fires
<1>4. clock' = IF clock + 1 = SlotsPerDay THEN 0 ELSE clock + 1
    BY <1>1, <1>2 DEF Tick
<1>5. "peak" \in fired'
    BY <1>3 DEF Due
<1>6. ASSUME Peak(clock'), ~Peak(clock' + 1) PROVE sinceSync' <= 1
  <2>1. PICK d : d = clock'
      OBVIOUS
  <2>2. d \in 0 .. SlotsPerDay - 1 /\ d # 0 /\ Peak(d - 1)
      BY <1>2, <1>6, <2>1, LastPeakSlot
  <2>3. clock' = clock + 1 /\ d - 1 = clock
      BY <1>1, <1>2, <1>4, <2>1, <2>2
  <2>4. Peak(clock) /\ Peak(clock + 1)
      BY <1>6, <2>1, <2>2, <2>3
  <2>5. QED
      BY <1>2, <1>3, <2>3, <2>4 DEF Cadence
<1>7. ASSUME ~Peak(clock'), "offpeak" \notin fired' PROVE sinceSync' <= clock' % n
  <2>1. clock' % n # 0
      BY <1>3, <1>7 DEF Due
  <2>2. clock' = clock + 1
      BY <1>1, <1>4, <2>1
  <2>3. ~Peak(clock)
      BY <1>2, <1>7, <2>1, <2>2, AfterPeak
  <2>4. sinceSync <= clock % n
      BY <1>3, <2>3 DEF Cadence
  <2>5. clock' % n = (clock % n) + 1 /\ clock % n \in Nat
    <3>. HIDE DEF n
    <3>1. clock \in Nat /\ (clock + 1) % n # 0
        BY <1>2, <2>1, <2>2
    <3>2. (clock + 1) % n = (clock % n) + 1
        BY <1>1, <3>1, ModStep
    <3>3. clock % n \in Nat
        BY <1>1, <3>1, DivMod
    <3>4. QED
        BY <2>2, <3>2, <3>3
  <2>6. PICK x \in Nat, y \in Int : x = clock % n /\ y = clock' % n /\ y = x + 1 /\ sinceSync <= x
      BY <2>4, <2>5
  <2>7. sinceSync' <= y
      BY <1>2, <1>3, <2>6
  <2>8. QED
      BY <2>6, <2>7
<1>8. QED
    BY <1>3, <1>5, <1>6, <1>7 DEF Cadence, Peak, Due

LEMMA EntryCadence ==
    ASSUME TypeInv, TypeInv', Cadence, NEW entry \in Entry, RunEntry(entry)
    PROVE  Cadence'
<1>. DEFINE n == 4 * SlotsPerHour
<1>1. /\ UNCHANGED <<clock, process>> /\ fired' = fired \ {entry} /\ entry \in fired
      /\ clock \in 0 .. SlotsPerDay - 1
    BY DEF RunEntry, TypeInv, ClockOK
<1>. SUFFICES ASSUME process = "up" PROVE Cadence'
    BY <1>1 DEF Cadence
<1>2. fired \subseteq Due(clock) /\ fired' \subseteq Due(clock)'
    BY <1>1 DEF Cadence, Due
<1>3. CASE sinceSync' = 0
    BY <1>2, <1>3, JustSynced
<1>4. CASE sinceSync' = sinceSync
  <2>1. CASE entry = "discovery"
      BY <1>1, <1>2, <1>4, <2>1 DEF Cadence
  <2>2. PICK slot \in {clock, clock + 1} : ~Runs(entry, Hour(slot)) \/ sinceSync' = 0 \/ entry = "discovery"
      BY DEF RunEntry
  <2>3. CASE entry = "peak" /\ ~Peak(slot)
    <3>1. ~(Peak(clock) /\ Peak(clock + 1))
        BY <2>3
    <3>2. QED
        BY <1>1, <1>2, <1>4, <2>3, <3>1 DEF Cadence
  <2>4. CASE entry = "offpeak" /\ Peak(slot)
    <3>1. clock % n = 0
        BY <1>1, <1>2, <2>4 DEF Due
    <3>2. Peak(clock)
        BY <1>1, <2>4, <3>1, BeforePeak
    <3>3. QED
        BY <1>1, <1>2, <1>4, <2>4, <3>2 DEF Cadence
  <2>5. QED
      BY <1>3, <2>1, <2>2, <2>3, <2>4 DEF Runs, Peak, Entry
<1>5. QED
    BY <1>3, <1>4, EntryType

\* Freshness (docs/DATA_CONTRACT.md:166): a worker that is up begins a sync in
\* every slot of the peak hours, or the one after, and every four hours
\* otherwise, for every resolution of the clock; the two entries, each of which
\* checks the hour by itself, leave no gap at 8 and at 20 (scheduler.go:45-66).
THEOREM StaysFresh == Spec => []SyncsAreFrequent
<1>1. Init => Cadence
    BY DEF Init, Cadence
<1>2. TypeInv /\ Cadence /\ [Next]_vars => Cadence'
  <2>. SUFFICES ASSUME TypeInv, TypeInv', Cadence, [Next]_vars PROVE Cadence'
      BY NextType
  <2>1. CASE Tick
      BY <2>1, TickCadence
  <2>2. ASSUME NEW entry \in Entry, RunEntry(entry) PROVE Cadence'
      BY <2>2, EntryCadence
  <2>3. CASE Boot
    <3>1. sinceSync' = 0 /\ fired' = {}
        BY <2>3 DEF Boot, TypeInv, ClockOK
    <3>2. QED
        BY <3>1, JustSynced
  <2>4. CASE Signal \/ Exit \/ ForcedExit
      BY <2>4 DEF Signal, Exit, ForcedExit, EndProcess, Cadence
  <2>5. CASE UNCHANGED <<clock, process, fired, sinceSync>>
      BY <2>5 DEF Cadence, Due
  <2>6. ASSUME NEW r \in Runner, RunnerStep(r) PROVE UNCHANGED <<clock, process, fired, sinceSync>>
      BY <2>6 DEF RunnerStep, Discover, Extract, Transform
  <2>7. StartBackfill \/ KillBackfill \/ (\E p \in Project : Happen(p))
            => UNCHANGED <<clock, process, fired, sinceSync>>
      BY DEF StartBackfill, KillBackfill, Happen
  <2>8. QED
      BY <2>1, <2>2, <2>3, <2>4, <2>5, <2>6, <2>7 DEF Next, vars
<1>3. TypeInv /\ Cadence => SyncsAreFrequent
  <2>. DEFINE n == 4 * SlotsPerHour
  <2>. SUFFICES ASSUME TypeInv, Cadence, process = "up", fired = {}
                PROVE  sinceSync <= IF Peak(clock) THEN 1 ELSE n
      BY DEF SyncsAreFrequent, Peak
  <2>1. n \in Nat \ {0} /\ clock \in Nat /\ sinceSync \in Nat
      BY WorkerAssumption DEF TypeInv, ClockOK, SlotsPerDay
  <2>2. PICK r \in 0 .. n - 1 : r = clock % n
      BY <2>1, DivMod
  <2>3. ~Peak(clock) => sinceSync <= r
      BY <2>2 DEF Cadence
  <2>4. Peak(clock) => sinceSync <= 1
      BY DEF Cadence
  <2>5. QED
      BY <2>1, <2>3, <2>4
<1>4. QED
    BY <1>1, <1>2, <1>3, TypeInvariant, PTL DEF Spec
=============================================================================
