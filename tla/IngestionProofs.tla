-------------------------- MODULE IngestionProofs --------------------------
(***************************************************************************)
(* Proofs about Ingestion, for any number of projects, issues, events,     *)
(* cycles and passes, every page size and every bound.                     *)
(***************************************************************************)
EXTENDS Ingestion, SequenceTheorems, TLAPS

-----------------------------------------------------------------------------
(* Types.                                                                  *)

LEMMA TypeInit == Init => TypeOK
<1>1. ASSUME Init PROVE TypeOK
  <2>1. 0 \in Time /\ 0 \in 0 .. MaxSetbacks
      BY TablesAssumption DEF Time
  <2>2. TablesTypeOK
      BY <1>1, <2>1 DEF Init, TablesInit, TablesTypeOK
  <2>3. ExtractorTypeOK
      BY <1>1, <2>1, EmptySeq DEF Init, ExtractorInit, ExtractorTypeOK
  <2>4. DiscoveryTypeOK
      BY <1>1, <2>1 DEF Init, DiscoveryInit, DiscoveryTypeOK
  <2>5. QED
      BY <2>2, <2>3, <2>4 DEF TypeOK
<1>2. QED
    BY <1>1

LEMMA TablesStep ==
    ASSUME TypeOK, NEW p \in Project, NEW t \in Time
    PROVE  /\ Setback => setbacks' \in 0 .. MaxSetbacks
           /\ UpsertRawProject(p) => /\ rawProjects' \subseteq Project
                                     /\ rawCursor' \in [Project -> Time]
                                     /\ projects' \subseteq Project
                                     /\ silverCursor' \in [Project -> Time]
           /\ UpsertProject(p, t) => /\ rawProjects' \subseteq Project
                                     /\ rawCursor' \in [Project -> Time]
                                     /\ projects' \subseteq Project
                                     /\ silverCursor' \in [Project -> Time]
           /\ SyncProjectLastSynced(p, t) => /\ rawProjects' \subseteq Project
                                             /\ rawCursor' \in [Project -> Time]
                                             /\ projects' \subseteq Project
                                             /\ silverCursor' \in [Project -> Time]
<1>1. MaxSetbacks \in Nat
    BY TablesAssumption
<1>2. Setback => setbacks' \in 0 .. MaxSetbacks
    BY <1>1 DEF Setback, TypeOK, TablesTypeOK
<1>3. UpsertRawProject(p) => /\ rawProjects' \subseteq Project
                             /\ rawCursor' \in [Project -> Time]
                             /\ projects' \subseteq Project
                             /\ silverCursor' \in [Project -> Time]
    BY DEF UpsertRawProject, TypeOK, TablesTypeOK
<1>4. UpsertProject(p, t) => /\ rawProjects' \subseteq Project
                             /\ rawCursor' \in [Project -> Time]
                             /\ projects' \subseteq Project
                             /\ silverCursor' \in [Project -> Time]
    BY DEF UpsertProject, TypeOK, TablesTypeOK
<1>5. SyncProjectLastSynced(p, t) => /\ rawProjects' \subseteq Project
                                     /\ rawCursor' \in [Project -> Time]
                                     /\ projects' \subseteq Project
                                     /\ silverCursor' \in [Project -> Time]
    BY DEF SyncProjectLastSynced, TypeOK, TablesTypeOK
<1>6. QED
    BY <1>2, <1>3, <1>4, <1>5

LEMMA SetbackTyped == ASSUME TypeOK, Setback \/ UNCHANGED setbacks
                      PROVE  setbacks' \in 0 .. MaxSetbacks
BY TablesAssumption DEF Setback, TypeOK, TablesTypeOK

LEMMA TypeStep == TypeOK /\ [Next]_vars => TypeOK'
<1>. SUFFICES ASSUME TypeOK, [Next]_vars PROVE TypeOK'
    OBVIOUS
<1>. USE DEF TypeOK
<1>0. MaxTime \in Nat /\ 0 \in Time /\ Issue \subseteq Nat /\ Event \subseteq EventRecord
    BY TablesAssumption, ExtractorAssumption DEF Time
<1>1. CASE Tick /\ UNCHANGED discoveryVars
  <2>1. now' \in Time
      BY <1>0, <1>1 DEF Tick, ExtractorTypeOK, Time
  <2>2. QED
      BY <1>1, <2>1 DEF Tick, TablesTypeOK, ExtractorTypeOK, DiscoveryTypeOK, projectTables,
             gitlab, bronze, cycleVars, listing, fetching, discoveryVars
<1>2. ASSUME NEW e \in Event, Occur(e), UNCHANGED discoveryVars PROVE TypeOK'
  <2>1. present' \subseteq Event /\ updatedAt' \in [Issue -> Time]
      BY <1>0, <1>2 DEF Occur, ExtractorTypeOK, EventRecord
  <2>2. QED
      BY <1>2, <2>1 DEF Occur, TablesTypeOK, ExtractorTypeOK, DiscoveryTypeOK, projectTables,
             bronze, cycleVars, listing, fetching, discoveryVars
<1>3. ASSUME NEW c \in Cycle, CycleStep(c) \/ KillCycle(c), UNCHANGED discoveryVars
      PROVE  TypeOK'
  <2>. DiscoveryTypeOK'
      BY <1>3 DEF DiscoveryTypeOK, discoveryVars
  <2>1. CASE StartCycle(c)
      BY <2>1 DEF StartCycle, Goto, TablesTypeOK, ExtractorTypeOK, projectTables,
             gitlab, bronze, listing, fetching
  <2>2. CASE ListProjects(c)
    <3>1. {<<p, rawCursor[p]>> : p \in rawProjects} \subseteq Project \X Time
        BY DEF TablesTypeOK
    <3>2. setbacks' \in 0 .. MaxSetbacks
        BY <2>2, SetbackTyped DEF ListProjects, Ok
    <3>3. CASE EndCycle(c)
        BY <1>0, <2>2, <3>2, <3>3 DEF ListProjects, EndCycle, ClearProject, Goto, TablesTypeOK,
           ExtractorTypeOK, projectTables, gitlab, bronze
    <3>4. CASE ~EndCycle(c)
      <4>. DEFINE rows == {<<p, rawCursor[p]>> : p \in rawProjects}
                  label == IF rawProjects = {} THEN "idle" ELSE "next"
      <4>0. /\ todo' = [todo EXCEPT ![c] = rows]
            /\ pc' = [pc EXCEPT ![c] = label]
          BY <2>2, <3>4 DEF ListProjects, Goto
      <4>. HIDE DEF rows
      <4>1. /\ todo' \in [Cycle -> SUBSET (Project \X Time)]
            /\ pc' \in [Cycle -> {"idle", "projects", "next", "issues", "labels", "notes",
                                 "insert"}]
        <5>1. rows \in SUBSET (Project \X Time)
            BY <3>1 DEF rows
        <5>2. QED
            BY <4>0, <5>1 DEF ExtractorTypeOK
      <4>2. UNCHANGED <<now, gitlab, bronze, lastTick, missed, projectTables, project, start,
                        listing, fetching>>
          BY <2>2, <3>4 DEF ListProjects
      <4>3. QED
          BY <3>2, <4>1, <4>2 DEF TablesTypeOK,
             ExtractorTypeOK, projectTables, gitlab, bronze, listing, fetching
    <3>5. QED
        BY <3>3, <3>4
  <2>3. CASE BeginProject(c)
    <3>1. \A row \in todo[c] : row[1] \in Project /\ row[2] \in Time
        BY DEF ExtractorTypeOK
    <3>2. /\ todo' \in [Cycle -> SUBSET (Project \X Time)]
          /\ project' \in [Cycle -> SUBSET Project]
          /\ since' \in [Cycle -> Time]
        BY <2>3, <3>1 DEF BeginProject, ExtractorTypeOK
    <3>3. QED
        BY <2>3, <3>2 DEF BeginProject, Goto, TablesTypeOK,
           ExtractorTypeOK, projectTables, gitlab, bronze, fetching
  <2>4. CASE ListIssues(c)
    <3>1. setbacks' \in 0 .. MaxSetbacks
        BY <2>4, SetbackTyped DEF ListIssues, Ok
    <3>2. PICK p \in project[c] : ListIssues(c)!2!(p)
        BY <2>4 DEF ListIssues
    <3>. DEFINE matching == Updated(p, since[c])
                got == listed[c] \cup PageOf(matching, page[c])
    <3>3. matching \subseteq Issue /\ got \subseteq Issue
        BY DEF Updated, PageOf, ExtractorTypeOK
    <3>4. UNCHANGED <<now, gitlab, bronze, lastTick, projectTables>>
        BY <2>4 DEF ListIssues
    <3>. HIDE DEF matching, got
    <3>5. /\ missed' \subseteq Issue /\ page' \in [Cycle -> Nat]
          /\ listed' \in [Cycle -> SUBSET Issue]
          /\ pc' \in [Cycle -> {"idle", "projects", "next", "issues", "labels", "notes",
                               "insert"}]
          /\ todo' = todo
      <4>1. CASE EndProject(c) /\ UNCHANGED missed
          BY <4>1 DEF EndProject, ClearProject, Goto, ExtractorTypeOK
      <4>2. CASE UNCHANGED <<pc, missed>> /\ todo' = todo /\ listed' = [listed EXCEPT ![c] = got]
                 /\ page' = [page EXCEPT ![c] = @ + 1]
          BY <3>3, <4>2 DEF ExtractorTypeOK
      <4>3. CASE /\ FetchNext(c, got) /\ todo' = todo
                 /\ listed' = [listed EXCEPT ![c] = got]
                 /\ page' = [page EXCEPT ![c] = 0]
                 /\ missed' = missed \cup {i \in matching \ got : updatedAt[i] < start[c]}
          BY <3>3, <4>3 DEF FetchNext, Goto, ExtractorTypeOK
      <4>4. QED
          BY <3>2, <4>1, <4>2, <4>3 DEF matching, got
    <3>6. /\ project' \in [Cycle -> SUBSET Project] /\ since' \in [Cycle -> Time]
          /\ start' \in [Cycle -> Time] /\ issue' \in [Cycle -> SUBSET Issue]
          /\ labels' \in [Cycle -> SUBSET Event] /\ fetched' \in [Cycle -> SUBSET Event]
      <4>1. CASE EndProject(c)
          BY <1>0, <4>1 DEF EndProject, ClearProject, ExtractorTypeOK
      <4>2. CASE UNCHANGED <<project, start, since, fetching>>
          BY <4>2 DEF fetching, ExtractorTypeOK
      <4>3. QED
          BY <3>2, <4>1, <4>2
    <3>7. QED
        BY <3>1, <3>4, <3>5, <3>6 DEF TablesTypeOK, ExtractorTypeOK, projectTables, gitlab, bronze
  <2>5. CASE FetchLabels(c)
    <3>1. setbacks' \in 0 .. MaxSetbacks
        BY <2>5, SetbackTyped DEF FetchLabels, Ok
    <3>2. \A i \in Issue : EventsOf(i, "label_event") \subseteq Event
        BY DEF EventsOf, ExtractorTypeOK
    <3>3. PICK i \in listed[c] : FetchLabels(c)!2!(i)
        BY <2>5 DEF FetchLabels
    <3>4. i \in Issue
        BY DEF ExtractorTypeOK
    <3>5. rawIssues' \subseteq Issue /\ missed' \subseteq Issue
        BY <3>3, <3>4 DEF ExtractorTypeOK
    <3>6. /\ listed' \in [Cycle -> SUBSET Issue] /\ issue' \in [Cycle -> SUBSET Issue]
          /\ labels' \in [Cycle -> SUBSET Event]
      <4>1. EventsOf(i, "label_event") \in SUBSET Event /\ {i} \in SUBSET Issue
          BY <3>2, <3>4
      <4>2. \/ issue' = [issue EXCEPT ![c] = {i}]
                /\ labels' = [labels EXCEPT ![c] = EventsOf(i, "label_event")]
            \/ issue' = [issue EXCEPT ![c] = {}] /\ labels' = [labels EXCEPT ![c] = {}]
          BY <3>3 DEF NextIssue
      <4>3. listed' = [listed EXCEPT ![c] = @ \ {i}]
          BY <3>3
      <4>. HIDE DEF EventsOf
      <4>4. QED
          BY <4>1, <4>2, <4>3 DEF ExtractorTypeOK
    <3>7. pc' \in [Cycle -> {"idle", "projects", "next", "issues", "labels", "notes",
                             "insert"}]
        BY <3>3 DEF NextIssue, FetchNext, Goto, ExtractorTypeOK
    <3>8. UNCHANGED <<now, gitlab, raw, lastTick, todo, project, start, since, page, fetched,
                      projectTables>>
        BY <2>5 DEF FetchLabels
    <3>9. QED
        BY <3>1, <3>5, <3>6, <3>7, <3>8 DEF TablesTypeOK, ExtractorTypeOK, projectTables, gitlab
  <2>6. CASE FetchNotes(c)
    <3>1. setbacks' \in 0 .. MaxSetbacks
        BY <2>6, SetbackTyped DEF FetchNotes, Ok
    <3>2. \A i \in Issue : EventsOf(i, "note") \subseteq Event
        BY DEF EventsOf, ExtractorTypeOK
    <3>3. QED
        BY <2>6, <3>1, <3>2 DEF FetchNotes, NextIssue, FetchNext, Goto,
           TablesTypeOK, ExtractorTypeOK, projectTables, gitlab, bronze, listing
  <2>7. CASE InsertRawEvent(c)
    <3>1. setbacks' \in 0 .. MaxSetbacks
        BY <2>7, SetbackTyped DEF InsertRawEvent, Ok
    <3>2. PICK e \in FirstOf(fetched[c]) : InsertRawEvent(c)!2!(e)
        BY <2>7 DEF InsertRawEvent
    <3>3. e \in Event /\ e.issue \in Issue
        BY <1>0 DEF FirstOf, ExtractorTypeOK, EventRecord
    <3>4. Append(raw, e) \in Seq(Event)
        BY <3>3, AppendProperties DEF ExtractorTypeOK
    <3>5. raw' \in Seq(Event) /\ missed' \subseteq Issue
          /\ fetched' \in [Cycle -> SUBSET Event]
        BY <3>2, <3>3, <3>4 DEF ExtractorTypeOK
    <3>6. QED
        BY <2>7, <3>1, <3>5 DEF InsertRawEvent,
           TablesTypeOK, ExtractorTypeOK, projectTables, gitlab, listing
  <2>8. CASE SyncCursor(c)
    <3>1. setbacks' \in 0 .. MaxSetbacks
        BY <2>8, SetbackTyped DEF SyncCursor, Ok
    <3>2. start[c] \in Time /\ project[c] \subseteq Project
        BY DEF ExtractorTypeOK
    <3>3. /\ rawProjects' \subseteq Project /\ rawCursor' \in [Project -> Time]
          /\ projects' \subseteq Project /\ silverCursor' \in [Project -> Time]
        BY <2>8, <3>2, TablesStep DEF SyncCursor, TablesTypeOK, projectTables
    <3>4. QED
        BY <1>0, <2>8, <3>1, <3>3 DEF SyncCursor, EndProject, ClearProject, Goto,
           TablesTypeOK, ExtractorTypeOK, gitlab, bronze
  <2>9. CASE KillCycle(c)
    <3>1. setbacks' \in 0 .. MaxSetbacks
        BY <2>9, SetbackTyped DEF KillCycle
    <3>2. QED
        BY <1>0, <2>9, <3>1 DEF KillCycle, EndCycle, ClearProject, Goto,
           TablesTypeOK, ExtractorTypeOK, gitlab, bronze, projectTables
  <2>10. QED
      BY <1>3, <2>1, <2>2, <2>3, <2>4, <2>5, <2>6, <2>7, <2>8, <2>9 DEF CycleStep
<1>4. ASSUME NEW d \in Pass, PassStep(d) \/ KillPass(d), UNCHANGED extractorVars
      PROVE  TypeOK'
  <2>. ExtractorTypeOK'
      BY <1>4 DEF ExtractorTypeOK, extractorVars, gitlab, bronze, cycleVars, listing, fetching
  <2>1. CASE StartPass(d)
      BY <2>1 DEF StartPass, TablesTypeOK, DiscoveryTypeOK, projectTables
  <2>2. CASE ListGroup(d)
    <3>1. setbacks' \in 0 .. MaxSetbacks
        BY <2>2, SetbackTyped DEF ListGroup
    <3>2. \A g \in Group : ProjectsOf[g] \subseteq Project
        BY DiscoveryAssumption
    <3>3. QED
        BY <1>0, <2>2, <3>1, <3>2 DEF ListGroup, EndPass, TablesTypeOK, DiscoveryTypeOK, projectTables
  <2>3. CASE ReadSilverProject(d)
    <3>1. setbacks' \in 0 .. MaxSetbacks
        BY <2>3, SetbackTyped DEF ReadSilverProject
    <3>2. \A p \in Project : (IF p \in projects THEN silverCursor[p] ELSE 0) \in Time
        BY <1>0 DEF TablesTypeOK
    <3>3. QED
        BY <1>0, <2>3, <3>1, <3>2 DEF ReadSilverProject, NextProject, TablesTypeOK,
           DiscoveryTypeOK, projectTables
  <2>4. CASE WriteRawProject(d)
    <3>1. setbacks' \in 0 .. MaxSetbacks
        BY <2>4, SetbackTyped DEF WriteRawProject
    <3>2. PICK p \in current[d] : WriteRawProject(d)!2!(p)
        BY <2>4 DEF WriteRawProject
    <3>3. p \in Project /\ (UpsertRawProject(p) \/ UNCHANGED projectTables)
        BY <3>2 DEF DiscoveryTypeOK
    <3>4. /\ rawProjects' \subseteq Project /\ rawCursor' \in [Project -> Time]
          /\ projects' \subseteq Project /\ silverCursor' \in [Project -> Time]
        BY <1>0, <3>3, TablesStep DEF TablesTypeOK, projectTables
    <3>5. QED
        BY <1>0, <3>1, <3>2, <3>4 DEF NextProject, TablesTypeOK, DiscoveryTypeOK
  <2>5. CASE WriteSilverProject(d)
    <3>1. setbacks' \in 0 .. MaxSetbacks
        BY <2>5, SetbackTyped DEF WriteSilverProject
    <3>2. silverSeen[d] \in Time /\ current[d] \subseteq Project
        BY DEF DiscoveryTypeOK
    <3>3. /\ rawProjects' \subseteq Project /\ rawCursor' \in [Project -> Time]
          /\ projects' \subseteq Project /\ silverCursor' \in [Project -> Time]
        BY <2>5, <3>2, TablesStep DEF WriteSilverProject, TablesTypeOK, projectTables
    <3>4. QED
        BY <1>0, <2>5, <3>1, <3>3 DEF WriteSilverProject, NextProject, TablesTypeOK,
           DiscoveryTypeOK
  <2>6. CASE KillPass(d)
    <3>1. setbacks' \in 0 .. MaxSetbacks
        BY <2>6, SetbackTyped DEF KillPass
    <3>2. QED
        BY <1>0, <2>6, <3>1 DEF KillPass, EndPass, TablesTypeOK, DiscoveryTypeOK, projectTables
  <2>7. QED
      BY <1>4, <2>1, <2>2, <2>3, <2>4, <2>5, <2>6 DEF PassStep
<1>5. CASE UNCHANGED vars
    BY <1>5 DEF vars, projectTables, extractorVars, discoveryVars, gitlab, bronze, cycleVars,
           listing, fetching, TablesTypeOK, ExtractorTypeOK, DiscoveryTypeOK
<1>6. QED
    BY <1>1, <1>2, <1>3, <1>4, <1>5 DEF Next, ExtractorNext, DiscoveryNext

\* The tables, the locals of every cycle and pass, and the clock keep their
\* types: in particular no cursor is ever beyond the clock's range.
THEOREM TypeCorrect == Spec => []TypeOK
BY TypeInit, TypeStep, PTL DEF Spec

-----------------------------------------------------------------------------
(* The two cursors.                                                        *)

\* What makes SilverNotBehindBronze inductive: while a project has only one of
\* its rows no cycle has moved its Bronze cursor, so that discovery may insert
\* the other row with any time.
CursorsInv ==
    /\ SilverNotBehindBronze
    /\ \A p \in Project : p \notin rawProjects \cap projects => rawCursor[p] = 0

LEMMA CursorsInit == Init => CursorsInv
BY DEF Init, TablesInit, CursorsInv, SilverNotBehindBronze

LEMMA CursorsUpsertRaw ==
    ASSUME TypeOK, CursorsInv, NEW p \in Project, UpsertRawProject(p)
    PROVE  CursorsInv'
<1>1. /\ rawProjects' = rawProjects \cup {p}
      /\ UNCHANGED <<rawCursor, projects, silverCursor>>
    BY DEF UpsertRawProject
<1>2. \A q \in Project : rawCursor[q] \in Nat /\ silverCursor[q] \in Nat
    BY TablesAssumption DEF TypeOK, TablesTypeOK, Time
<1>3. ASSUME NEW q \in rawProjects' \cap projects' PROVE rawCursor'[q] <= silverCursor'[q]
  <2>1. q \in Project
      BY <1>1, <1>3 DEF TypeOK, TablesTypeOK
  <2>2. CASE q \in rawProjects
      BY <1>1, <1>3, <2>2 DEF CursorsInv, SilverNotBehindBronze
  <2>3. CASE q \notin rawProjects
      BY <1>1, <1>2, <2>1, <2>3 DEF CursorsInv
  <2>4. QED
      BY <2>2, <2>3
<1>4. ASSUME NEW q \in Project, q \notin rawProjects' \cap projects' PROVE rawCursor'[q] = 0
    BY <1>1, <1>4 DEF CursorsInv
<1>5. QED
    BY <1>3, <1>4 DEF CursorsInv, SilverNotBehindBronze

LEMMA CursorsUpsert ==
    ASSUME TypeOK, CursorsInv, NEW p \in Project, NEW t \in Time, UpsertProject(p, t)
    PROVE  CursorsInv'
<1>1. /\ projects' = projects \cup {p}
      /\ silverCursor' = [silverCursor EXCEPT
                              ![p] = IF p \in projects /\ t < @ THEN @ ELSE t]
      /\ UNCHANGED <<rawProjects, rawCursor>>
    BY DEF UpsertProject
<1>2. /\ t \in Nat
      /\ \A q \in Project : rawCursor[q] \in Nat /\ silverCursor[q] \in Nat
      /\ silverCursor \in [Project -> Time]
    BY TablesAssumption DEF TypeOK, TablesTypeOK, Time
<1>3. ASSUME NEW q \in rawProjects' \cap projects' PROVE rawCursor'[q] <= silverCursor'[q]
  <2>1. q \in Project
      BY <1>1, <1>3 DEF TypeOK, TablesTypeOK
  <2>2. CASE q \in projects
    <3>1. rawCursor[q] <= silverCursor[q]
        BY <1>1, <1>3, <2>2 DEF CursorsInv, SilverNotBehindBronze
    <3>2. silverCursor[q] <= silverCursor'[q]
        BY <1>1, <1>2, <2>1, <2>2
    <3>3. silverCursor'[q] \in Nat
        BY <1>1, <1>2, <2>1
    <3>4. QED
        BY <1>1, <1>2, <2>1, <3>1, <3>2, <3>3
  <2>3. CASE q \notin projects
    <3>1. q = p /\ rawCursor[q] = 0
        BY <1>1, <1>3, <2>1, <2>3 DEF CursorsInv
    <3>2. QED
        BY <1>1, <1>2, <2>3, <3>1
  <2>4. QED
      BY <2>2, <2>3
<1>4. ASSUME NEW q \in Project, q \notin rawProjects' \cap projects' PROVE rawCursor'[q] = 0
    BY <1>1, <1>4 DEF CursorsInv
<1>5. QED
    BY <1>3, <1>4 DEF CursorsInv, SilverNotBehindBronze

LEMMA CursorsSync ==
    ASSUME TypeOK, CursorsInv, NEW p \in Project, NEW t \in Time, SyncProjectLastSynced(p, t)
    PROVE  CursorsInv'
<1>1. UNCHANGED <<rawProjects, projects>>
    BY DEF SyncProjectLastSynced
<1>2. CASE p \in rawProjects \cap projects
  <2>1. /\ rawCursor' = [rawCursor EXCEPT ![p] = t]
        /\ silverCursor' = [silverCursor EXCEPT ![p] = t]
      BY <1>2 DEF SyncProjectLastSynced
  <2>2. t \in Nat /\ rawCursor \in [Project -> Time] /\ silverCursor \in [Project -> Time]
      BY TablesAssumption DEF TypeOK, TablesTypeOK, Time
  <2>3. ASSUME NEW q \in rawProjects' \cap projects' PROVE rawCursor'[q] <= silverCursor'[q]
    <3>1. q \in Project /\ rawCursor[q] <= silverCursor[q]
        BY <1>1, <2>3 DEF TypeOK, TablesTypeOK, CursorsInv, SilverNotBehindBronze
    <3>2. QED
        BY <2>1, <2>2, <3>1
  <2>4. ASSUME NEW q \in Project, q \notin rawProjects' \cap projects' PROVE rawCursor'[q] = 0
      BY <1>1, <1>2, <2>1, <2>2, <2>4 DEF CursorsInv
  <2>5. QED
      BY <2>3, <2>4 DEF CursorsInv, SilverNotBehindBronze
<1>3. CASE p \notin rawProjects \cap projects
    BY <1>1, <1>3 DEF SyncProjectLastSynced, CursorsInv, SilverNotBehindBronze
<1>4. QED
    BY <1>2, <1>3

LEMMA CursorsStep == TypeOK /\ CursorsInv /\ [Next]_vars => CursorsInv'
<1>. SUFFICES ASSUME TypeOK, CursorsInv, [Next]_vars PROVE CursorsInv'
    OBVIOUS
<1>0. UNCHANGED projectTables => CursorsInv'
    BY DEF projectTables, CursorsInv, SilverNotBehindBronze
<1>1. CASE Tick
    BY <1>0, <1>1 DEF Tick
<1>2. ASSUME NEW e \in Event, Occur(e) PROVE CursorsInv'
    BY <1>0, <1>2 DEF Occur
<1>3. ASSUME NEW c \in Cycle, CycleStep(c) \/ KillCycle(c) PROVE CursorsInv'
  <2>1. CASE SyncCursor(c)
    <3>1. PICK p \in project[c] : SyncProjectLastSynced(p, start[c]) \/ UNCHANGED projectTables
        BY <2>1 DEF SyncCursor
    <3>2. p \in Project /\ start[c] \in Time
        BY DEF TypeOK, ExtractorTypeOK
    <3>3. QED
        BY <1>0, <3>1, <3>2, CursorsSync
  <2>2. CASE ~SyncCursor(c)
      BY <1>0, <1>3, <2>2 DEF CycleStep, StartCycle, ListProjects, BeginProject, ListIssues,
         FetchLabels, FetchNotes, InsertRawEvent, KillCycle
  <2>3. QED
      BY <2>1, <2>2
<1>4. ASSUME NEW d \in Pass, PassStep(d) \/ KillPass(d) PROVE CursorsInv'
  <2>. current[d] \subseteq Project /\ silverSeen[d] \in Time
      BY DEF TypeOK, DiscoveryTypeOK
  <2>1. CASE WriteRawProject(d)
    <3>1. PICK p \in current[d] : UpsertRawProject(p) \/ UNCHANGED projectTables
        BY <2>1 DEF WriteRawProject
    <3>2. QED
        BY <1>0, <3>1, CursorsUpsertRaw
  <2>2. CASE WriteSilverProject(d)
    <3>1. PICK p \in current[d] : UpsertProject(p, silverSeen[d]) \/ UNCHANGED projectTables
        BY <2>2 DEF WriteSilverProject
    <3>2. QED
        BY <1>0, <3>1, CursorsUpsert
  <2>3. CASE ~WriteRawProject(d) /\ ~WriteSilverProject(d)
      BY <1>0, <1>4, <2>3 DEF PassStep, StartPass, ListGroup, ReadSilverProject, KillPass
  <2>4. QED
      BY <2>1, <2>2, <2>3
<1>5. CASE UNCHANGED vars
    BY <1>0, <1>5 DEF vars
<1>6. QED
    BY <1>1, <1>2, <1>3, <1>4, <1>5 DEF Next, ExtractorNext, DiscoveryNext

\* Silver never claims less than Bronze: discovery writes back a cursor that it
\* has read some statements earlier, but GREATEST (projects.sql:6) keeps what a
\* cycle has written in between, and the first row of a project comes before
\* any cycle can move its Bronze cursor.
THEOREM SilverKeepsUp == Spec => []SilverNotBehindBronze
<1>1. Init => TypeOK /\ CursorsInv
    BY TypeInit, CursorsInit
<1>2. TypeOK /\ CursorsInv /\ [Next]_vars => TypeOK' /\ CursorsInv'
    BY TypeStep, CursorsStep
<1>3. CursorsInv => SilverNotBehindBronze
    BY DEF CursorsInv
<1>4. QED
    BY <1>1, <1>2, <1>3, PTL DEF Spec

-----------------------------------------------------------------------------
(* Nothing falls behind a cursor.                                          *)

\* A time that may become a cursor of p.
Safe(p, t) == t <= now /\ Covered(p, t)

\* c has inserted e, has passed its issue over, or still has it to do.
InHand(c, e) ==
    \/ InBronze(e) \/ e.issue \in missed \cup listed[c] \/ e \in fetched[c]
    \/ e.issue \in issue[c] /\ (e.type = "label_event" => e \in labels[c])

\* What c is to extract is in its hands.
Pending(c) ==
    \A e \in present :
        ProjectOf[e.issue] \in project[c] /\ updatedAt[e.issue] < start[c] => InHand(c, e)

CycleCovers(c) ==
    /\ \A row \in todo[c] : Safe(row[1], row[2])
    /\ \A p \in project[c] : Safe(p, since[c])
    /\ start[c] <= now
    /\ \A p, q \in project[c] : p = q
    /\ \A i, j \in issue[c] : i = j
    /\ pc[c] # "notes" => issue[c] = {}
    /\ pc[c] = "insert" => listed[c] = {}
    /\ pc[c] \in {"labels", "notes", "insert"} => Pending(c)

\* NothingBehindCursor is not inductive: a cursor may be written from a time
\* that a cycle or a pass has carried along for many steps.
CoverInv ==
    /\ \A p \in Project : Safe(p, rawCursor[p]) /\ Safe(p, silverCursor[p])
    /\ \A c \in Cycle : CycleCovers(c)
    /\ \A d \in Pass : \A p \in current[d] : Safe(p, silverSeen[d])

LEMMA CoverInit == Init => CoverInv
<1>. SUFFICES ASSUME Init PROVE CoverInv
    OBVIOUS
<1>1. /\ now = 0 /\ present = {} /\ 0 <= 0
      /\ \A p \in Project : rawCursor[p] = 0 /\ silverCursor[p] = 0
      /\ \A c \in Cycle : /\ pc[c] = "idle" /\ todo[c] = {} /\ project[c] = {}
                           /\ issue[c] = {} /\ start[c] = 0
      /\ \A d \in Pass : current[d] = {}
    BY DEF Init, TablesInit, ExtractorInit, DiscoveryInit
<1>2. \A p \in Project : Safe(p, 0)
    BY <1>1 DEF Safe, Covered
<1>3. QED
    BY <1>1, <1>2 DEF CoverInv, CycleCovers

\* What every step leaves alone: the clock, Bronze and `missed` only grow, and
\* an issue that changes gets the time of the step.
LEMMA Monotone ==
    ASSUME TypeOK, [Next]_vars
    PROVE  /\ now <= now'
           /\ missed \subseteq missed'
           /\ \A e \in Event : InBronze(e) => InBronze(e)'
           /\ \A e \in present' : \/ e \in present /\ updatedAt'[e.issue] = updatedAt[e.issue]
                                 \/ updatedAt'[e.issue] = now
<1>0. now \in Nat /\ raw \in Seq(Event)
    BY TablesAssumption DEF TypeOK, ExtractorTypeOK, Time
<1>. DEFINE Gitlab == \A e \in present' :
                          \/ e \in present /\ updatedAt'[e.issue] = updatedAt[e.issue]
                          \/ updatedAt'[e.issue] = now
            Kept == /\ now <= now' /\ missed \subseteq missed' /\ Gitlab
                    /\ raw' = raw \/ \E e \in Event : raw' = Append(raw, e)
<1>1. UNCHANGED <<now, gitlab, bronze, missed>> => Kept
    BY <1>0 DEF gitlab, bronze
<1>2. Tick => Kept
    BY <1>0 DEF Tick, gitlab, bronze
<1>3. ASSUME NEW e \in Event, Occur(e)
      PROVE  Kept
  <2>1. /\ present' = present \cup {e} /\ now' = now /\ missed' = missed /\ raw' = raw
        /\ updatedAt' = [updatedAt EXCEPT ![e.issue] = now]
      BY <1>3 DEF Occur, bronze
  <2>2. \A f \in Event : f.issue \in Issue
      BY ExtractorAssumption DEF EventRecord
  <2>3. updatedAt \in [Issue -> Time] /\ present \subseteq Event
      BY DEF TypeOK, ExtractorTypeOK
  <2>4. Gitlab
      BY <2>1, <2>2, <2>3
  <2>5. QED
      BY <1>0, <2>1, <2>4
<1>4. ASSUME NEW c \in Cycle, CycleStep(c) \/ KillCycle(c)
      PROVE  Kept
  <2>1. UNCHANGED <<now, gitlab>>
      BY <1>4 DEF CycleStep, StartCycle, ListProjects, BeginProject, ListIssues,
         FetchLabels, FetchNotes, InsertRawEvent, SyncCursor, KillCycle
  <2>2. CASE InsertRawEvent(c)
    <3>1. fetched[c] \subseteq Event
        BY DEF TypeOK, ExtractorTypeOK
    <3>2. QED
        BY <1>0, <2>1, <2>2, <3>1 DEF InsertRawEvent, FirstOf, gitlab
  <2>3. CASE ~InsertRawEvent(c)
    <3>1. raw' = raw /\ missed \subseteq missed'
        BY <1>4, <2>3 DEF CycleStep, StartCycle, ListProjects, BeginProject, ListIssues,
           FetchLabels, FetchNotes, SyncCursor, KillCycle, bronze
    <3>2. QED
        BY <1>0, <2>1, <3>1 DEF gitlab
  <2>4. QED
      BY <2>2, <2>3
<1>5. UNCHANGED extractorVars => Kept
    BY <1>1 DEF extractorVars
<1>6. UNCHANGED vars => Kept
    BY <1>5 DEF vars
<1>. HIDE DEF Kept, Gitlab
<1>7. Kept
    BY <1>2, <1>3, <1>4, <1>5, <1>6 DEF Next, ExtractorNext
<1>. USE DEF Kept, Gitlab
<1>8. ASSUME NEW e \in Event, InBronze(e) PROVE InBronze(e)'
  <2>1. PICK k \in DOMAIN raw : raw[k] = e
      BY <1>8 DEF InBronze
  <2>2. k \in DOMAIN raw' /\ raw'[k] = e
    <3>1. CASE raw' = raw
        BY <2>1, <3>1
    <3>2. ASSUME NEW f \in Event, raw' = Append(raw, f) PROVE k \in DOMAIN raw' /\ raw'[k] = e
        BY <1>0, <2>1, <3>2, AppendProperties
    <3>3. QED
        BY <1>7, <3>1, <3>2
  <2>3. QED
      BY <2>2 DEF InBronze
<1>9. QED
    BY <1>7, <1>8

\* A time that may become a cursor remains one.
LEMMA SafeStable ==
    ASSUME TypeOK, [Next]_vars, NEW p \in Project, NEW t \in Time, Safe(p, t)
    PROVE  Safe(p, t)'
<1>1. t \in Nat /\ now \in Nat /\ t <= now /\ Covered(p, t)
    BY TablesAssumption DEF Safe, TypeOK, ExtractorTypeOK, Time
<1>2. t <= now'
  <2>1. now' \in Nat /\ now <= now'
      BY TypeStep, Monotone, TablesAssumption DEF TypeOK, ExtractorTypeOK, Time
  <2>2. QED
      BY <1>1, <2>1
<1>3. ASSUME NEW e \in present', ProjectOf[e.issue] = p, updatedAt'[e.issue] < t
      PROVE  InBronze(e)' \/ e.issue \in missed'
  <2>1. e \in present /\ updatedAt[e.issue] < t
      BY <1>1, <1>3, Monotone
  <2>2. e \in Event /\ (InBronze(e) \/ e.issue \in missed)
      BY <1>1, <1>3, <2>1 DEF Covered, TypeOK, ExtractorTypeOK
  <2>3. QED
      BY <2>2, Monotone
<1>4. QED
    BY <1>2, <1>3 DEF Safe, Covered
\* What remains true of the project c is at.
LEMMA ProjectStep ==
    ASSUME TypeOK, [Next]_vars, NEW c \in Cycle, CycleCovers(c),
           \A row \in todo'[c] : Safe(row[1], row[2]), project'[c] \subseteq project[c],
           project'[c] # {} => since'[c] = since[c],
           start'[c] \in {0, start[c]}
    PROVE  /\ \A row \in todo'[c] : Safe(row[1], row[2])'
           /\ \A p \in project'[c] : Safe(p, since[c])' /\ since'[c] = since[c]
           /\ start'[c] <= now'
           /\ \A p, q \in project'[c] : p = q
<1>0. /\ now \in Nat /\ now' \in Nat /\ now <= now' /\ start[c] \in Nat /\ since[c] \in Time
      /\ todo'[c] \subseteq Project \X Time /\ project[c] \subseteq Project
  <2>1. TypeOK'
      BY TypeStep
  <2>2. now \in Nat /\ now' \in Nat /\ now <= now' /\ todo'[c] \subseteq Project \X Time
      BY <2>1, Monotone, TablesAssumption DEF TypeOK, ExtractorTypeOK, Time
  <2>3. start[c] \in Nat /\ since[c] \in Time /\ project[c] \subseteq Project
      BY TablesAssumption DEF TypeOK, ExtractorTypeOK, Time
  <2>4. QED
      BY <2>2, <2>3
<1>1. ASSUME NEW row \in todo'[c] PROVE Safe(row[1], row[2])'
  <2>1. row[1] \in Project /\ row[2] \in Time /\ Safe(row[1], row[2])
      BY <1>0, <1>1 DEF CycleCovers
  <2>2. QED
      BY <2>1, SafeStable
<1>2. ASSUME NEW p \in project'[c] PROVE Safe(p, since[c])' /\ since'[c] = since[c]
  <2>1. p \in Project /\ Safe(p, since[c])
      BY <1>0, <1>2 DEF CycleCovers
  <2>2. ASSUME NEW t \in Time, t = since[c] PROVE Safe(p, t)'
      BY <2>1, <2>2, SafeStable
  <2>3. QED
      BY <1>0, <1>2, <2>2
<1>3. start'[c] <= now'
    BY <1>0 DEF CycleCovers
<1>4. QED
    BY <1>1, <1>2, <1>3 DEF CycleCovers
\* What c has in its hands stays there, unless c lets go of it.
LEMMA PendingStep ==
    ASSUME TypeOK, [Next]_vars, NEW c \in Cycle, CycleCovers(c), Pending(c),
           project'[c] = project[c], start'[c] = start[c],
           \A e \in present : ProjectOf[e.issue] \in project[c] /\ InHand(c, e) => InHand(c, e)'
    PROVE  Pending(c)'
<1>1. now \in Nat /\ start[c] \in Nat /\ start[c] <= now
    BY TablesAssumption DEF TypeOK, ExtractorTypeOK, Time, CycleCovers
<1>2. ASSUME NEW e \in present', ProjectOf[e.issue] \in project'[c],
             updatedAt'[e.issue] < start'[c]
      PROVE  InHand(c, e)'
  <2>1. e \in present /\ updatedAt[e.issue] < start[c]
      BY <1>1, <1>2, Monotone
  <2>2. InHand(c, e)
      BY <1>2, <2>1 DEF Pending
  <2>3. QED
      BY <1>2, <2>1, <2>2
<1>3. QED
    BY <1>2 DEF Pending

\* A cycle is not disturbed by the others, by discovery or by GitLab.
LEMMA Undisturbed ==
    ASSUME TypeOK, [Next]_vars, NEW c \in Cycle, CycleCovers(c),
           pc'[c] = pc[c], todo'[c] = todo[c], project'[c] = project[c],
           since'[c] = since[c], start'[c] = start[c], listed'[c] = listed[c],
           issue'[c] = issue[c], labels'[c] = labels[c], fetched'[c] = fetched[c]
    PROVE  CycleCovers(c)'
<1>1. /\ \A row \in todo'[c] : Safe(row[1], row[2])'
      /\ \A p \in project'[c] : Safe(p, since[c])'
      /\ start'[c] <= now'
      /\ \A p, q \in project'[c] : p = q
    BY ProjectStep DEF CycleCovers
<1>2. ASSUME NEW e \in present, InHand(c, e) PROVE InHand(c, e)'
  <2>1. e \in Event
      BY DEF TypeOK, ExtractorTypeOK
  <2>2. (InBronze(e) => InBronze(e)') /\ missed \subseteq missed'
      BY <2>1, Monotone
  <2>3. QED
      BY <1>2, <2>2 DEF InHand
<1>3. pc[c] \in {"labels", "notes", "insert"} => Pending(c)'
    BY <1>2, PendingStep DEF CycleCovers
<1>4. QED
    BY <1>1, <1>3 DEF CycleCovers

\* ExtractProject or ExtractAll returned, or the process ended.
LEMMA ClearedCovers ==
    ASSUME TypeOK, [Next]_vars, NEW c \in Cycle, CycleCovers(c), ClearProject(c),
           \A row \in todo'[c] : Safe(row[1], row[2]), pc'[c] \in {"idle", "next"}
    PROVE  CycleCovers(c)'
<1>1. project'[c] = {} /\ start'[c] = 0 /\ issue'[c] = {}
    BY DEF ClearProject, TypeOK, ExtractorTypeOK
<1>2. /\ \A row \in todo'[c] : Safe(row[1], row[2])'
      /\ start'[c] <= now'
    BY <1>1, ProjectStep
<1>3. QED
    BY <1>1, <1>2 DEF CycleCovers
LEMMA StartCycleCovers ==
    ASSUME TypeOK, [Next]_vars, NEW c \in Cycle, CycleCovers(c), StartCycle(c)
    PROVE  CycleCovers(c)'
<1>1. /\ pc[c] = "idle" /\ pc'[c] = "projects"
      /\ UNCHANGED <<todo[c], project[c], since[c], start[c], issue[c]>>
    BY DEF StartCycle, Goto, TypeOK, ExtractorTypeOK, listing, fetching
<1>2. /\ \A row \in todo'[c] : Safe(row[1], row[2])'
      /\ \A p \in project'[c] : Safe(p, since[c])'
      /\ start'[c] <= now'
      /\ \A p, q \in project'[c] : p = q
    BY <1>1, ProjectStep DEF CycleCovers
<1>3. QED
    BY <1>1, <1>2 DEF CycleCovers

LEMMA ListProjectsCovers ==
    ASSUME TypeOK, [Next]_vars, NEW c \in Cycle, CoverInv, ListProjects(c)
    PROVE  CycleCovers(c)'
<1>0. CycleCovers(c)
    BY DEF CoverInv
<1>1. CASE EndCycle(c)
  <2>1. ClearProject(c) /\ todo'[c] = {} /\ pc'[c] = "idle"
      BY <1>1 DEF EndCycle, Goto, TypeOK, ExtractorTypeOK
  <2>2. QED
      BY <1>0, <2>1, ClearedCovers
<1>2. CASE ~EndCycle(c)
  <2>1. /\ todo'[c] = {<<p, rawCursor[p]>> : p \in rawProjects}
        /\ pc[c] = "projects" /\ pc'[c] \in {"idle", "next"}
        /\ UNCHANGED <<project[c], since[c], start[c], issue[c]>>
      BY <1>2 DEF ListProjects, Goto, TypeOK, ExtractorTypeOK, listing, fetching
  <2>2. rawProjects \subseteq Project
      BY DEF TypeOK, TablesTypeOK
  <2>3. \A row \in todo'[c] : Safe(row[1], row[2])
      BY <2>1, <2>2 DEF CoverInv
  <2>4. /\ \A row \in todo'[c] : Safe(row[1], row[2])'
        /\ \A p \in project'[c] : Safe(p, since[c])'
        /\ start'[c] <= now'
        /\ \A p, q \in project'[c] : p = q
      BY <1>0, <2>1, <2>3, ProjectStep
  <2>5. QED
      BY <1>0, <2>1, <2>4 DEF CycleCovers
<1>3. QED
    BY <1>1, <1>2

LEMMA BeginProjectCovers ==
    ASSUME TypeOK, [Next]_vars, NEW c \in Cycle, CycleCovers(c), BeginProject(c)
    PROVE  CycleCovers(c)'
<1>0. todo[c] \subseteq Project \X Time
    BY DEF TypeOK, ExtractorTypeOK
<1>1. PICK row \in todo[c] : BeginProject(c)!2!(row)
    BY DEF BeginProject
<1>2. /\ todo'[c] = todo[c] \ {row} /\ project'[c] = {row[1]} /\ since'[c] = row[2]
      /\ start'[c] = now /\ now' = now /\ issue'[c] = issue[c]
      /\ pc[c] = "next" /\ pc'[c] = "issues"
    BY <1>1 DEF BeginProject, Goto, TypeOK, ExtractorTypeOK, fetching
<1>3. ASSUME NEW r \in todo[c] PROVE Safe(r[1], r[2])'
  <2>1. r[1] \in Project /\ r[2] \in Time /\ Safe(r[1], r[2])
      BY <1>0 DEF CycleCovers
  <2>2. QED
      BY <2>1, SafeStable
<1>4. \A p \in project'[c] : Safe(p, since[c])'
    BY <1>2, <1>3 DEF Safe, Covered
<1>5. start'[c] <= now'
    BY <1>2, TablesAssumption DEF TypeOK, ExtractorTypeOK, Time
<1>6. QED
    BY <1>2, <1>3, <1>4, <1>5 DEF CycleCovers

LEMMA ListIssuesCovers ==
    ASSUME TypeOK, [Next]_vars, NEW c \in Cycle, CycleCovers(c), ListIssues(c)
    PROVE  CycleCovers(c)'
<1>1. pc[c] = "issues"
    BY DEF ListIssues
<1>2. PICK p \in project[c] : ListIssues(c)!2!(p)
    BY DEF ListIssues
<1>. DEFINE matching == Updated(p, since[c])
            got == listed[c] \cup PageOf(matching, page[c])
<1>3. CASE EndProject(c)
  <2>1. ClearProject(c) /\ todo'[c] = todo[c] /\ pc'[c] \in {"idle", "next"}
      BY <1>3 DEF EndProject, Goto, TypeOK, ExtractorTypeOK
  <2>2. QED
      BY <2>1, ClearedCovers DEF CycleCovers
<1>4. CASE ~EndProject(c)
  <2>1. UNCHANGED <<todo, project, start, since, fetching>>
      BY <1>2, <1>4
  <2>2. /\ \A row \in todo'[c] : Safe(row[1], row[2])'
        /\ \A q \in project'[c] : Safe(q, since[c])'
        /\ start'[c] <= now'
        /\ \A q, r \in project'[c] : q = r
      BY <2>1, ProjectStep DEF CycleCovers
  <2>3. issue' = issue
      BY <2>1 DEF fetching
  <2>4. CASE pc' = pc
      BY <1>1, <2>2, <2>3, <2>4 DEF CycleCovers
  <2>5. CASE pc' # pc
    <3>1. /\ listed' = [listed EXCEPT ![c] = got]
          /\ FetchNext(c, got)
          /\ missed' = missed \cup {i \in matching \ got : updatedAt[i] < start[c]}
        BY <1>2, <1>4, <2>5
    <3>2. listed'[c] = got
        BY <3>1 DEF TypeOK, ExtractorTypeOK
    <3>3. UNCHANGED <<present, updatedAt, raw, start, project>>
        BY <2>1 DEF ListIssues, gitlab, bronze
    <3>4. ASSUME NEW e \in present', ProjectOf[e.issue] \in project'[c],
                 updatedAt'[e.issue] < start'[c]
          PROVE  InHand(c, e)'
      <4>1. /\ e \in present /\ ProjectOf[e.issue] = p /\ updatedAt[e.issue] < start[c]
            /\ e.issue \in Issue
          BY <1>2, <3>3, <3>4, ExtractorAssumption
          DEF CycleCovers, TypeOK, ExtractorTypeOK, EventRecord
      <4>2. CASE e.issue \in matching
          BY <3>1, <3>2, <4>1, <4>2 DEF InHand
      <4>3. CASE e.issue \notin matching
        <5>1. updatedAt[e.issue] \in Nat /\ since[c] \in Nat
            BY <4>1, TablesAssumption DEF TypeOK, ExtractorTypeOK, Time
        <5>2. updatedAt[e.issue] < since[c]
            BY <4>1, <4>3, <5>1 DEF Updated
        <5>3. InBronze(e) \/ e.issue \in missed
            BY <1>2, <4>1, <5>2 DEF CycleCovers, Safe, Covered
        <5>4. QED
            BY <3>1, <3>3, <5>3 DEF InHand, InBronze
      <4>4. QED
          BY <4>2, <4>3
    <3>5. pc'[c] = (IF got = {} THEN "insert" ELSE "labels")
        BY <3>1 DEF FetchNext, Goto, TypeOK, ExtractorTypeOK
    <3>6. Pending(c)'
        BY <3>4 DEF Pending
    <3>7. issue'[c] = {}
        BY <1>1, <2>3 DEF CycleCovers
    <3>. HIDE DEF got
    <3>8. QED
        BY <2>2, <3>2, <3>5, <3>6, <3>7 DEF CycleCovers
  <2>6. QED
      BY <2>4, <2>5
<1>5. QED
    BY <1>3, <1>4
LEMMA FetchLabelsCovers ==
    ASSUME TypeOK, [Next]_vars, NEW c \in Cycle, CycleCovers(c), FetchLabels(c)
    PROVE  CycleCovers(c)'
<1>1. PICK i \in listed[c] : FetchLabels(c)!2!(i)
    BY DEF FetchLabels
<1>2. /\ pc[c] = "labels" /\ issue[c] = {} /\ Pending(c)
      /\ UNCHANGED <<present, raw, todo, project, start, since, fetched>>
    BY DEF FetchLabels, gitlab, CycleCovers
<1>3. /\ \A row \in todo'[c] : Safe(row[1], row[2])'
      /\ \A p \in project'[c] : Safe(p, since[c])'
      /\ start'[c] <= now'
      /\ \A p, q \in project'[c] : p = q
    BY <1>2, ProjectStep DEF CycleCovers
<1>4. listed'[c] = listed[c] \ {i}
    BY <1>1 DEF TypeOK, ExtractorTypeOK
<1>5. CASE pc' = [pc EXCEPT ![c] = "notes"] /\ issue' = [issue EXCEPT ![c] = {i}]
           /\ labels' = [labels EXCEPT ![c] = EventsOf(i, "label_event")] /\ missed' = missed
  <2>1. pc'[c] = "notes" /\ issue'[c] = {i} /\ labels'[c] = EventsOf(i, "label_event")
      BY <1>5 DEF TypeOK, ExtractorTypeOK
  <2>2. ASSUME NEW e \in present, InHand(c, e) PROVE InHand(c, e)'
    <3>1. CASE e.issue = i
        BY <2>1, <3>1 DEF InHand, EventsOf
    <3>2. CASE e.issue # i
        BY <1>2, <1>4, <1>5, <2>2, <3>2 DEF InHand, InBronze
    <3>3. QED
        BY <3>1, <3>2
  <2>3. Pending(c)'
      BY <1>2, <2>2, PendingStep
  <2>4. QED
      BY <1>3, <2>1, <2>3 DEF CycleCovers
<1>6. CASE NextIssue(c, listed'[c]) /\ missed' = missed \cup {i}
  <2>1. pc'[c] = (IF listed'[c] = {} THEN "insert" ELSE "labels") /\ issue'[c] = {}
      BY <1>6 DEF NextIssue, FetchNext, Goto, TypeOK, ExtractorTypeOK
  <2>2. ASSUME NEW e \in present, InHand(c, e) PROVE InHand(c, e)'
      BY <1>2, <1>4, <1>6, <2>2 DEF InHand, InBronze
  <2>3. Pending(c)'
      BY <1>2, <2>2, PendingStep
  <2>4. QED
      BY <1>3, <2>1, <2>3 DEF CycleCovers
<1>7. QED
    BY <1>1, <1>5, <1>6 DEF Goto

LEMMA FetchNotesCovers ==
    ASSUME TypeOK, [Next]_vars, NEW c \in Cycle, CycleCovers(c), FetchNotes(c)
    PROVE  CycleCovers(c)'
<1>1. PICK i \in issue[c] : FetchNotes(c)!3!(i)
    BY DEF FetchNotes
<1>2. /\ pc[c] = "notes" /\ issue[c] = {i} /\ Pending(c) /\ missed \subseteq missed'
      /\ fetched[c] \subseteq fetched'[c]
      /\ UNCHANGED <<present, raw, todo, project, start, since, listed>>
    BY <1>1 DEF FetchNotes, gitlab, bronze, listing, CycleCovers, TypeOK, ExtractorTypeOK
<1>3. /\ \A row \in todo'[c] : Safe(row[1], row[2])'
      /\ \A p \in project'[c] : Safe(p, since[c])'
      /\ start'[c] <= now'
      /\ \A p, q \in project'[c] : p = q
    BY <1>2, ProjectStep DEF CycleCovers
<1>4. pc'[c] = (IF listed[c] = {} THEN "insert" ELSE "labels") /\ issue'[c] = {}
    BY DEF FetchNotes, NextIssue, FetchNext, Goto, TypeOK, ExtractorTypeOK
<1>5. ASSUME NEW e \in present, InHand(c, e) PROVE InHand(c, e)'
  <2>1. CASE e.issue = i /\ (e.type = "label_event" => e \in labels[c])
    <3>1. CASE missed' = missed \cup {i}
        BY <2>1, <3>1 DEF InHand
    <3>2. CASE fetched' = [fetched EXCEPT ![c] = @ \cup labels[c] \cup EventsOf(i, "note")]
      <4>1. e.type \in {"label_event", "note"}
          BY ExtractorAssumption DEF EventRecord, TypeOK, ExtractorTypeOK
      <4>2. e \in fetched'[c]
          BY <2>1, <3>2, <4>1 DEF EventsOf, TypeOK, ExtractorTypeOK
      <4>3. QED
          BY <4>2 DEF InHand
    <3>3. QED
        BY <1>1, <3>1, <3>2
  <2>2. CASE ~(e.issue = i /\ (e.type = "label_event" => e \in labels[c]))
      BY <1>2, <1>5, <2>2 DEF InHand, InBronze
  <2>3. QED
      BY <2>1, <2>2
<1>6. Pending(c)'
    BY <1>2, <1>5, PendingStep
<1>7. QED
    BY <1>2, <1>3, <1>4, <1>6 DEF CycleCovers

LEMMA InsertRawEventCovers ==
    ASSUME TypeOK, [Next]_vars, NEW c \in Cycle, CycleCovers(c), InsertRawEvent(c)
    PROVE  CycleCovers(c)'
<1>1. PICK d \in FirstOf(fetched[c]) : InsertRawEvent(c)!2!(d)
    BY DEF InsertRawEvent
<1>2. /\ pc[c] = "insert" /\ Pending(c) /\ fetched'[c] = fetched[c] \ {d}
      /\ UNCHANGED <<pc, todo, project, start, since, listed, issue, labels>>
    BY <1>1 DEF InsertRawEvent, listing, CycleCovers, TypeOK, ExtractorTypeOK
<1>3. /\ \A row \in todo'[c] : Safe(row[1], row[2])'
      /\ \A p \in project'[c] : Safe(p, since[c])'
      /\ start'[c] <= now'
      /\ \A p, q \in project'[c] : p = q
    BY <1>2, ProjectStep DEF CycleCovers
<1>4. ASSUME NEW e \in present, InHand(c, e) PROVE InHand(c, e)'
  <2>1. e \in Event /\ raw \in Seq(Event)
      BY DEF TypeOK, ExtractorTypeOK
  <2>2. CASE e = d
    <3>1. CASE raw' = Append(raw, d)
        BY <2>1, <2>2, <3>1, AppendProperties DEF InHand, InBronze
    <3>2. CASE missed' = missed \cup {d.issue}
        BY <2>2, <3>2 DEF InHand
    <3>3. QED
        BY <1>1, <3>1, <3>2
  <2>3. CASE e # d
    <3>1. (InBronze(e) => InBronze(e)') /\ missed \subseteq missed'
        BY <2>1, Monotone
    <3>2. QED
        BY <1>2, <1>4, <2>3, <3>1 DEF InHand
  <2>4. QED
      BY <2>2, <2>3
<1>5. Pending(c)'
    BY <1>2, <1>4, PendingStep
<1>6. QED
    BY <1>2, <1>3, <1>5 DEF CycleCovers
\* The step of a cycle touches the locals of no other.
LEMMA Others ==
    ASSUME TypeOK, NEW b \in Cycle, NEW c \in Cycle, b # c, CycleStep(b) \/ KillCycle(b)
    PROVE  /\ pc'[c] = pc[c] /\ todo'[c] = todo[c] /\ project'[c] = project[c]
           /\ since'[c] = since[c] /\ start'[c] = start[c] /\ listed'[c] = listed[c]
           /\ issue'[c] = issue[c] /\ labels'[c] = labels[c] /\ fetched'[c] = fetched[c]
<1>. USE DEF TypeOK, ExtractorTypeOK, Goto, listing, fetching
<1>1. CASE StartCycle(b)
    BY <1>1 DEF StartCycle
<1>2. CASE ListProjects(b)
    BY <1>2 DEF ListProjects, EndCycle, ClearProject
<1>3. CASE BeginProject(b)
    BY <1>3 DEF BeginProject
<1>4. CASE ListIssues(b)
    BY <1>4 DEF ListIssues, EndProject, ClearProject, FetchNext
<1>5. CASE FetchLabels(b)
    BY <1>5 DEF FetchLabels, NextIssue, FetchNext
<1>6. CASE FetchNotes(b)
    BY <1>6 DEF FetchNotes, NextIssue, FetchNext
<1>7. CASE InsertRawEvent(b)
    BY <1>7 DEF InsertRawEvent
<1>8. CASE SyncCursor(b)
    BY <1>8 DEF SyncCursor, EndProject, ClearProject
<1>9. CASE KillCycle(b)
    BY <1>9 DEF KillCycle, EndCycle, ClearProject
<1>10. QED
    BY <1>1, <1>2, <1>3, <1>4, <1>5, <1>6, <1>7, <1>8, <1>9 DEF CycleStep

LEMMA CycleStepCovers ==
    ASSUME TypeOK, [Next]_vars, CoverInv, NEW c \in Cycle, CycleStep(c) \/ KillCycle(c)
    PROVE  CycleCovers(c)'
<1>0. CycleCovers(c)
    BY DEF CoverInv
<1>1. CASE SyncCursor(c)
  <2>1. ClearProject(c) /\ todo'[c] = todo[c] /\ pc'[c] \in {"idle", "next"}
      BY <1>1 DEF SyncCursor, EndProject, Goto, TypeOK, ExtractorTypeOK
  <2>2. QED
      BY <1>0, <2>1, ClearedCovers DEF CycleCovers
<1>2. CASE KillCycle(c)
  <2>1. ClearProject(c) /\ todo'[c] = {} /\ pc'[c] = "idle"
      BY <1>2 DEF KillCycle, EndCycle, Goto, TypeOK, ExtractorTypeOK
  <2>2. QED
      BY <1>0, <2>1, ClearedCovers
<1>3. QED
    BY <1>0, <1>1, <1>2, StartCycleCovers, ListProjectsCovers, BeginProjectCovers,
       ListIssuesCovers, FetchLabelsCovers, FetchNotesCovers, InsertRawEventCovers DEF CycleStep

\* All that c was to extract is done when it writes the cursor.
LEMMA StartIsSafe ==
    ASSUME TypeOK, NEW c \in Cycle, CycleCovers(c), pc[c] = "insert", fetched[c] = {},
           NEW p \in project[c]
    PROVE  Safe(p, start[c])
<1>1. Pending(c) /\ issue[c] = {} /\ listed[c] = {} /\ start[c] <= now
    BY DEF CycleCovers
<1>2. QED
    BY <1>1 DEF Pending, InHand, Safe, Covered

LEMMA CursorsSafeStep ==
    ASSUME TypeOK, [Next]_vars, CoverInv, NEW q \in Project
    PROVE  Safe(q, rawCursor[q])' /\ Safe(q, silverCursor[q])'
<1>0. /\ rawCursor \in [Project -> Time] /\ silverCursor \in [Project -> Time] /\ 0 \in Time
      /\ \A c \in Cycle : project[c] \subseteq Project /\ start[c] \in Time
      /\ \A d \in Pass : current[d] \subseteq Project /\ silverSeen[d] \in Time
    BY TablesAssumption DEF TypeOK, TablesTypeOK, ExtractorTypeOK, DiscoveryTypeOK, Time
<1>. DEFINE OldOrSafe(t) == t \in {rawCursor[q], silverCursor[q]} \/ (t \in Time /\ Safe(q, t))
<1>1. UNCHANGED projectTables => OldOrSafe(rawCursor'[q]) /\ OldOrSafe(silverCursor'[q])
    BY DEF projectTables
<1>2. ASSUME NEW c \in Cycle, SyncCursor(c)
      PROVE  OldOrSafe(rawCursor'[q]) /\ OldOrSafe(silverCursor'[q])
  <2>1. PICK p \in project[c] : SyncProjectLastSynced(p, start[c]) \/ UNCHANGED projectTables
      BY <1>2 DEF SyncCursor
  <2>2. Safe(p, start[c])
      BY <1>2, StartIsSafe DEF SyncCursor, CoverInv
  <2>3. QED
      BY <1>0, <1>1, <2>1, <2>2 DEF SyncProjectLastSynced
<1>3. ASSUME NEW d \in Pass, WriteRawProject(d) \/ WriteSilverProject(d)
      PROVE  OldOrSafe(rawCursor'[q]) /\ OldOrSafe(silverCursor'[q])
  <2>1. PICK p \in current[d] : \/ UpsertRawProject(p) \/ UpsertProject(p, silverSeen[d])
                               \/ UNCHANGED projectTables
      BY <1>3 DEF WriteRawProject, WriteSilverProject
  <2>2. Safe(p, silverSeen[d])
      BY DEF CoverInv
  <2>3. QED
      BY <1>0, <1>1, <2>1, <2>2 DEF UpsertRawProject, UpsertProject
<1>. HIDE DEF OldOrSafe
<1>4. \/ UNCHANGED projectTables
      \/ \E c \in Cycle : SyncCursor(c)
      \/ \E d \in Pass : WriteRawProject(d) \/ WriteSilverProject(d)
  <2>1. CASE Tick \/ UNCHANGED vars
      BY <2>1 DEF Tick, vars
  <2>2. ASSUME NEW e \in Event, Occur(e) PROVE UNCHANGED projectTables
      BY <2>2 DEF Occur
  <2>3. ASSUME NEW c \in Cycle, CycleStep(c) \/ KillCycle(c)
        PROVE  UNCHANGED projectTables \/ SyncCursor(c)
      BY <2>3 DEF CycleStep, StartCycle, ListProjects, BeginProject, ListIssues,
         FetchLabels, FetchNotes, InsertRawEvent, KillCycle
  <2>4. ASSUME NEW d \in Pass, PassStep(d) \/ KillPass(d)
        PROVE  UNCHANGED projectTables \/ WriteRawProject(d) \/ WriteSilverProject(d)
      BY <2>4 DEF PassStep, StartPass, ListGroup, ReadSilverProject, KillPass
  <2>5. QED
      BY <2>1, <2>2, <2>3, <2>4 DEF Next, ExtractorNext, DiscoveryNext
<1>5. OldOrSafe(rawCursor'[q]) /\ OldOrSafe(silverCursor'[q])
    BY <1>1, <1>2, <1>3, <1>4
<1>6. ASSUME NEW t \in Time, OldOrSafe(t) PROVE Safe(q, t)'
  <2>1. Safe(q, t)
      BY <1>6 DEF OldOrSafe, CoverInv
  <2>2. QED
      BY <2>1, SafeStable
<1>7. rawCursor'[q] \in Time /\ silverCursor'[q] \in Time
    BY TypeStep DEF TypeOK, TablesTypeOK
<1>8. QED
    BY <1>5, <1>6, <1>7 DEF Safe, Covered, InBronze

LEMMA PassCovers ==
    ASSUME TypeOK, [Next]_vars, CoverInv, NEW b \in Pass, NEW p \in current'[b]
    PROVE  Safe(p, silverSeen[b])'
<1>0. /\ current'[b] \subseteq Project /\ silverSeen'[b] \in Time /\ 0 \in Time
      /\ silverCursor \in [Project -> Time]
    BY TypeStep, TablesAssumption DEF TypeOK, DiscoveryTypeOK, TablesTypeOK, Time
<1>1. Safe(p, 0)
  <2>1. now \in Nat /\ present \subseteq Event /\ \A i \in Issue : updatedAt[i] \in Nat
      BY TablesAssumption DEF TypeOK, ExtractorTypeOK, Time
  <2>2. \A e \in Event : e.issue \in Issue
      BY ExtractorAssumption DEF EventRecord
  <2>3. 0 <= now /\ \A e \in present : ~(updatedAt[e.issue] < 0)
      BY <2>1, <2>2
  <2>4. QED
      BY <2>3 DEF Safe, Covered
<1>2. \/ p \in current[b] /\ silverSeen'[b] = silverSeen[b]
      \/ silverSeen'[b] \in {0, silverCursor[p]}
  <2>1. CASE UNCHANGED discoveryVars \/ UNCHANGED vars
      BY <2>1 DEF vars, discoveryVars
  <2>2. ASSUME NEW d \in Pass, PassStep(d) \/ KillPass(d)
        PROVE  \/ p \in current[b] /\ silverSeen'[b] = silverSeen[b]
               \/ silverSeen'[b] \in {0, silverCursor[p]}
    <3>. USE DEF TypeOK, DiscoveryTypeOK
    <3>1. CASE StartPass(d)
        BY <3>1 DEF StartPass
    <3>2. CASE ListGroup(d)
        BY <3>2 DEF ListGroup, EndPass
    <3>3. CASE ReadSilverProject(d)
        BY <3>3 DEF ReadSilverProject, NextProject
    <3>4. CASE WriteRawProject(d)
        BY <3>4 DEF WriteRawProject, NextProject
    <3>5. CASE WriteSilverProject(d)
        BY <3>5 DEF WriteSilverProject, NextProject
    <3>6. CASE KillPass(d)
        BY <3>6 DEF KillPass, EndPass
    <3>7. QED
        BY <2>2, <3>1, <3>2, <3>3, <3>4, <3>5, <3>6 DEF PassStep
  <2>3. QED
      BY <2>1, <2>2 DEF Next, DiscoveryNext
<1>3. ASSUME NEW t \in Time, t = silverSeen'[b] PROVE Safe(p, t)'
  <2>1. Safe(p, t)
      BY <1>0, <1>1, <1>2, <1>3 DEF CoverInv
  <2>2. QED
      BY <1>0, <2>1, SafeStable
<1>4. QED
    BY <1>0, <1>3 DEF Safe, Covered, InBronze

LEMMA CoverStep == TypeOK /\ CoverInv /\ [Next]_vars => CoverInv'
<1>. SUFFICES ASSUME TypeOK, CoverInv, [Next]_vars PROVE CoverInv'
    OBVIOUS
<1>1. ASSUME NEW c \in Cycle PROVE CycleCovers(c)'
  <2>1. CycleCovers(c)
      BY DEF CoverInv
  <2>2. CASE UNCHANGED cycleVars
      BY <2>1, <2>2, Undisturbed DEF cycleVars, listing, fetching
  <2>3. ASSUME NEW b \in Cycle, CycleStep(b) \/ KillCycle(b) PROVE CycleCovers(c)'
    <3>1. CASE b = c
        BY <2>3, <3>1, CycleStepCovers
    <3>2. CASE b # c
        BY <2>1, <2>3, <3>2, Others, Undisturbed
    <3>3. QED
        BY <3>1, <3>2
  <2>4. CASE Tick
      BY <2>2, <2>4 DEF Tick
  <2>5. ASSUME NEW e \in Event, Occur(e) PROVE CycleCovers(c)'
      BY <2>2, <2>5 DEF Occur
  <2>6. CASE UNCHANGED extractorVars \/ UNCHANGED vars
      BY <2>2, <2>6 DEF extractorVars, vars
  <2>7. QED
      BY <2>3, <2>4, <2>5, <2>6 DEF Next, ExtractorNext
<1>2. QED
    BY <1>1, CursorsSafeStep, PassCovers DEF CoverInv

\* Nothing falls behind a cursor: whatever happened before the cursor of its
\* project is in Bronze, or its issue was passed over.  It holds although cycles
\* overlap, GitLab changes between their requests, discovery writes back an old
\* Silver cursor, and cycles and passes fail or are killed anywhere, because the
\* cursor is the time before the first request (extractor.go:82, 124).
THEOREM NoEventLeftBehind == Spec => []NothingBehindCursor
<1>1. Init => TypeOK /\ CoverInv
    BY TypeInit, CoverInit
<1>2. TypeOK /\ CoverInv /\ [Next]_vars => TypeOK' /\ CoverInv'
    BY TypeStep, CoverStep
<1>3. CoverInv => NothingBehindCursor
    BY DEF CoverInv, NothingBehindCursor, Safe
<1>4. QED
    BY <1>1, <1>2, <1>3, PTL DEF Spec

-----------------------------------------------------------------------------
(* The order in which the events of an issue reach Bronze, for any number  *)
(* of cycles that overlap.                                                 *)

\* Nothing of S has an earlier event outside S.
Complete(S) == \A e \in S : \A f \in Event : Earlier(f, e) => f \in S

\* Whatever comes before an event that c has yet to insert is to be inserted by
\* c as well, or a cycle has inserted it, or has passed its issue over.
Arriving(c) ==
    \A e \in fetched[c] : \A f \in Event :
        Earlier(f, e) => f \in fetched[c] \/ InBronze(f) \/ f.issue \in missed

\* Why the rows arrive in order: a cycle fetches the history of an issue from
\* its beginning, and so each copy of it is inserted from its beginning.
ArrivalInv ==
    /\ Complete(present)
    /\ \A c \in Cycle : Complete(labels[c]) /\ Arriving(c)
    /\ ArrivesInOrder

LEMMA ArrivalInit == Init => ArrivalInv
<1>1. ASSUME Init PROVE ArrivalInv
  <2>1. /\ present = {} /\ raw = <<>>
        /\ \A c \in Cycle : labels[c] = {} /\ fetched[c] = {}
      BY <1>1 DEF Init, ExtractorInit
  <2>2. DOMAIN raw = {}
      BY <2>1
  <2>3. QED
      BY <2>1, <2>2 DEF ArrivalInv, Complete, Arriving, ArrivesInOrder
<1>2. QED
    BY <1>1

\* A listing of the events of an issue has the earlier ones, too.
LEMMA ListingIsComplete ==
    ASSUME Complete(present), NEW i, NEW type
    PROVE  Complete(EventsOf(i, type))
BY DEF Complete, EventsOf, Earlier

\* What a cycle that does not insert has in hand is still in order.
LEMMA StillArriving ==
    ASSUME TypeOK, [Next]_vars, NEW c \in Cycle, Arriving(c), fetched'[c] \subseteq fetched[c],
           \A f \in fetched[c] \ fetched'[c] : InBronze(f)' \/ f.issue \in missed'
    PROVE  Arriving(c)'
<1>1. ASSUME NEW e \in fetched'[c], NEW f \in Event, Earlier(f, e)
      PROVE  f \in fetched'[c] \/ InBronze(f)' \/ f.issue \in missed'
  <2>1. f \in fetched[c] \/ InBronze(f) \/ f.issue \in missed
      BY <1>1 DEF Arriving
  <2>2. (InBronze(f) => InBronze(f)') /\ missed \subseteq missed'
      BY Monotone
  <2>3. QED
      BY <2>1, <2>2
<1>2. QED
    BY <1>1 DEF Arriving

LEMMA NothingInHand ==
    ASSUME NEW c \in Cycle, fetched'[c] = {}, labels'[c] = {}
    PROVE  Complete(labels[c])' /\ Arriving(c)'
BY DEF Complete, Arriving

LEMMA FetchNotesArrives ==
    ASSUME TypeOK, [Next]_vars, NEW c \in Cycle, FetchNotes(c), Complete(present),
           Complete(labels[c]), Arriving(c)
    PROVE  Complete(labels[c])' /\ Arriving(c)'
<1>1. labels'[c] = {}
    BY DEF FetchNotes, NextIssue, TypeOK, ExtractorTypeOK
<1>2. CASE fetched' = fetched
    BY <1>1, <1>2, StillArriving DEF Complete
<1>3. ASSUME NEW i \in issue[c],
             fetched' = [fetched EXCEPT ![c] = @ \cup labels[c] \cup EventsOf(i, "note")]
      PROVE  Arriving(c)'
  <2>1. fetched'[c] = fetched[c] \cup labels[c] \cup EventsOf(i, "note")
      BY <1>3 DEF TypeOK, ExtractorTypeOK
  <2>2. Complete(labels[c]) /\ Complete(EventsOf(i, "note"))
      BY ListingIsComplete
  <2>3. ASSUME NEW e \in fetched'[c], NEW f \in Event, Earlier(f, e)
        PROVE  f \in fetched'[c] \/ InBronze(f)' \/ f.issue \in missed'
    <3>1. CASE e \in labels[c] \cup EventsOf(i, "note")
        BY <2>1, <2>2, <2>3, <3>1 DEF Complete
    <3>2. CASE e \in fetched[c]
      <4>1. f \in fetched[c] \/ InBronze(f) \/ f.issue \in missed
          BY <2>3, <3>2 DEF Arriving
      <4>2. (InBronze(f) => InBronze(f)') /\ missed \subseteq missed'
          BY Monotone
      <4>3. QED
          BY <2>1, <4>1, <4>2
    <3>3. QED
        BY <2>1, <3>1, <3>2
  <2>4. QED
      BY <2>3 DEF Arriving
<1>4. QED
    BY <1>1, <1>2, <1>3 DEF FetchNotes, Complete

\* The steps that insert nothing leave the order of the rows alone.
LEMMA RowsKeepOrder ==
    ASSUME TypeOK, [Next]_vars, ArrivesInOrder, raw' = raw
    PROVE  ArrivesInOrder'
<1>1. missed \subseteq missed'
    BY Monotone
<1>2. QED
    BY <1>1 DEF ArrivesInOrder

LEMMA InsertRawEventArrives ==
    ASSUME TypeOK, [Next]_vars, NEW c \in Cycle, InsertRawEvent(c),
           Complete(labels[c]), Arriving(c), ArrivesInOrder
    PROVE  Complete(labels[c])' /\ Arriving(c)' /\ ArrivesInOrder'
<1>0. raw \in Seq(Event) /\ fetched[c] \subseteq Event /\ missed \subseteq missed'
    BY Monotone DEF TypeOK, ExtractorTypeOK
<1>1. PICK e \in FirstOf(fetched[c]) : InsertRawEvent(c)!2!(e)
    BY DEF InsertRawEvent
<1>2. /\ e \in fetched[c] /\ e \in Event /\ labels' = labels
      /\ fetched'[c] = fetched[c] \ {e}
      /\ raw' = raw \/ raw' = Append(raw, e)
      /\ raw' = Append(raw, e) \/ e.issue \in missed'
    BY <1>0, <1>1 DEF InsertRawEvent, FirstOf, TypeOK, ExtractorTypeOK
<1>3. InBronze(e)' \/ e.issue \in missed'
    BY <1>0, <1>2, AppendProperties DEF InBronze
<1>4. Arriving(c)'
    BY <1>2, <1>3, StillArriving
<1>5. CASE raw' = raw
    BY <1>2, <1>4, <1>5, RowsKeepOrder DEF Complete
<1>6. CASE raw' = Append(raw, e)
  <2>1. /\ DOMAIN raw = 1 .. Len(raw) /\ DOMAIN raw' = 1 .. Len(raw) + 1 /\ Len(raw) \in Nat
        /\ raw'[Len(raw) + 1] = e /\ \A k \in 1 .. Len(raw) : raw'[k] = raw[k]
      BY <1>0, <1>2, <1>6, AppendProperties, LenProperties
  <2>2. ASSUME NEW k \in DOMAIN raw', NEW f \in Event, Earlier(f, raw'[k]), f.issue \notin missed'
        PROVE  \E j \in 1 .. k - 1 : raw'[j] = f
    <3>1. CASE k \in DOMAIN raw
      <4>1. PICK j \in 1 .. k - 1 : raw[j] = f
          BY <1>0, <2>1, <2>2, <3>1 DEF ArrivesInOrder
      <4>2. raw'[j] = f
          BY <2>1, <3>1, <4>1
      <4>3. QED
          BY <4>2
    <3>2. CASE k = Len(raw) + 1
      <4>1. Earlier(f, e)
          BY <2>1, <2>2, <3>2
      <4>2. f \notin fetched[c]
          BY <1>1, <4>1 DEF FirstOf
      <4>3. PICK j \in DOMAIN raw : raw[j] = f
          BY <1>0, <1>2, <2>2, <4>1, <4>2 DEF Arriving, InBronze
      <4>4. j \in 1 .. k - 1 /\ raw'[j] = f
          BY <2>1, <3>2, <4>3
      <4>5. QED
          BY <4>4
    <3>3. QED
        BY <2>1, <3>1, <3>2
  <2>3. \A k \in DOMAIN raw' : \A f \in Event :
            Earlier(f, raw'[k]) /\ f.issue \notin missed' => \E j \in 1 .. k - 1 : raw'[j] = f
      BY <2>2
  <2>4. QED
      BY <1>2, <1>4, <2>3, Zenon DEF ArrivesInOrder, Complete
<1>7. QED
    BY <1>2, <1>4, <1>5, <1>6 DEF Complete

LEMMA CycleArrives ==
    ASSUME TypeOK, [Next]_vars, ArrivalInv, NEW c \in Cycle, CycleStep(c) \/ KillCycle(c)
    PROVE  Complete(labels[c])' /\ Arriving(c)' /\ ArrivesInOrder'
<1>. DEFINE Goal == Complete(labels[c])' /\ Arriving(c)' /\ ArrivesInOrder'
<1>0. Complete(present) /\ Complete(labels[c]) /\ Arriving(c) /\ ArrivesInOrder
    BY DEF ArrivalInv
<1>1. ASSUME raw' = raw, labels'[c] = labels[c], fetched'[c] = fetched[c] PROVE Goal
    BY <1>0, <1>1, StillArriving, RowsKeepOrder DEF Complete
<1>2. ASSUME raw' = raw, ClearProject(c) PROVE Goal
  <2>1. labels'[c] = {} /\ fetched'[c] = {}
      BY <1>2 DEF ClearProject, TypeOK, ExtractorTypeOK
  <2>2. QED
      BY <1>0, <1>2, <2>1, NothingInHand, RowsKeepOrder
<1>. SUFFICES Goal
    BY DEF Goal
<1>. HIDE DEF Goal
<1>3. CASE StartCycle(c)
    BY <1>1, <1>3 DEF StartCycle, bronze, fetching
<1>4. CASE ListProjects(c)
    BY <1>1, <1>2, <1>4 DEF ListProjects, bronze, fetching, EndCycle
<1>5. CASE BeginProject(c)
    BY <1>1, <1>5 DEF BeginProject, bronze, fetching
<1>6. CASE ListIssues(c)
    BY <1>1, <1>2, <1>6 DEF ListIssues, bronze, fetching, EndProject
<1>7. CASE FetchLabels(c)
  <2>1. raw' = raw /\ fetched' = fetched
      BY <1>7 DEF FetchLabels
  <2>2. labels'[c] = {} \/ \E i : labels'[c] = EventsOf(i, "label_event")
      BY <1>7 DEF FetchLabels, NextIssue, TypeOK, ExtractorTypeOK
  <2>3. Complete(labels[c])'
    <3>1. CASE labels'[c] = {}
        BY <3>1 DEF Complete
    <3>2. ASSUME NEW i, labels'[c] = EventsOf(i, "label_event") PROVE Complete(labels[c])'
      <4>1. Complete(EventsOf(i, "label_event"))
          BY <1>0, ListingIsComplete
      <4>2. QED
          BY <3>2, <4>1 DEF Complete
    <3>3. QED
        BY <2>2, <3>1, <3>2
  <2>4. QED
      BY <1>0, <2>1, <2>3, StillArriving, RowsKeepOrder DEF Goal
<1>8. CASE FetchNotes(c)
  <2>1. raw' = raw
      BY <1>8 DEF FetchNotes, bronze
  <2>2. QED
      BY <1>0, <1>8, <2>1, FetchNotesArrives, RowsKeepOrder DEF Goal
<1>9. CASE InsertRawEvent(c)
    BY <1>0, <1>9, InsertRawEventArrives DEF Goal
<1>10. CASE SyncCursor(c)
    BY <1>2, <1>10 DEF SyncCursor, EndProject, bronze
<1>11. CASE KillCycle(c)
    BY <1>2, <1>11 DEF KillCycle, EndCycle, bronze
<1>12. QED
    BY <1>3, <1>4, <1>5, <1>6, <1>7, <1>8, <1>9, <1>10, <1>11 DEF CycleStep

\* What happens in GitLab happens in order.
LEMMA PresentStaysComplete ==
    ASSUME TypeOK, [Next]_vars, Complete(present)
    PROVE  Complete(present)'
<1>1. ASSUME NEW c \in Cycle, CycleStep(c) \/ KillCycle(c) PROVE present' = present
    BY <1>1 DEF CycleStep, StartCycle, ListProjects, BeginProject, ListIssues, FetchLabels,
       FetchNotes, InsertRawEvent, SyncCursor, KillCycle, gitlab
<1>2. CASE present' = present
    BY <1>2 DEF Complete
<1>3. ASSUME NEW e \in Event, Occur(e) PROVE Complete(present)'
    BY <1>3 DEF Occur, Complete
<1>4. QED
    BY <1>1, <1>2, <1>3 DEF Next, ExtractorNext, Tick, vars, extractorVars, gitlab

LEMMA ArrivalStep == TypeOK /\ ArrivalInv /\ [Next]_vars => ArrivalInv'
<1>. SUFFICES ASSUME TypeOK, ArrivalInv, [Next]_vars PROVE ArrivalInv'
    OBVIOUS
<1>0. /\ Complete(present) /\ ArrivesInOrder
      /\ \A c \in Cycle : Complete(labels[c]) /\ Arriving(c)
    BY DEF ArrivalInv
<1>1. ASSUME NEW c \in Cycle, labels'[c] = labels[c], fetched'[c] = fetched[c]
      PROVE  Complete(labels[c])' /\ Arriving(c)'
    BY <1>0, <1>1, StillArriving DEF Complete
<1>2. Complete(present)'
    BY <1>0, PresentStaysComplete
<1>3. CASE UNCHANGED <<raw, labels, fetched>>
    BY <1>0, <1>1, <1>2, <1>3, RowsKeepOrder DEF ArrivalInv
<1>4. ASSUME NEW b \in Cycle, CycleStep(b) \/ KillCycle(b) PROVE ArrivalInv'
  <2>1. Complete(labels[b])' /\ Arriving(b)' /\ ArrivesInOrder'
      BY <1>4, CycleArrives
  <2>2. ASSUME NEW c \in Cycle, c # b PROVE Complete(labels[c])' /\ Arriving(c)'
    <3>1. labels'[c] = labels[c] /\ fetched'[c] = fetched[c]
        BY <1>4, <2>2, Others
    <3>2. QED
        BY <1>1, <3>1
  <2>3. \A c \in Cycle : Complete(labels[c])' /\ Arriving(c)'
      BY <2>1, <2>2
  <2>4. QED
      BY <1>2, <2>1, <2>3 DEF ArrivalInv
<1>5. Tick \/ (\E e \in Event : Occur(e)) \/ UNCHANGED extractorVars \/ UNCHANGED vars
      => UNCHANGED <<raw, labels, fetched>>
    BY DEF Tick, Occur, vars, extractorVars, bronze, cycleVars, fetching
<1>6. QED
    BY <1>3, <1>4, <1>5 DEF Next, ExtractorNext

\* The order the transformer relies on: no row of an event precedes the first
\* rows of the earlier events of its issue and type, although overlapping cycles
\* insert their copies of the history side by side.  Only an issue that a cycle
\* has passed over is exempt: an insert that fails is skipped, and the events
\* after it are inserted all the same (extractor.go:109-121).
THEOREM EventsArriveInOrder == Spec => []ArrivesInOrder
<1>1. Init => TypeOK /\ ArrivalInv
    BY TypeInit, ArrivalInit
<1>2. TypeOK /\ ArrivalInv /\ [Next]_vars => TypeOK' /\ ArrivalInv'
    BY TypeStep, ArrivalStep
<1>3. ArrivalInv => ArrivesInOrder
    BY DEF ArrivalInv
<1>4. QED
    BY <1>1, <1>2, <1>3, PTL DEF Spec
=============================================================================
