-------------------------- MODULE TransformerProofs --------------------------
(***************************************************************************)
(* Proofs about Transformer, for every set of events, runs, projects and   *)
(* every bound.                                                            *)
(***************************************************************************)
EXTENDS Transformer, TLAPS

-----------------------------------------------------------------------------
(* The operators the actions are built from.                               *)

\* determineCanonicalState returns a canonical state or the empty string.
LEMMA StateTyped ==
    ASSUME NEW e \in EventRecord
    PROVE  DetermineCanonicalState(e) \in CanonicalState \cup {None}
<1>1. ASSUME NEW l \in Label PROVE MapLabel(l).state \in CanonicalState \cup {None}
    BY MapperAssumption DEF MapLabel, CanonicalState
<1>2. e.label \in Label \cup {None}
    BY DEF EventRecord
<1>3. QED
    BY <1>1, <1>2 DEF DetermineCanonicalState, CanonicalState

\* A transition becomes a well-typed row of issue_events.
LEMMA SilverRowTyped ==
    ASSUME NEW e \in EventRecord, IsTransition(e),
           NEW l \in SilverEvent \cup {NoEvent}
    PROVE  /\ SilverRow(e, l) \in SilverEvent
           /\ SameKey(SilverRow(e, l), e)
           /\ SilverRow(e, l).issue = e.issue
           /\ SilverRow(e, l).state = DetermineCanonicalState(e)
<1>1. DetermineCanonicalState(e) \in CanonicalState
    BY StateTyped DEF IsTransition
<1>2. l.cycle \in Nat
    BY DEF SilverEvent, NoEvent
<1>3. CalculateCycleCount(l, DetermineCanonicalState(e)) \in Nat
    BY <1>2 DEF CalculateCycleCount
<1>4. (l # NoEvent /\ DetectNervousFinger(l, DetermineCanonicalState(e), e.at)) \in BOOLEAN
    OBVIOUS
<1>5. e.id \in Nat /\ e.issue \in Issue /\ e.at \in Nat
    BY DEF EventRecord
<1>6. QED
    BY <1>1, <1>3, <1>4, <1>5 DEF SilverRow, SilverEvent, SameKey

\* GetLastIssueEvent returns a row of the log or none.
LEMMA LastTyped ==
    ASSUME NEW log \in Seq(SilverEvent), NEW i
    PROVE  LastIssueEvents(log, i) \subseteq SilverEvent \cup {NoEvent}
BY DEF LastIssueEvents

\* `l2` holds all the rows of `l1` where they were.
Grows(l1, l2) ==
    /\ Len(l1) <= Len(l2)
    /\ \A k \in DOMAIN l1 : l2[k] = l1[k]

\* InsertIssueEvent leaves the rows that are there, and the event is recorded
\* afterwards, by the row that was there or by the new one.
LEMMA InsertTyped ==
    ASSUME NEW log \in Seq(SilverEvent), NEW e, NEW s \in SilverEvent, SameKey(s, e)
    PROVE  /\ InsertIssueEvent(log, e, s) \in Seq(SilverEvent)
           /\ Grows(log, InsertIssueEvent(log, e, s))
           /\ IsRecorded(InsertIssueEvent(log, e, s), e)
<1>1. CASE IsRecorded(log, e)
    BY <1>1 DEF InsertIssueEvent, Grows
<1>2. CASE ~IsRecorded(log, e)
  <2>1. InsertIssueEvent(log, e, s) = Append(log, s)
    BY <1>2 DEF InsertIssueEvent
  <2>2. Len(log) + 1 \in DOMAIN Append(log, s) /\ Append(log, s)[Len(log) + 1] = s
    OBVIOUS
  <2>3. Append(log, s) \in Seq(SilverEvent) /\ Grows(log, Append(log, s))
    BY DEF Grows
  <2>4. IsRecorded(Append(log, s), e)
    BY <2>2 DEF IsRecorded
  <2>5. QED
    BY <2>1, <2>3, <2>4
<1>3. QED
    BY <1>1, <1>2

\* A change of assignees leaves a well-typed document.
LEMMA ApplyTyped ==
    ASSUME NEW h \in AssigneeHistory, NEW as \in SUBSET Name, NEW un \in SUBSET Name,
           NEW at \in Nat
    PROVE  ApplyAssigneeChanges(h, as, un, at) \in AssigneeHistory
<1>1. ASSUME NEW p \in Seq(Period) PROVE AssignedPeriods(p, at) \in Seq(Period)
  <2>1. [assigned |-> at, unassigned |-> StillAssigned] \in Period
      BY DEF Period
  <2>2. Append(p, [assigned |-> at, unassigned |-> StillAssigned]) \in Seq(Period)
      BY <2>1
  <2>3. QED
      BY <2>2 DEF AssignedPeriods
<1>2. ASSUME NEW p \in Seq(Period) PROVE UnassignedPeriods(p, at) \in Seq(Period)
  <2>. DEFINE first == CHOOSE i \in OpenPeriods(p) : \A j \in OpenPeriods(p) : i <= j
              Closed(i) == IF i = first THEN [p[i] EXCEPT !.unassigned = at] ELSE p[i]
  <2>1. ASSUME NEW i \in 1 .. Len(p) PROVE Closed(i) \in Period
    <3>1. p[i] \in Period
        OBVIOUS
    <3>2. [p[i] EXCEPT !.unassigned = at] \in Period
        BY <3>1 DEF Period
    <3>3. QED
        BY <3>1, <3>2
  <2>2. [i \in 1 .. Len(p) |-> Closed(i)] \in Seq(Period)
    <3>. HIDE DEF Closed
    <3>. QED BY <2>1
  <2>3. [p EXCEPT ![first].unassigned = at] = [i \in 1 .. Len(p) |-> Closed(i)]
    <3>. HIDE DEF first
    <3>. QED OBVIOUS
  <2>4. UnassignedPeriods(p, at) \in {p, [p EXCEPT ![first].unassigned = at]}
      BY DEF UnassignedPeriods
  <2>5. QED
      BY <2>2, <2>3, <2>4
<1>3. h.history \in [Name -> Seq(Period)] /\ h.current \in SUBSET Name
    BY DEF AssigneeHistory
<1>. DEFINE after(n) == IF n \in as THEN AssignedPeriods(h.history[n], at) ELSE h.history[n]
            final(n) == IF n \in un THEN UnassignedPeriods(after(n), at) ELSE after(n)
<1>4. ASSUME NEW n \in Name PROVE final(n) \in Seq(Period)
  <2>1. after(n) \in Seq(Period)
      BY <1>1, <1>3
  <2>2. QED
      BY <1>2, <2>1
<1>5. [n \in Name |-> final(n)] \in [Name -> Seq(Period)]
    BY <1>4
<1>6. (h.current \cup as) \ un \in SUBSET Name
    BY <1>3
<1>7. QED
    BY <1>5, <1>6 DEF ApplyAssigneeChanges, AssigneeHistory

\* The names a note's text yields.
LEMMA CapturedTyped ==
    ASSUME NEW m \in Seq(User)
    PROVE  Captured(m) \in SUBSET Name
BY MentionAssumption DEF Captured

\* The four kinds of effect exclude one another, and ensureIssue is followed by
\* the statement of the kind.
LEMMA AfterEnsureTyped ==
    ASSUME NEW e, HasEffect(e)
    PROVE  \/ AfterEnsure(e) = "readmeta" /\ IsMetadata(e)
           \/ AfterEnsure(e) = "last" /\ IsTransition(e)
           \/ AfterEnsure(e) = "comment" /\ IsComment(e)
           \/ AfterEnsure(e) = "assign" /\ IsAssignment(e)
<1>1. ~(IsMetadata(e) /\ IsTransition(e)) /\ ~(IsMetadata(e) /\ IsComment(e))
          /\ ~(IsTransition(e) /\ IsComment(e))
    BY DEF IsMetadata, IsTransition, IsComment
<1>2. QED
    BY <1>1 DEF AfterEnsure, HasEffect

LEMMA NoIssueTyped == NoIssue \in IssueRow /\ Stub \in IssueRow
<1>1. EmptyHistory \in AssigneeHistory
    BY DEF EmptyHistory, AssigneeHistory
<1>2. QED
    BY <1>1 DEF NoIssue, Stub, IssueRow

-----------------------------------------------------------------------------
(* Type correctness.                                                       *)

\* A run that is about to execute a statement of transformEvent has a row, and
\* the event of the row is of the kind that statement belongs to.
Located ==
    \A t \in Run :
        /\ pc[t] \notin {"idle", "list", "next"} =>
               row[t] \in DOMAIN raw /\ HasEffect(Current(t))
        /\ pc[t] \in {"last", "insert", "cache"} => IsTransition(Current(t))
        /\ pc[t] \in {"readmeta", "writemeta"} => IsMetadata(Current(t))
        /\ pc[t] = "comment" => IsComment(Current(t))
        /\ pc[t] = "assign" => IsAssignment(Current(t))

TypeInv == TypeOK /\ Located

\* The part of the type invariant about the locals of the runs.
LocalsOK ==
    /\ pc \in [Run -> Control]
    /\ batch \in [Run -> SUBSET DOMAIN raw]
    /\ row \in [Run -> DOMAIN raw \cup {0}]
    /\ done \in [Run -> SUBSET DOMAIN raw]
    /\ snap \in [Run -> IssueRow]
    /\ last \in [Run -> SilverEvent \cup {NoEvent}]
    /\ Located

\* The part about the database and the counters.
DatabaseOK ==
    /\ raw \in Seq(Event)
    /\ processed \subseteq DOMAIN raw
    /\ silverProjects \subseteq Project
    /\ issues \in [Issue -> IssueRow]
    /\ events \in Seq(SilverEvent)
    /\ comments \subseteq Nat
    /\ unknownLabels \subseteq Label
    /\ errors \in 0 .. MaxErrors
    /\ crashes \in 0 .. MaxCrashes

LEMMA TypeInvSplit == TypeInv <=> LocalsOK /\ DatabaseOK
BY DEF TypeInv, TypeOK, LocalsOK, DatabaseOK

LEMMA InitType == Init => TypeInv
<1>. SUFFICES ASSUME Init PROVE LocalsOK /\ DatabaseOK
    BY TypeInvSplit
<1>1. LocalsOK
    BY NoIssueTyped DEF Init, LocalsOK, Located, Control
<1>2. DatabaseOK
    BY NoIssueTyped, TransformerAssumption DEF Init, DatabaseOK
<1>3. QED
    BY <1>1, <1>2

\* The event of a located run is one of GitLab's events.
LEMMA CurrentTyped ==
    ASSUME TypeInv, NEW t \in Run, pc[t] \notin {"idle", "list", "next"}
    PROVE  /\ row[t] \in DOMAIN raw
           /\ Current(t) \in EventRecord
           /\ HasEffect(Current(t))
           /\ Current(t).issue \in Issue
<1>1. row[t] \in DOMAIN raw /\ HasEffect(Current(t))
    BY DEF TypeInv, Located
<1>2. Current(t) \in Event
    BY <1>1 DEF Current, TypeInv, TypeOK
<1>3. QED
    BY <1>1, <1>2, EventAssumption DEF EventRecord

\* The ways a run goes on keep its locals typed.
LEMMA EndRunTyped ==
    ASSUME LocalsOK, NEW t \in Run, EndRun(t), raw' = raw
    PROVE  LocalsOK'
BY NoIssueTyped DEF LocalsOK, Located, EndRun, Current, Control

LEMMA EndEventTyped ==
    ASSUME LocalsOK, NEW t \in Run, pc[t] \notin {"idle", "list", "next"},
           Succeed(t) \/ Fail(t), raw' = raw
    PROVE  LocalsOK'
BY NoIssueTyped DEF LocalsOK, Located, Succeed, Fail, EndEvent, Current, Control

\* A statement that reads something and goes to the next statement.
LEMMA MoveTyped ==
    ASSUME LocalsOK, NEW t \in Run, NEW label \in Control, Goto(t, label), raw' = raw,
           UNCHANGED <<batch, row, done>>,
           snap' \in [Run -> IssueRow], last' \in [Run -> SilverEvent \cup {NoEvent}],
           label \notin {"idle", "list", "next"} =>
               row[t] \in DOMAIN raw /\ HasEffect(Current(t)),
           label \in {"last", "insert", "cache"} => IsTransition(Current(t)),
           label \in {"readmeta", "writemeta"} => IsMetadata(Current(t)),
           label = "comment" => IsComment(Current(t)),
           label = "assign" => IsAssignment(Current(t))
    PROVE  LocalsOK'
BY DEF LocalsOK, Located, Goto, Current

\* The counters stay within their bounds.
LEMMA CountersTyped ==
    ASSUME DatabaseOK, DbOk \/ DbError
    PROVE  errors' \in 0 .. MaxErrors /\ crashes' \in 0 .. MaxCrashes
BY TransformerAssumption DEF DbOk, DbError, DatabaseOK

\* A step of a run keeps the type invariant: one step of the proof per action.
LEMMA RunStepType ==
    ASSUME TypeInv, NEW t \in Run, RunStep(t) \/ Crash(t)
    PROVE  LocalsOK' /\ DatabaseOK'
<1>. DEFINE e == Current(t)
<1>0. LocalsOK /\ DatabaseOK
    BY TypeInvSplit
<1>e. ASSUME pc[t] \notin {"idle", "list", "next"}
      PROVE  /\ row[t] \in DOMAIN raw /\ e \in EventRecord /\ HasEffect(e) /\ e.issue \in Issue
             /\ e.id \in Nat /\ e.at \in Nat /\ e.label \in Label \cup {None}
             /\ e.assigned \in Seq(User) /\ e.unassigned \in Seq(User)
    BY <1>e, CurrentTyped DEF EventRecord
<1>l. ASSUME IsMetadata(e) PROVE e.label \in Label
    BY <1>l DEF IsMetadata, MetadataKey
<1>. HIDE DEF e
<1>1. CASE StartRun(t)
  <2>1. LocalsOK'
      BY <1>0, <1>1 DEF StartRun, LocalsOK, Located, Goto, Control, Current, bronze
  <2>2. DatabaseOK'
      BY <1>0, <1>1 DEF StartRun, DatabaseOK, bronze, silver
  <2>3. QED
      BY <2>1, <2>2
<1>2. CASE ListBatch(t)
  <2>1. DatabaseOK'
      BY <1>0, <1>2, CountersTyped DEF ListBatch, DatabaseOK, bronze, silver
  <2>2. FirstBatch \in SUBSET DOMAIN raw
      BY DEF FirstBatch, Unprocessed
  <2>3. raw' = raw
      BY <1>2 DEF ListBatch, bronze
  <2>4. CASE EndRun(t)
      BY <1>0, <2>1, <2>3, <2>4, EndRunTyped
  <2>5. CASE /\ Goto(t, "next") /\ batch' = [batch EXCEPT ![t] = FirstBatch]
             /\ UNCHANGED <<row, done, snap, last>>
      BY <1>0, <2>1, <2>2, <2>3, <2>5 DEF LocalsOK, Located, Goto, Control, Current
  <2>6. QED
      BY <1>2, <2>1, <2>4, <2>5 DEF ListBatch
<1>3. CASE TransformEvent(t)
  <2>1. PICK r \in batch[t] :
            /\ batch' = [batch EXCEPT ![t] = @ \ {r}]
            /\ LogUnknownLabel(raw[r])
            /\ \/ /\ ~HasEffect(raw[r])
                  /\ done' = [done EXCEPT ![t] = @ \cup {r}]
                  /\ UNCHANGED <<pc, row>>
               \/ /\ HasEffect(raw[r])
                  /\ Goto(t, "lookup")
                  /\ row' = [row EXCEPT ![t] = r]
                  /\ UNCHANGED done
      BY <1>3 DEF TransformEvent
  <2>2. r \in DOMAIN raw /\ raw[r] \in EventRecord
      BY <1>0, EventAssumption DEF LocalsOK, DatabaseOK
  <2>3. UNCHANGED <<raw, processed, silverProjects, issues, events, comments, snap, last>>
      BY <1>3 DEF TransformEvent, bronze
  <2>4. IsUnmapped(raw[r]) => raw[r].label \in Label
      BY <2>2 DEF IsUnmapped, IsTransition, DetermineCanonicalState, EventRecord
  <2>5. DatabaseOK'
      BY <1>0, <2>1, <2>3, <2>4, CountersTyped DEF LogUnknownLabel, DatabaseOK
  <2>6. LocalsOK'
      BY <1>0, <2>1, <2>2, <2>3 DEF LocalsOK, Located, Goto, Control, Current
  <2>7. QED
      BY <2>5, <2>6
<1>4. CASE FinishBatch(t)
  <2>1. done[t] \subseteq DOMAIN raw
      BY <1>0 DEF LocalsOK
  <2>2. DatabaseOK'
      BY <1>0, <1>4, <2>1, CountersTyped DEF FinishBatch, DatabaseOK, silver
  <2>3. raw' = raw
      BY <1>4 DEF FinishBatch
  <2>4. CASE EndRun(t)
      BY <1>0, <2>2, <2>3, <2>4, EndRunTyped
  <2>5. CASE /\ Goto(t, "list") /\ done' = [done EXCEPT ![t] = {}]
             /\ UNCHANGED <<batch, row, snap, last>>
      BY <1>0, <2>2, <2>3, <2>5 DEF LocalsOK, Located, Goto, Control, Current
  <2>6. QED
      BY <1>4, <2>2, <2>4, <2>5 DEF FinishBatch
<1>5. CASE LookupIssue(t)
  <2>0. pc[t] = "lookup" /\ raw' = raw /\ UNCHANGED <<batch, row, done, last>>
      BY <1>5 DEF LookupIssue, bronze
  <2>1. DatabaseOK'
      BY <1>0, <1>5, CountersTyped DEF LookupIssue, DatabaseOK, bronze, silver
  <2>2. CASE Goto(t, AfterEnsure(e)) /\ snap' = [snap EXCEPT ![t] = issues[e.issue]]
    <3>1. snap' \in [Run -> IssueRow]
        BY <1>0, <1>e, <2>0, <2>2 DEF LocalsOK, DatabaseOK
    <3>2. QED
        BY <1>0, <1>e, <2>0, <2>1, <2>2, <3>1, AfterEnsureTyped, MoveTyped DEF LocalsOK, e, Control
  <2>3. CASE Goto(t, "create") /\ UNCHANGED snap
      BY <1>0, <1>e, <2>0, <2>1, <2>3, MoveTyped DEF LocalsOK, e, Control
  <2>4. QED
      BY <1>5, <2>1, <2>2, <2>3 DEF LookupIssue, e
<1>6. CASE CreateIssue(t)
  <2>0. pc[t] = "create" /\ raw' = raw
      BY <1>6 DEF CreateIssue, bronze
  <2>1. DatabaseOK'
      BY <1>0, <1>6, CountersTyped, NoIssueTyped
      DEF CreateIssue, DatabaseOK, bronze
  <2>2. CASE /\ Goto(t, AfterEnsure(e)) /\ snap' = [snap EXCEPT ![t] = Stub]
             /\ UNCHANGED <<batch, row, done, last>>
    <3>1. snap' \in [Run -> IssueRow]
        BY <1>0, <2>2, NoIssueTyped DEF LocalsOK
    <3>2. QED
        BY <1>0, <1>e, <2>0, <2>1, <2>2, <3>1, AfterEnsureTyped, MoveTyped DEF LocalsOK, e, Control
  <2>3. CASE Fail(t)
      BY <1>0, <2>0, <2>1, <2>3, EndEventTyped
  <2>4. QED
      BY <1>6, <2>1, <2>2, <2>3 DEF CreateIssue, e
<1>7. CASE ReadLastEvent(t)
  <2>0. pc[t] = "last" /\ raw' = raw /\ UNCHANGED <<batch, row, done, snap>>
      BY <1>7 DEF ReadLastEvent, bronze
  <2>1. DatabaseOK'
      BY <1>0, <1>7, CountersTyped DEF ReadLastEvent, DatabaseOK, bronze, silver
  <2>2. LastIssueEvents(events, e.issue) \subseteq SilverEvent \cup {NoEvent}
      BY <1>0, LastTyped DEF DatabaseOK
  <2>3. last' \in [Run -> SilverEvent \cup {NoEvent}]
      BY <1>0, <1>7, <2>2 DEF ReadLastEvent, LocalsOK, e
  <2>4. IsTransition(e)
      BY <1>0, <2>0 DEF LocalsOK, Located, e
  <2>5. QED
      BY <1>0, <1>7, <1>e, <2>0, <2>1, <2>3, <2>4, MoveTyped
      DEF LocalsOK, ReadLastEvent, e, Control
<1>8. CASE InsertEvent(t)
  <2>. DEFINE inserted == InsertIssueEvent(events, e, SilverRow(e, last[t]))
  <2>0. pc[t] = "insert" /\ raw' = raw
          /\ UNCHANGED <<processed, silverProjects, issues, comments, unknownLabels>>
      BY <1>8 DEF InsertEvent, bronze
  <2>1. IsTransition(e)
      BY <1>0, <2>0 DEF LocalsOK, Located, e
  <2>2. inserted \in Seq(SilverEvent)
    <3>1. last[t] \in SilverEvent \cup {NoEvent} /\ events \in Seq(SilverEvent)
        BY <1>0 DEF LocalsOK, DatabaseOK
    <3>2. SilverRow(e, last[t]) \in SilverEvent /\ SameKey(SilverRow(e, last[t]), e)
        BY <1>e, <2>0, <2>1, <3>1, SilverRowTyped
    <3>3. QED
        BY <3>1, <3>2, InsertTyped
  <2>3. /\ DbOk \/ DbError
        /\ events' \in {events, inserted}
        /\ \/ Succeed(t) \/ Fail(t)
           \/ Goto(t, "cache") /\ UNCHANGED <<batch, row, done, snap, last>>
      BY <1>8 DEF InsertEvent, e
  <2>. HIDE DEF inserted
  <2>4. DatabaseOK'
      BY <1>0, <2>0, <2>2, <2>3, CountersTyped DEF DatabaseOK
  <2>5. CASE Succeed(t) \/ Fail(t)
      BY <1>0, <2>0, <2>4, <2>5, EndEventTyped
  <2>6. CASE Goto(t, "cache") /\ UNCHANGED <<batch, row, done, snap, last>>
      BY <1>0, <1>e, <2>0, <2>1, <2>4, <2>6, MoveTyped DEF LocalsOK, e, Control
  <2>7. QED
      BY <2>3, <2>5, <2>6
<1>9. CASE UpdateCache(t)
  <2>0. /\ pc[t] = "cache" /\ raw' = raw /\ Succeed(t) /\ (DbOk \/ DbError)
        /\ UNCHANGED <<processed, silverProjects, events, comments, unknownLabels>>
      BY <1>9 DEF UpdateCache, bronze
  <2>1. DetermineCanonicalState(e) \in CanonicalState \cup {None}
      BY <1>e, <2>0, StateTyped
  <2>2. issues' \in {issues, [issues EXCEPT ![e.issue].state = DetermineCanonicalState(e)]}
      BY <1>9 DEF UpdateCache, e
  <2>3. issues' \in [Issue -> IssueRow]
      BY <1>0, <2>1, <2>2 DEF DatabaseOK, IssueRow
  <2>4. DatabaseOK'
      BY <1>0, <2>0, <2>3, CountersTyped DEF DatabaseOK
  <2>5. QED
      BY <1>0, <2>0, <2>4, EndEventTyped
<1>10. CASE ReadMetadata(t)
  <2>0. pc[t] = "readmeta" /\ raw' = raw
      BY <1>10 DEF ReadMetadata, bronze
  <2>1. DatabaseOK'
      BY <1>0, <1>10, CountersTyped DEF ReadMetadata, DatabaseOK, bronze, silver
  <2>2. CASE /\ snap' = [snap EXCEPT ![t] = issues[e.issue]] /\ Goto(t, "writemeta")
             /\ UNCHANGED <<batch, row, done, last>>
    <3>1. snap' \in [Run -> IssueRow]
        BY <1>0, <1>e, <2>0, <2>2 DEF LocalsOK, DatabaseOK
    <3>2. IsMetadata(e)
        BY <1>0, <2>0 DEF LocalsOK, Located, e
    <3>3. QED
        BY <1>0, <1>e, <2>0, <2>1, <2>2, <3>1, <3>2, MoveTyped DEF LocalsOK, e, Control
  <2>3. CASE Succeed(t)
      BY <1>0, <2>0, <2>1, <2>3, EndEventTyped
  <2>4. QED
      BY <1>10, <2>2, <2>3 DEF ReadMetadata, e
<1>11. CASE WriteMetadata(t)
  <2>0. /\ pc[t] = "writemeta" /\ raw' = raw /\ Succeed(t) /\ (DbOk \/ DbError)
        /\ UNCHANGED <<processed, silverProjects, events, comments, unknownLabels>>
      BY <1>11 DEF WriteMetadata, bronze
  <2>1. Accumulate(snap[t].metadata, e.label) \in SUBSET Label
    <3>1. IsMetadata(e)
        BY <1>0, <2>0 DEF LocalsOK, Located, e
    <3>2. snap[t].metadata \in SUBSET Label
        BY <1>0 DEF LocalsOK, IssueRow
    <3>3. QED
        BY <1>l, <3>1, <3>2 DEF Accumulate
  <2>2. issues' \in {issues, [issues EXCEPT ![e.issue].metadata =
                                 Accumulate(snap[t].metadata, e.label)]}
      BY <1>11 DEF WriteMetadata, e
  <2>3. issues' \in [Issue -> IssueRow]
      BY <1>0, <2>1, <2>2 DEF DatabaseOK, IssueRow
  <2>4. DatabaseOK'
      BY <1>0, <2>0, <2>3, CountersTyped DEF DatabaseOK
  <2>5. QED
      BY <1>0, <2>0, <2>4, EndEventTyped
<1>12. CASE InsertComment(t)
  <2>0. pc[t] = "comment" /\ raw' = raw /\ (Succeed(t) \/ Fail(t))
      BY <1>12 DEF InsertComment, bronze
  <2>1. comments' \in {comments, comments \cup {e.id}}
      BY <1>12 DEF InsertComment, e
  <2>2. DatabaseOK'
      BY <1>0, <1>12, <1>e, <2>0, <2>1, CountersTyped DEF InsertComment, DatabaseOK, bronze
  <2>3. QED
      BY <1>0, <2>0, <2>2, EndEventTyped
<1>13. CASE UpdateAssignees(t)
  <2>. DEFINE changed == ApplyAssigneeChanges(snap[t].assignees,
                             Captured(e.assigned), Captured(e.unassigned), e.at)
  <2>0. /\ pc[t] = "assign" /\ raw' = raw /\ (Succeed(t) \/ Fail(t)) /\ (DbOk \/ DbError)
        /\ UNCHANGED <<processed, silverProjects, events, comments, unknownLabels>>
      BY <1>13 DEF UpdateAssignees, bronze
  <2>1. changed \in AssigneeHistory
    <3>1. snap[t].assignees \in AssigneeHistory
        BY <1>0 DEF LocalsOK, IssueRow
    <3>2. Captured(e.assigned) \in SUBSET Name /\ Captured(e.unassigned) \in SUBSET Name
        BY <1>e, <2>0, CapturedTyped
    <3>3. QED
        BY <1>e, <2>0, <3>1, <3>2, ApplyTyped
  <2>2. issues' \in {issues, [issues EXCEPT ![e.issue].assignees = changed]}
      BY <1>13 DEF UpdateAssignees, e
  <2>. HIDE DEF changed
  <2>3. issues' \in [Issue -> IssueRow]
      BY <1>0, <2>1, <2>2 DEF DatabaseOK, IssueRow
  <2>4. DatabaseOK'
      BY <1>0, <2>0, <2>3, CountersTyped DEF DatabaseOK
  <2>5. QED
      BY <1>0, <2>0, <2>4, EndEventTyped
<1>14. CASE Crash(t)
  <2>1. raw' = raw /\ EndRun(t)
      BY <1>14 DEF Crash, bronze
  <2>2. DatabaseOK'
      BY <1>0, <1>14, TransformerAssumption DEF Crash, DatabaseOK, bronze, silver
  <2>3. QED
      BY <1>0, <2>1, <2>2, EndRunTyped
<1>15. QED
    BY <1>1, <1>2, <1>3, <1>4, <1>5, <1>6, <1>7, <1>8, <1>9, <1>10, <1>11, <1>12, <1>13,
       <1>14 DEF RunStep

\* Every step keeps the type invariant.
LEMMA NextType == TypeInv /\ [Next]_vars => TypeInv'
<1>. SUFFICES ASSUME TypeInv, [Next]_vars PROVE LocalsOK' /\ DatabaseOK'
    BY DEF TypeInv, TypeOK, LocalsOK, DatabaseOK
<1>0. LocalsOK /\ DatabaseOK
    BY TypeInvSplit
<1>1. CASE UNCHANGED vars
    BY <1>0, <1>1 DEF vars, bronze, silver, locals, LocalsOK, DatabaseOK, Located, Current
<1>2. ASSUME NEW e \in Event, Ingest(e) PROVE LocalsOK' /\ DatabaseOK'
  <2>1. raw' \in Seq(Event) /\ DOMAIN raw \subseteq DOMAIN raw'
          /\ \A r \in DOMAIN raw : raw'[r] = raw[r]
      BY <1>0, <1>2 DEF Ingest, DatabaseOK
  <2>2. LocalsOK'
      BY <1>0, <1>2, <2>1 DEF Ingest, LocalsOK, Located, Current, locals
  <2>3. DatabaseOK'
      BY <1>0, <1>2, <2>1 DEF Ingest, DatabaseOK, silver
  <2>4. QED
      BY <2>2, <2>3
<1>3. ASSUME NEW p \in Project, DiscoverProject(p) PROVE LocalsOK' /\ DatabaseOK'
    BY <1>0, <1>3 DEF DiscoverProject, LocalsOK, DatabaseOK, Located, Current, bronze, locals
<1>4. ASSUME NEW t \in Run, RunStep(t) \/ Crash(t) PROVE LocalsOK' /\ DatabaseOK'
    BY <1>4, RunStepType
<1>5. QED
    BY <1>1, <1>2, <1>3, <1>4 DEF Next

LEMMA TypeInvariant == Spec => []TypeInv
BY InitType, NextType, PTL DEF Spec

\* The variables of the transformer keep their types; behind it, a run executes
\* only the statements of its event's kind (transformEvent, service.go:151-161).
THEOREM TypeCorrect == Spec => []TypeOK
<1>1. TypeInv => TypeOK
    BY DEF TypeInv
<1>2. QED
    BY <1>1, TypeInvariant, PTL

-----------------------------------------------------------------------------
(* Silver only grows.                                                      *)

\* What InsertEvent may do to the log.
LEMMA InsertEventStep ==
    ASSUME TypeInv, NEW t \in Run, InsertEvent(t)
    PROVE  /\ SilverRow(Current(t), last[t]) \in SilverEvent
           /\ SameKey(SilverRow(Current(t), last[t]), Current(t))
           /\ SilverRow(Current(t), last[t]).issue = Current(t).issue
           /\ SilverRow(Current(t), last[t]).state = DetermineCanonicalState(Current(t))
           /\ events' \in {events,
                           InsertIssueEvent(events, Current(t), SilverRow(Current(t), last[t]))}
           /\ IsTransition(Current(t))
           /\ Grows(events, events')
<1>. DEFINE e == Current(t)
            s == SilverRow(e, last[t])
<1>1. pc[t] = "insert" /\ events' \in {events, InsertIssueEvent(events, e, s)}
    BY DEF InsertEvent
<1>2. e \in EventRecord
    BY <1>1, CurrentTyped
<1>3. IsTransition(e)
    BY <1>1 DEF TypeInv, Located
<1>4. last[t] \in SilverEvent \cup {NoEvent} /\ events \in Seq(SilverEvent)
    BY DEF TypeInv, TypeOK
<1>. HIDE DEF e
<1>5. /\ s \in SilverEvent /\ SameKey(s, e) /\ s.issue = e.issue
      /\ s.state = DetermineCanonicalState(e)
    BY <1>2, <1>3, <1>4, SilverRowTyped
<1>. HIDE DEF s
<1>6. Grows(events, InsertIssueEvent(events, e, s)) /\ Grows(events, events)
    BY <1>4, <1>5, InsertTyped DEF Grows
<1>7. QED
    BY <1>1, <1>3, <1>5, <1>6 DEF e, s

\* No step takes a row of Silver away or rewrites a recorded transition.
LEMMA NextGrows ==
    ASSUME TypeInv, [Next]_vars
    PROVE  Grows(events, events') /\ comments \subseteq comments' /\ processed \subseteq processed'
<1>0. Grows(events, events)
    BY DEF TypeInv, TypeOK, Grows
<1>. USE DEF bronze, silver
<1>1. CASE UNCHANGED vars
    BY <1>0, <1>1 DEF vars
<1>2. CASE \E e \in Event : Ingest(e)
    BY <1>0, <1>2 DEF Ingest
<1>3. CASE \E p \in Project : DiscoverProject(p)
    BY <1>0, <1>3 DEF DiscoverProject
<1>4. ASSUME NEW t \in Run, RunStep(t) \/ Crash(t)
      PROVE  /\ Grows(events, events')
             /\ comments \subseteq comments' /\ processed \subseteq processed'
  <2>1. CASE StartRun(t) \/ ListBatch(t) \/ TransformEvent(t) \/ FinishBatch(t)
      BY <1>0, <2>1 DEF StartRun, ListBatch, TransformEvent, FinishBatch
  <2>2. CASE LookupIssue(t) \/ CreateIssue(t) \/ ReadLastEvent(t) \/ UpdateCache(t)
      BY <1>0, <2>2 DEF LookupIssue, CreateIssue, ReadLastEvent, UpdateCache
  <2>3. CASE ReadMetadata(t) \/ WriteMetadata(t) \/ InsertComment(t) \/ UpdateAssignees(t)
      BY <1>0, <2>3 DEF ReadMetadata, WriteMetadata, InsertComment, UpdateAssignees
  <2>4. CASE InsertEvent(t)
      BY <2>4, InsertEventStep DEF InsertEvent
  <2>5. CASE Crash(t)
      BY <1>0, <2>5 DEF Crash
  <2>6. QED
      BY <1>4, <2>1, <2>2, <2>3, <2>4, <2>5 DEF RunStep
<1>5. QED
    BY <1>1, <1>2, <1>3, <1>4 DEF Next

\* What a reader of Silver saw stays true: transitions and comments are never
\* deleted or reclassified, and no row becomes unprocessed again.
THEOREM AppendOnly == Spec => SilverIsAppendOnly
<1>1. TypeInv /\ [Next]_vars =>
          [/\ Len(events) <= Len(events')
           /\ \A k \in DOMAIN events : events'[k] = events[k]
           /\ comments \subseteq comments'
           /\ processed \subseteq processed']_vars
    BY NextGrows DEF Grows
<1>2. QED
    BY <1>1, TypeInvariant, PTL DEF Spec, SilverIsAppendOnly

-----------------------------------------------------------------------------
(* No silent loss.                                                         *)

\* Recorded(e), and what a run about to write the state cache has recorded, as
\* operators of the log and the comments.
RecordedIn(log, notes, e) ==
    /\ IsTransition(e) => IsRecorded(log, e)
    /\ IsComment(e) => e.id \in notes

CacheIn(log, e) ==
    /\ IsRecorded(log, e)
    /\ \E k \in DOMAIN log :
           log[k].issue = e.issue /\ log[k].state = DetermineCanonicalState(e)

\* Why ProcessedIsRecorded is kept: a run only ever marks rows it has recorded,
\* and it collects the row of a transition before or after it writes the cache.
RecordedInv ==
    /\ \A r \in processed : RecordedIn(events, comments, raw[r])
    /\ \A t \in Run : \A r \in done[t] : RecordedIn(events, comments, raw[r])
    /\ \A t \in Run : pc[t] = "cache" => CacheIn(events, raw[row[t]])

\* What is recorded stays recorded.
LEMMA RecordedStays ==
    ASSUME TypeInv, [Next]_vars, NEW e
    PROVE  /\ RecordedIn(events, comments, e) => RecordedIn(events', comments', e)
           /\ CacheIn(events, e) => CacheIn(events', e)
<1>1. Grows(events, events') /\ comments \subseteq comments'
    BY NextGrows
<1>2. events \in Seq(SilverEvent) /\ events' \in Seq(SilverEvent)
    BY NextType DEF TypeInv, TypeOK
<1>3. DOMAIN events \subseteq DOMAIN events'
    BY <1>1, <1>2 DEF Grows
<1>4. IsRecorded(events, e) => IsRecorded(events', e)
    BY <1>1, <1>3 DEF IsRecorded, Grows
<1>5. CacheIn(events, e) => CacheIn(events', e)
    BY <1>1, <1>3, <1>4 DEF CacheIn, Grows
<1>6. QED
    BY <1>1, <1>4, <1>5 DEF RecordedIn

\* What is left to show of a step.
LEMMA RecordedFrame ==
    ASSUME TypeInv, RecordedInv, [Next]_vars,
           \A r \in DOMAIN raw : raw'[r] = raw[r],
           \A r \in processed' : r \in processed \/ \E u \in Run : r \in done[u],
           \A u \in Run : \A r \in done'[u] :
               \/ r \in done[u]
               \/ r \in DOMAIN raw /\ RecordedIn(events', comments', raw[r]),
           \A u \in Run : pc'[u] = "cache" =>
               /\ row'[u] = row[u] /\ row[u] \in DOMAIN raw
               /\ pc[u] = "cache" \/ CacheIn(events', raw[row[u]])
    PROVE  RecordedInv'
<1>1. \A r \in DOMAIN raw : RecordedIn(events, comments, raw[r])
                                => RecordedIn(events', comments', raw'[r])
    BY RecordedStays
<1>2. \A r \in processed : r \in DOMAIN raw
    BY DEF TypeInv, TypeOK
<1>3. \A u \in Run : \A r \in done[u] : r \in DOMAIN raw
    BY DEF TypeInv, TypeOK
<1>4. \A r \in processed' : RecordedIn(events', comments', raw'[r])
    BY <1>1, <1>2, <1>3 DEF RecordedInv
<1>5. \A u \in Run : \A r \in done'[u] : RecordedIn(events', comments', raw'[r])
    BY <1>1, <1>3 DEF RecordedInv
<1>6. \A u \in Run : pc'[u] = "cache" => CacheIn(events', raw'[row'[u]])
    BY RecordedStays DEF RecordedInv
<1>7. QED
    BY <1>4, <1>5, <1>6 DEF RecordedInv

\* A step that ends the event of run t successfully once it is recorded.
LEMMA SucceedRecorded ==
    ASSUME TypeInv, RecordedInv, [Next]_vars, NEW t \in Run, Succeed(t) \/ Fail(t),
           UNCHANGED <<raw, processed>>, pc[t] \notin {"idle", "list", "next"},
           Succeed(t) => RecordedIn(events', comments', Current(t))
    PROVE  RecordedInv'
<1>1. row[t] \in DOMAIN raw
    BY CurrentTyped
<1>2. /\ done \in [Run -> SUBSET DOMAIN raw] /\ row \in [Run -> DOMAIN raw \cup {0}]
      /\ pc \in [Run -> Control]
    BY DEF TypeInv, TypeOK
<1>3. \A u \in Run : \A r \in done'[u] :
          r \in done[u] \/ (r \in DOMAIN raw /\ RecordedIn(events', comments', raw[r]))
    BY <1>1, <1>2 DEF Succeed, Fail, EndEvent, Current
<1>4. \A u \in Run : pc'[u] = "cache" =>
          row'[u] = row[u] /\ row[u] \in DOMAIN raw /\ pc[u] = "cache"
    BY <1>2 DEF Succeed, Fail, EndEvent, TypeInv, Located
<1>5. QED
    BY <1>3, <1>4, RecordedFrame

\* A step of run t that ends no event and does not go to the cache.
LEMMA OtherRecorded ==
    ASSUME TypeInv, RecordedInv, [Next]_vars, NEW t \in Run, raw' = raw,
           \A r \in processed' : r \in processed \/ r \in done[t],
           \A u \in Run \ {t} : pc'[u] = pc[u] /\ row'[u] = row[u] /\ done'[u] = done[u],
           done'[t] \in {{}, done[t]}, pc'[t] # "cache"
    PROVE  RecordedInv'
<1>1. \A u \in Run : pc'[u] = "cache" =>
          row'[u] = row[u] /\ row[u] \in DOMAIN raw /\ pc[u] = "cache"
    BY DEF TypeInv, Located
<1>2. QED
    BY <1>1, RecordedFrame

\* A transition is neither a comment nor an assignment, nor a metadata label.
LEMMA KindsExclude ==
    ASSUME NEW e
    PROVE  /\ IsMetadata(e) \/ IsAssignment(e) => ~IsTransition(e) /\ ~IsComment(e)
           /\ ~(IsTransition(e) /\ IsComment(e))
           /\ ~HasEffect(e) => ~IsTransition(e) /\ ~IsComment(e)
BY DEF IsMetadata, IsAssignment, IsTransition, IsComment, HasEffect

\* A step of a run keeps RecordedInv: one step of the proof per action.
LEMMA RunStepRecorded ==
    ASSUME TypeInv, RecordedInv, [Next]_vars, NEW t \in Run, RunStep(t) \/ Crash(t)
    PROVE  RecordedInv'
<1>. DEFINE e == Current(t)
<1>0. /\ done \in [Run -> SUBSET DOMAIN raw] /\ row \in [Run -> DOMAIN raw \cup {0}]
      /\ pc \in [Run -> Control] /\ events \in Seq(SilverEvent)
    BY DEF TypeInv, TypeOK
<1>. HIDE DEF e
<1>1. CASE StartRun(t)
    BY <1>0, <1>1, OtherRecorded DEF StartRun, Goto, bronze
<1>2. CASE ListBatch(t)
    BY <1>0, <1>2, OtherRecorded DEF ListBatch, Goto, EndRun, bronze
<1>3. CASE TransformEvent(t)
  <2>1. PICK r \in batch[t] :
            \/ /\ ~HasEffect(raw[r])
               /\ done' = [done EXCEPT ![t] = @ \cup {r}]
               /\ UNCHANGED <<pc, row>>
            \/ /\ Goto(t, "lookup")
               /\ row' = [row EXCEPT ![t] = r]
               /\ UNCHANGED done
      BY <1>3 DEF TransformEvent
  <2>2. UNCHANGED <<raw, processed>>
      BY <1>3 DEF TransformEvent, bronze
  <2>3. r \in DOMAIN raw
      BY DEF TypeInv, TypeOK
  <2>4. \A u \in Run : pc'[u] = "cache" =>
            row'[u] = row[u] /\ row[u] \in DOMAIN raw /\ pc[u] = "cache"
      BY <1>0, <1>3, <2>1 DEF Goto, TypeInv, Located, TransformEvent
  <2>5. ~HasEffect(raw[r]) => RecordedIn(events', comments', raw[r])
      BY KindsExclude DEF RecordedIn
  <2>6. \A u \in Run : \A q \in done'[u] :
            q \in done[u] \/ (q \in DOMAIN raw /\ RecordedIn(events', comments', raw[q]))
      BY <1>0, <2>1, <2>3, <2>5
  <2>7. QED
      BY <2>2, <2>4, <2>6, RecordedFrame
<1>4. CASE FinishBatch(t)
    BY <1>0, <1>4, OtherRecorded DEF FinishBatch, Goto, EndRun
<1>5. CASE LookupIssue(t)
  <2>1. AfterEnsure(Current(t)) # "cache"
      BY <1>5, CurrentTyped, AfterEnsureTyped DEF LookupIssue
  <2>2. QED
      BY <1>0, <1>5, <2>1, OtherRecorded DEF LookupIssue, Goto, bronze
<1>6. CASE CreateIssue(t)
  <2>1. AfterEnsure(Current(t)) # "cache"
      BY <1>6, CurrentTyped, AfterEnsureTyped DEF CreateIssue
  <2>2. CASE Fail(t)
      BY <1>0, <1>6, <2>2, OtherRecorded DEF CreateIssue, Fail, EndEvent, bronze
  <2>3. CASE Goto(t, AfterEnsure(Current(t))) /\ UNCHANGED <<row, done>>
      BY <1>0, <1>6, <2>1, <2>3, OtherRecorded DEF CreateIssue, Goto, bronze
  <2>4. QED
      BY <1>6, <2>2, <2>3 DEF CreateIssue
<1>7. CASE ReadLastEvent(t)
    BY <1>0, <1>7, OtherRecorded DEF ReadLastEvent, Goto, bronze
<1>8. CASE InsertEvent(t)
  <2>. DEFINE s == SilverRow(e, last[t])
              inserted == InsertIssueEvent(events, e, s)
  <2>0. pc[t] = "insert" /\ row[t] \in DOMAIN raw /\ UNCHANGED <<raw, processed, comments>>
      BY <1>8, CurrentTyped DEF InsertEvent, bronze
  <2>1. /\ s \in SilverEvent /\ SameKey(s, e) /\ s.issue = e.issue
        /\ s.state = DetermineCanonicalState(e) /\ IsTransition(e)
      BY <1>8, InsertEventStep DEF e
  <2>. HIDE DEF s
  <2>2. IsRecorded(inserted, e)
      BY <1>0, <2>1, InsertTyped
  <2>3. events' = inserted => RecordedIn(events', comments', e)
      BY <2>1, <2>2, KindsExclude DEF RecordedIn
  <2>4. \/ events' = inserted /\ Succeed(t)
        \/ /\ events' = inserted /\ inserted # events
           /\ Goto(t, "cache") /\ UNCHANGED <<row, done>>
        \/ Fail(t)
      BY <1>8 DEF InsertEvent, s, e
  <2>5. CASE Succeed(t) /\ events' = inserted
      BY <2>0, <2>3, <2>5, SucceedRecorded DEF e
  <2>6. CASE Fail(t)
      BY <1>0, <2>0, <2>6, OtherRecorded DEF Fail, EndEvent
  <2>7. CASE /\ events' = inserted /\ inserted # events
             /\ Goto(t, "cache") /\ UNCHANGED <<row, done>>
    <3>1. events' = Append(events, s)
        BY <2>7 DEF InsertIssueEvent
    <3>2. Len(events) + 1 \in DOMAIN events' /\ events'[Len(events) + 1] = s
        BY <1>0, <2>1, <3>1
    <3>3. CacheIn(events', e)
        BY <2>1, <2>2, <2>7, <3>2 DEF CacheIn
    <3>4. CacheIn(events', raw[row[t]])
        BY <3>3 DEF e, Current
    <3>5. \A u \in Run : pc'[u] = "cache" =>
              /\ row'[u] = row[u] /\ row[u] \in DOMAIN raw
              /\ pc[u] = "cache" \/ CacheIn(events', raw[row[u]])
        BY <1>0, <2>0, <2>7, <3>4 DEF Goto, TypeInv, Located
    <3>6. QED
        BY <2>0, <2>7, <3>5, RecordedFrame
  <2>8. QED
      BY <2>4, <2>5, <2>6, <2>7
<1>9. CASE UpdateCache(t)
  <2>1. /\ pc[t] = "cache" /\ Succeed(t)
        /\ UNCHANGED <<raw, processed, events, comments>>
      BY <1>9 DEF UpdateCache, bronze
  <2>2. IsRecorded(events', e) /\ IsTransition(e)
      BY <2>1 DEF RecordedInv, CacheIn, e, Current, TypeInv, Located
  <2>3. RecordedIn(events', comments', e)
      BY <2>2, KindsExclude DEF RecordedIn
  <2>4. QED
      BY <2>1, <2>3, SucceedRecorded DEF e
<1>10. CASE ReadMetadata(t)
  <2>1. pc[t] = "readmeta" /\ UNCHANGED <<raw, processed>>
      BY <1>10 DEF ReadMetadata, bronze
  <2>2. RecordedIn(events', comments', e)
      BY <2>1, KindsExclude DEF RecordedIn, e, TypeInv, Located
  <2>3. CASE Succeed(t)
      BY <2>1, <2>2, <2>3, SucceedRecorded DEF e
  <2>4. CASE Goto(t, "writemeta") /\ UNCHANGED <<row, done>>
      BY <1>0, <2>1, <2>4, OtherRecorded DEF Goto
  <2>5. QED
      BY <1>10, <2>3, <2>4 DEF ReadMetadata
<1>11. CASE WriteMetadata(t)
  <2>1. pc[t] = "writemeta" /\ Succeed(t) /\ UNCHANGED <<raw, processed>>
      BY <1>11 DEF WriteMetadata, bronze
  <2>2. RecordedIn(events', comments', e)
      BY <2>1, KindsExclude DEF RecordedIn, e, TypeInv, Located
  <2>3. QED
      BY <2>1, <2>2, SucceedRecorded DEF e
<1>12. CASE InsertComment(t)
  <2>1. /\ pc[t] = "comment" /\ UNCHANGED <<raw, processed>>
        /\ (Succeed(t) /\ comments' = comments \cup {e.id}) \/ Fail(t)
      BY <1>12 DEF InsertComment, bronze, e
  <2>2. IsComment(e)
      BY <2>1 DEF e, TypeInv, Located
  <2>3. comments' = comments \cup {e.id} => RecordedIn(events', comments', e)
      BY <2>2, KindsExclude DEF RecordedIn
  <2>4. CASE Succeed(t) /\ comments' = comments \cup {e.id}
      BY <2>1, <2>3, <2>4, SucceedRecorded DEF e
  <2>5. CASE Fail(t)
      BY <1>0, <2>1, <2>5, OtherRecorded DEF Fail, EndEvent
  <2>6. QED
      BY <2>1, <2>4, <2>5
<1>13. CASE UpdateAssignees(t)
  <2>1. pc[t] = "assign" /\ (Succeed(t) \/ Fail(t)) /\ UNCHANGED <<raw, processed>>
      BY <1>13 DEF UpdateAssignees, bronze
  <2>2. RecordedIn(events', comments', e)
      BY <2>1, KindsExclude DEF RecordedIn, e, TypeInv, Located
  <2>3. QED
      BY <2>1, <2>2, SucceedRecorded DEF e
<1>14. CASE Crash(t)
    BY <1>0, <1>14, OtherRecorded DEF Crash, EndRun, bronze
<1>15. QED
    BY <1>1, <1>2, <1>3, <1>4, <1>5, <1>6, <1>7, <1>8, <1>9, <1>10, <1>11, <1>12, <1>13,
       <1>14 DEF RunStep

LEMMA RecordedStep == TypeInv /\ RecordedInv /\ [Next]_vars => RecordedInv'
<1>. SUFFICES ASSUME TypeInv, RecordedInv, [Next]_vars PROVE RecordedInv'
    OBVIOUS
<1>0. \A u \in Run : pc[u] = "cache" => row[u] \in DOMAIN raw
    BY DEF TypeInv, Located
<1>1. CASE UNCHANGED vars
    BY <1>0, <1>1, RecordedFrame DEF vars, bronze, silver, locals
<1>2. CASE \E e \in Event : Ingest(e)
  <2>1. UNCHANGED <<processed, pc, row, done>> /\ \A r \in DOMAIN raw : raw'[r] = raw[r]
      BY <1>2 DEF Ingest, locals, TypeInv, TypeOK
  <2>2. QED
      BY <1>0, <2>1, RecordedFrame
<1>3. CASE \E p \in Project : DiscoverProject(p)
    BY <1>0, <1>3, RecordedFrame DEF DiscoverProject, bronze, locals
<1>4. ASSUME NEW t \in Run, RunStep(t) \/ Crash(t) PROVE RecordedInv'
    BY <1>4, RunStepRecorded
<1>5. QED
    BY <1>1, <1>2, <1>3, <1>4 DEF Next

LEMMA RecordedInvariant == Spec => [](TypeInv /\ RecordedInv)
<1>1. Init => RecordedInv
    BY DEF Init, RecordedInv
<1>2. QED
    BY <1>1, InitType, NextType, RecordedStep, PTL DEF Spec

\* No silent loss: whatever statement fails, whoever crashes and however many
\* runs overlap, a row of raw_events is marked processed (service.go:88-108)
\* only when its transition or its comment is in Silver.
THEOREM NoSilentLoss == Spec => []ProcessedIsRecorded
<1>1. RecordedInv => ProcessedIsRecorded
    BY DEF RecordedInv, ProcessedIsRecorded, RecordedIn, Recorded
<1>2. QED
    BY <1>1, RecordedInvariant, PTL

-----------------------------------------------------------------------------
(* One row per event, and a cache that only shows what is recorded.        *)

\* Only InsertEvent writes the log.
LEMMA LogStep ==
    ASSUME [Next]_vars
    PROVE  events' = events \/ \E t \in Run : InsertEvent(t)
<1>. USE DEF bronze, silver
<1>1. CASE \E t \in Run : RunStep(t) \/ Crash(t)
  <2>1. PICK t \in Run : RunStep(t) \/ Crash(t)
      BY <1>1
  <2>2. CASE StartRun(t) \/ ListBatch(t) \/ TransformEvent(t) \/ FinishBatch(t)
      BY <2>2 DEF StartRun, ListBatch, TransformEvent, FinishBatch
  <2>3. CASE LookupIssue(t) \/ CreateIssue(t) \/ ReadLastEvent(t) \/ UpdateCache(t)
      BY <2>3 DEF LookupIssue, CreateIssue, ReadLastEvent, UpdateCache
  <2>4. CASE ReadMetadata(t) \/ WriteMetadata(t) \/ InsertComment(t) \/ UpdateAssignees(t)
      BY <2>4 DEF ReadMetadata, WriteMetadata, InsertComment, UpdateAssignees
  <2>5. CASE Crash(t)
      BY <2>5 DEF Crash
  <2>6. QED
      BY <2>1, <2>2, <2>3, <2>4, <2>5 DEF RunStep
<1>2. QED
    BY <1>1 DEF Next, vars, Ingest, DiscoverProject

\* InsertIssueEvent adds a row only when no row has its key.
LEMMA InsertOnce ==
    ASSUME NEW log \in Seq(SilverEvent), NEW e, NEW s \in SilverEvent, SameKey(s, e),
           \A j, k \in DOMAIN log : SameKey(log[j], log[k]) => j = k
    PROVE  LET new == InsertIssueEvent(log, e, s)
           IN  \A j, k \in DOMAIN new : SameKey(new[j], new[k]) => j = k
<1>1. CASE IsRecorded(log, e)
    BY <1>1 DEF InsertIssueEvent
<1>2. CASE ~IsRecorded(log, e)
  <2>1. InsertIssueEvent(log, e, s) = Append(log, s)
      BY <1>2 DEF InsertIssueEvent
  <2>2. \A k \in DOMAIN log : ~SameKey(log[k], s) /\ ~SameKey(s, log[k])
      BY <1>2 DEF IsRecorded, SameKey
  <2>3. \A k \in DOMAIN Append(log, s) :
            \/ k \in DOMAIN log /\ Append(log, s)[k] = log[k]
            \/ k = Len(log) + 1 /\ Append(log, s)[k] = s
      OBVIOUS
  <2>4. QED
      BY <2>1, <2>2, <2>3
<1>3. QED
    BY <1>1, <1>2

\* However often a GitLab event is fetched, and by however many overlapping
\* runs it is transformed, issue_events has one row for it (issue_events.sql:8).
THEOREM CountedOnce == Spec => []RecordedOnce
<1>1. Init => RecordedOnce
    BY DEF Init, RecordedOnce
<1>2. TypeInv /\ RecordedOnce /\ [Next]_vars => RecordedOnce'
  <2>. SUFFICES ASSUME TypeInv, RecordedOnce, [Next]_vars PROVE RecordedOnce'
      OBVIOUS
  <2>1. CASE events' = events
      BY <2>1 DEF RecordedOnce
  <2>2. ASSUME NEW t \in Run, InsertEvent(t) PROVE RecordedOnce'
    <3>. DEFINE s == SilverRow(Current(t), last[t])
    <3>1. /\ s \in SilverEvent /\ SameKey(s, Current(t))
          /\ events' \in {events, InsertIssueEvent(events, Current(t), s)}
        BY <2>2, InsertEventStep
    <3>. HIDE DEF s
    <3>2. events \in Seq(SilverEvent)
        BY DEF TypeInv, TypeOK
    <3>3. QED
        BY <3>1, <3>2, InsertOnce DEF RecordedOnce
  <2>3. QED
      BY <2>1, <2>2, LogStep
<1>3. QED
    BY <1>1, <1>2, TypeInvariant, PTL DEF Spec

\* A step leaves the state of an issue, clears it, or a run about to write the
\* cache writes the state of its event.
LEMMA StateStep ==
    ASSUME TypeInv, [Next]_vars, NEW i \in Issue
    PROVE  \/ issues'[i].state = issues[i].state
           \/ issues'[i].state = None
           \/ \E t \in Run : /\ pc[t] = "cache" /\ i = Current(t).issue
                             /\ issues'[i].state = DetermineCanonicalState(Current(t))
<1>. USE DEF bronze, silver
<1>0. issues \in [Issue -> IssueRow]
    BY DEF TypeInv, TypeOK
<1>1. CASE \E t \in Run : RunStep(t) \/ Crash(t)
  <2>1. PICK t \in Run : RunStep(t) \/ Crash(t)
      BY <1>1
  <2>2. CASE StartRun(t) \/ ListBatch(t) \/ TransformEvent(t) \/ FinishBatch(t)
      BY <2>2 DEF StartRun, ListBatch, TransformEvent, FinishBatch
  <2>3. CASE LookupIssue(t) \/ ReadLastEvent(t) \/ InsertEvent(t) \/ ReadMetadata(t)
               \/ InsertComment(t) \/ Crash(t)
      BY <2>3 DEF LookupIssue, ReadLastEvent, InsertEvent, ReadMetadata, InsertComment, Crash
  <2>4. CASE CreateIssue(t)
    <3>1. issues' \in {issues, [issues EXCEPT ![Current(t).issue] = Stub]}
        BY <2>4 DEF CreateIssue
    <3>2. QED
        BY <1>0, <3>1 DEF Stub, NoIssue
  <2>5. CASE UpdateCache(t)
    <3>1. /\ pc[t] = "cache"
          /\ issues' \in {issues, [issues EXCEPT ![Current(t).issue].state =
                                       DetermineCanonicalState(Current(t))]}
        BY <2>5 DEF UpdateCache
    <3>2. QED
        BY <1>0, <3>1 DEF IssueRow
  <2>6. CASE WriteMetadata(t)
    <3>1. issues' \in {issues, [issues EXCEPT ![Current(t).issue].metadata =
                                    Accumulate(snap[t].metadata, Current(t).label)]}
        BY <2>6 DEF WriteMetadata
    <3>2. QED
        BY <1>0, <3>1 DEF IssueRow
  <2>7. CASE UpdateAssignees(t)
    <3>1. PICK h : issues' \in {issues, [issues EXCEPT ![Current(t).issue].assignees = h]}
        BY <2>7 DEF UpdateAssignees
    <3>2. QED
        BY <1>0, <3>1 DEF IssueRow
  <2>8. QED
      BY <2>1, <2>2, <2>3, <2>4, <2>5, <2>6, <2>7 DEF RunStep
<1>2. QED
    BY <1>1 DEF Next, vars, Ingest, DiscoverProject

\* The two writes of a transition (service.go:257-298) are ordered so that the
\* cache never shows a state without a recorded transition behind it.
THEOREM CacheBehindLog == Spec => []CacheIsRecorded
<1>1. Init => CacheIsRecorded
    BY DEF Init, CacheIsRecorded, NoIssue
<1>2. TypeInv /\ RecordedInv /\ CacheIsRecorded /\ [Next]_vars => CacheIsRecorded'
  <2>. SUFFICES ASSUME TypeInv, RecordedInv, CacheIsRecorded, [Next]_vars,
                       NEW i \in Issue, issues'[i].state # None
                PROVE  \E k \in DOMAIN events' :
                           events'[k].issue = i /\ events'[k].state = issues'[i].state
      BY DEF CacheIsRecorded
  <2>1. events \in Seq(SilverEvent) /\ events' \in Seq(SilverEvent) /\ Grows(events, events')
      BY NextType, NextGrows DEF TypeInv, TypeOK
  <2>2. DOMAIN events \subseteq DOMAIN events' /\ \A k \in DOMAIN events : events'[k] = events[k]
      BY <2>1 DEF Grows
  <2>3. CASE issues'[i].state = issues[i].state
      BY <2>2, <2>3 DEF CacheIsRecorded
  <2>4. ASSUME NEW t \in Run, pc[t] = "cache", i = Current(t).issue,
               issues'[i].state = DetermineCanonicalState(Current(t))
        PROVE  \E k \in DOMAIN events' :
                   events'[k].issue = i /\ events'[k].state = issues'[i].state
    <3>1. CacheIn(events, Current(t))
        BY <2>4 DEF RecordedInv, Current
    <3>2. QED
        BY <2>2, <2>4, <3>1 DEF CacheIn
  <2>5. QED
      BY <2>3, <2>4, StateStep
<1>3. QED
    BY <1>1, <1>2, RecordedInvariant, PTL DEF Spec
=============================================================================
