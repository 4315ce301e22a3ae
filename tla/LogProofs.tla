------------------------------ MODULE LogProofs ------------------------------
(***************************************************************************)
(* Transformer implements SilverLog: as long as no statement fails and the *)
(* projects of the raw events are known to Silver, issue_events grows by   *)
(* one transition at a time, each classified against the latest event that *)
(* the log holds at that moment - with any number of overlapping runs, in  *)
(* whatever order the events came, repeated or not, and whichever runs are *)
(* killed.                                                                 *)
(***************************************************************************)
EXTENDS TransformerProofs, FiniteSetTheorems

\* No statement has failed, and none has been rejected for a project that has
\* no Silver row yet.
NothingFails ==
    /\ errors = 0
    /\ \A r \in DOMAIN raw : ProjectOf[raw[r].issue] \in silverProjects

\* The row r has left what it has to leave in issue_events.
Logged(r) == IsTransition(raw[r]) => IsRecorded(events, raw[r])

\* A run takes the rows in the order of Bronze, and leaves none behind: what
\* comes before the row it transforms, or before a row of its batch, is in the
\* log unless the run has it in its hands.
TakesInOrder(t) ==
    /\ pc[t] \in {"idle", "list", "next"} => row[t] = 0
    /\ \A b \in batch[t] : row[t] < b
    /\ \A q \in 1 .. row[t] - 1 : Logged(q)
    /\ \A b \in batch[t] : \A q \in 1 .. b - 1 : q \in batch[t] \/ q = row[t] \/ Logged(q)

\* What a run read of the log is still the latest when it comes to insert.
ReadsCurrent(t) ==
    pc[t] = "insert" /\ ~IsRecorded(events, Current(t))
        => last[t] \in LastIssueEvents(events, Current(t).issue)

\* Why no other run comes between the read and the insert of a transition: the
\* rows before it are in the log already, and a run that is at a later row has
\* put this one into the log before.
OrderInv == \A t \in Run : TakesInOrder(t) /\ ReadsCurrent(t)

-----------------------------------------------------------------------------
(* The oldest rows of the unprocessed ones.                                *)

\* ListUnprocessedRawEvents leaves out no row that is older than one it returns.
LEMMA FirstBatchIsFirst ==
    ASSUME TypeInv, NEW b \in FirstBatch, NEW q \in 1 .. b - 1
    PROVE  q \in FirstBatch \/ q \in processed
<1>. SUFFICES ASSUME q \notin processed PROVE q \in FirstBatch
    OBVIOUS
<1>1. /\ raw \in Seq(Event) /\ DOMAIN raw = 1 .. Len(raw) /\ Len(raw) \in Nat
      /\ b \in DOMAIN raw
    BY DEF TypeInv, TypeOK, FirstBatch, Unprocessed
<1>2. q \in Unprocessed /\ q < b
    BY <1>1 DEF Unprocessed
<1>. DEFINE Older(r) == {p \in Unprocessed : p < r}
<1>3. Older(q) \subseteq Older(b)
    BY <1>1, <1>2 DEF Unprocessed
<1>4. IsFiniteSet(Older(b))
  <2>1. Older(b) \subseteq 1 .. Len(raw) /\ IsFiniteSet(1 .. Len(raw))
      BY <1>1, FS_Interval DEF Unprocessed
  <2>2. QED
      BY <2>1, FS_Subset
<1>5. /\ Cardinality(Older(q)) <= Cardinality(Older(b))
      /\ Cardinality(Older(q)) \in Nat /\ Cardinality(Older(b)) \in Nat
    BY <1>3, <1>4, FS_Subset, FS_CardinalityType
<1>6. Cardinality(Older(b)) < BatchSize
    BY DEF FirstBatch
<1>7. QED
    BY <1>2, <1>5, <1>6, TransformerAssumption DEF FirstBatch

-----------------------------------------------------------------------------
(* The invariant.                                                          *)

\* A row of Bronze is never rewritten.
LEMMA RawStays ==
    ASSUME TypeInv, [Next]_vars
    PROVE  DOMAIN raw \subseteq DOMAIN raw' /\ \A r \in DOMAIN raw : raw'[r] = raw[r]
<1>0. raw \in Seq(Event)
    BY DEF TypeInv, TypeOK
<1>1. CASE \E e \in Event : Ingest(e)
    BY <1>0, <1>1 DEF Ingest
<1>2. CASE raw' = raw
    BY <1>2
<1>3. ASSUME NEW t \in Run, RunStep(t) \/ Crash(t) PROVE raw' = raw
    BY <1>3 DEF RunStep, Crash, StartRun, ListBatch, TransformEvent, FinishBatch, LookupIssue,
                CreateIssue, ReadLastEvent, InsertEvent, UpdateCache, ReadMetadata,
                WriteMetadata, InsertComment, UpdateAssignees, bronze
<1>4. QED
    BY <1>1, <1>2, <1>3 DEF Next, vars, bronze, DiscoverProject

\* What a run does with its locals, it does not do with those of the others.
LEMMA OthersStay ==
    ASSUME TypeInv, NEW t \in Run, RunStep(t) \/ Crash(t), NEW u \in Run \ {t}
    PROVE  /\ pc'[u] = pc[u] /\ batch'[u] = batch[u] /\ row'[u] = row[u]
           /\ done'[u] = done[u] /\ snap'[u] = snap[u] /\ last'[u] = last[u]
<1>. DEFINE Others ==
        /\ pc'[u] = pc[u] /\ batch'[u] = batch[u] /\ row'[u] = row[u]
        /\ done'[u] = done[u] /\ snap'[u] = snap[u] /\ last'[u] = last[u]
<1>0. /\ pc \in [Run -> Control] /\ batch \in [Run -> SUBSET DOMAIN raw]
      /\ row \in [Run -> DOMAIN raw \cup {0}] /\ done \in [Run -> SUBSET DOMAIN raw]
      /\ snap \in [Run -> IssueRow] /\ last \in [Run -> SilverEvent \cup {NoEvent}]
    BY DEF TypeInv, TypeOK
<1>1. EndRun(t) => Others
    BY <1>0 DEF EndRun
<1>2. Succeed(t) \/ Fail(t) => Others
    BY <1>0 DEF Succeed, Fail, EndEvent
<1>. HIDE DEF Others
<1>4. CASE StartRun(t)
    BY <1>0, <1>4 DEF StartRun, Goto, Others
<1>5. CASE ListBatch(t)
  <2>1. CASE /\ Goto(t, "next") /\ batch' = [batch EXCEPT ![t] = FirstBatch]
             /\ UNCHANGED <<row, done, snap, last>>
      BY <1>0, <2>1 DEF Goto, Others
  <2>2. QED
      BY <1>1, <1>5, <2>1 DEF ListBatch, Others
<1>6. CASE TransformEvent(t)
  <2>1. PICK r \in batch[t] :
            /\ batch' = [batch EXCEPT ![t] = @ \ {r}]
            /\ \/ done' = [done EXCEPT ![t] = @ \cup {r}] /\ UNCHANGED <<pc, row>>
               \/ Goto(t, "lookup") /\ row' = [row EXCEPT ![t] = r] /\ UNCHANGED done
      BY <1>6 DEF TransformEvent
  <2>2. UNCHANGED <<snap, last>>
      BY <1>6 DEF TransformEvent
  <2>3. QED
      BY <1>0, <2>1, <2>2 DEF Goto
<1>7. CASE FinishBatch(t)
  <2>1. CASE /\ Goto(t, "list") /\ done' = [done EXCEPT ![t] = {}]
             /\ UNCHANGED <<batch, row, snap, last>>
      BY <1>0, <2>1 DEF Goto, Others
  <2>2. QED
      BY <1>1, <1>7, <2>1 DEF FinishBatch, Others
<1>8. CASE LookupIssue(t)
    BY <1>0, <1>8 DEF LookupIssue, Goto, Others
<1>9. CASE CreateIssue(t)
    BY <1>0, <1>2, <1>9 DEF CreateIssue, Goto, Others
<1>10. CASE ReadLastEvent(t)
    BY <1>0, <1>10 DEF ReadLastEvent, Goto, Others
<1>11. CASE InsertEvent(t)
  <2>1. CASE Goto(t, "cache") /\ UNCHANGED <<batch, row, done, snap, last>>
      BY <1>0, <2>1 DEF Goto
  <2>2. QED
      BY <1>2, <1>11, <2>1 DEF InsertEvent, Others
<1>12. CASE ReadMetadata(t)
  <2>1. CASE /\ snap' = [snap EXCEPT ![t] = issues[Current(t).issue]]
             /\ Goto(t, "writemeta") /\ UNCHANGED <<batch, row, done, last>>
      BY <1>0, <2>1 DEF Goto
  <2>2. QED
      BY <1>2, <1>12, <2>1 DEF ReadMetadata, Others
<1>13. CASE UpdateCache(t) \/ WriteMetadata(t) \/ InsertComment(t) \/ UpdateAssignees(t)
    BY <1>2, <1>13 DEF UpdateCache, WriteMetadata, InsertComment, UpdateAssignees, Others
<1>14. CASE Crash(t)
    BY <1>1, <1>14 DEF Crash, Others
<1>15. QED
    BY <1>4, <1>5, <1>6, <1>7, <1>8, <1>9, <1>10, <1>11, <1>12, <1>13, <1>14 DEF RunStep

-----------------------------------------------------------------------------
(* The invariant, from the point of view of a run that another one precedes. *)

\* What has left its transition in the log has done so for good.
LEMMA LoggedStays ==
    ASSUME TypeInv, [Next]_vars, NEW r \in DOMAIN raw, Logged(r)
    PROVE  Logged(r)'
<1>1. raw'[r] = raw[r]
    BY RawStays
<1>2. IsRecorded(events, raw[r]) => IsRecorded(events', raw[r])
  <2>1. Grows(events, events')
      BY NextGrows
  <2>2. events \in Seq(SilverEvent) /\ events' \in Seq(SilverEvent)
      BY NextType DEF TypeInv, TypeOK
  <2>3. QED
      BY <2>1, <2>2 DEF Grows, IsRecorded
<1>3. QED
    BY <1>1, <1>2 DEF Logged

\* The rows of a batch, and the row at hand, are rows of Bronze.
LEMMA RowsTyped ==
    ASSUME TypeInv, NEW t \in Run
    PROVE  /\ row[t] \in Nat /\ batch[t] \subseteq DOMAIN raw
           /\ \A q \in 1 .. row[t] - 1 : q \in DOMAIN raw
           /\ \A b \in batch[t] : b \in Nat /\ \A q \in 1 .. b - 1 : q \in DOMAIN raw
<1>1. /\ batch[t] \subseteq DOMAIN raw /\ row[t] \in DOMAIN raw \cup {0}
      /\ DOMAIN raw = 1 .. Len(raw) /\ Len(raw) \in Nat
    BY DEF TypeInv, TypeOK
<1>2. QED
    BY <1>1

\* A run that does nothing goes on taking its rows in order.
LEMMA WaitsInOrder ==
    ASSUME TypeInv, [Next]_vars, NEW t \in Run, TakesInOrder(t),
           batch'[t] = batch[t], row'[t] = row[t],
           pc'[t] \in {"idle", "list", "next"} => pc[t] \in {"idle", "list", "next"}
    PROVE  TakesInOrder(t)'
<1>1. \A q \in 1 .. row[t] - 1 : Logged(q)'
    BY RowsTyped, LoggedStays DEF TakesInOrder
<1>2. \A b \in batch[t] : \A q \in 1 .. b - 1 : q \in batch[t] \/ q = row[t] \/ Logged(q)'
    BY RowsTyped, LoggedStays DEF TakesInOrder
<1>3. QED
    BY <1>1, <1>2 DEF TakesInOrder

\* And what it read of the log stays the latest: a run that inserts a row of the
\* log is at a row before it, after it or the same, and each is impossible
\* unless the transition is in the log by then.
LEMMA WaitsCurrent ==
    ASSUME TypeInv, OrderInv, [Next]_vars, NEW u \in Run,
           pc'[u] = pc[u], row'[u] = row[u], last'[u] = last[u]
    PROVE  ReadsCurrent(u)'
<1>. SUFFICES ASSUME pc[u] = "insert", ~IsRecorded(events', Current(u)')
              PROVE  last[u] \in LastIssueEvents(events', Current(u)'.issue)
    BY DEF ReadsCurrent
<1>1. /\ row[u] \in DOMAIN raw /\ IsTransition(Current(u)) /\ Current(u)' = Current(u)
  <2>1. row[u] \in DOMAIN raw /\ IsTransition(Current(u))
      BY DEF TypeInv, Located
  <2>2. raw'[row[u]] = raw[row[u]]
      BY <2>1, RawStays
  <2>3. QED
      BY <2>1, <2>2 DEF Current
<1>2. ~Logged(row[u])
  <2>1. ~Logged(row[u])'
      BY <1>1 DEF Logged, Current
  <2>2. QED
      BY <1>1, <2>1, LoggedStays
<1>3. CASE events' = events
    BY <1>1, <1>2, <1>3 DEF ReadsCurrent, OrderInv, Logged, Current
<1>4. ASSUME NEW t \in Run, InsertEvent(t), events' # events PROVE FALSE
  <2>. DEFINE s == SilverRow(Current(t), last[t])
  <2>1. /\ s \in SilverEvent /\ SameKey(s, Current(t)) /\ IsTransition(Current(t))
        /\ events' = InsertIssueEvent(events, Current(t), s)
      BY <1>4, InsertEventStep
  <2>2. row[t] \in DOMAIN raw /\ events \in Seq(SilverEvent)
      BY <1>4, CurrentTyped DEF InsertEvent, TypeInv, TypeOK
  <2>. HIDE DEF s
  <2>3. ~IsRecorded(events, Current(t)) /\ IsRecorded(events', Current(t))
      BY <1>4, <2>1, <2>2, InsertTyped DEF InsertIssueEvent
  <2>4. ~Logged(row[t])
      BY <2>1, <2>3 DEF Logged, Current
  <2>5. row[t] # row[u]
      BY <1>1, <2>3 DEF Current
  <2>6. row[t] \in Nat \ {0} /\ row[u] \in Nat \ {0}
      BY <1>1, <2>2 DEF TypeInv, TypeOK
  <2>7. CASE row[t] < row[u]
      BY <2>4, <2>6, <2>7 DEF OrderInv, TakesInOrder
  <2>8. CASE row[u] < row[t]
      BY <1>2, <2>6, <2>8 DEF OrderInv, TakesInOrder
  <2>9. QED
      BY <2>5, <2>6, <2>7, <2>8
<1>5. QED
    BY <1>3, <1>4, LogStep

-----------------------------------------------------------------------------
(* The run that takes the step.                                            *)

LEMMA EndRunInOrder ==
    ASSUME TypeInv, NEW t \in Run, EndRun(t)
    PROVE  TakesInOrder(t)' /\ ReadsCurrent(t)'
<1>1. pc'[t] = "idle" /\ row'[t] = 0 /\ batch'[t] = {}
    BY DEF EndRun, TypeInv, TypeOK
<1>2. QED
    BY <1>1 DEF TakesInOrder, ReadsCurrent

\* transformEvent returned, and the row has left its transition in the log.
LEMMA EndEventInOrder ==
    ASSUME TypeInv, [Next]_vars, NEW t \in Run, TakesInOrder(t), EndEvent(t),
           NEW r, r = row[t], Logged(r)'
    PROVE  TakesInOrder(t)' /\ ReadsCurrent(t)'
<1>1. pc'[t] = "next" /\ row'[t] = 0 /\ batch'[t] = batch[t]
    BY DEF EndEvent, TypeInv, TypeOK
<1>2. \A b \in batch[t] : 0 < b /\ \A q \in 1 .. b - 1 : q \in batch[t] \/ Logged(q)'
  <2>1. \A b \in batch[t] : 0 < b
      BY DEF TypeInv, TypeOK
  <2>2. ASSUME NEW b \in batch[t], NEW q \in 1 .. b - 1, q \notin batch[t] PROVE Logged(q)'
    <3>1. CASE q = r
        BY <3>1
    <3>2. CASE Logged(q)
        BY <3>2, RowsTyped, LoggedStays
    <3>3. QED
        BY <2>2, <3>1, <3>2 DEF TakesInOrder
  <2>3. QED
      BY <2>1, <2>2
<1>3. QED
    BY <1>1, <1>2 DEF TakesInOrder, ReadsCurrent

\* From one statement of transformEvent to another one.
LEMMA MoveInOrder ==
    ASSUME TypeInv, [Next]_vars, NEW t \in Run, TakesInOrder(t), NEW label \in Control,
           Goto(t, label), UNCHANGED <<batch, row>>, label \notin {"idle", "list", "next", "insert"}
    PROVE  TakesInOrder(t)' /\ ReadsCurrent(t)'
<1>1. pc'[t] = label /\ row'[t] = row[t] /\ batch'[t] = batch[t]
    BY DEF Goto, TypeInv, TypeOK
<1>2. \A q \in 1 .. row[t] - 1 : Logged(q)'
    BY RowsTyped, LoggedStays DEF TakesInOrder
<1>3. \A b \in batch[t] : \A q \in 1 .. b - 1 : q \in batch[t] \/ q = row[t] \/ Logged(q)'
    BY RowsTyped, LoggedStays DEF TakesInOrder
<1>4. \A b \in batch[t] : row[t] < b
    BY DEF TakesInOrder
<1>5. QED
    BY <1>1, <1>2, <1>3, <1>4 DEF TakesInOrder, ReadsCurrent

\* As long as nothing fails, a run that leaves a transition has logged it.
LEMMA StepInOrder ==
    ASSUME TypeInv, RecordedInv, OrderInv, NothingFails, NothingFails', [Next]_vars,
           NEW t \in Run, RunStep(t) \/ Crash(t)
    PROVE  TakesInOrder(t)' /\ ReadsCurrent(t)'
<1>. DEFINE Goal == TakesInOrder(t)' /\ ReadsCurrent(t)'
<1>0. /\ pc \in [Run -> Control] /\ batch \in [Run -> SUBSET DOMAIN raw]
      /\ row \in [Run -> DOMAIN raw \cup {0}] /\ last \in [Run -> SilverEvent \cup {NoEvent}]
      /\ TakesInOrder(t)
    BY DEF TypeInv, TypeOK, OrderInv
<1>d. ~DbError
    BY DEF DbError, NothingFails
<1>r. raw' = raw
    BY DEF RunStep, Crash, StartRun, ListBatch, TransformEvent, FinishBatch, LookupIssue,
           CreateIssue, ReadLastEvent, InsertEvent, UpdateCache, ReadMetadata,
           WriteMetadata, InsertComment, UpdateAssignees, bronze
<1>end. EndRun(t) => Goal
    BY EndRunInOrder
<1>. DEFINE r == row[t]
<1>event. ASSUME EndEvent(t), Logged(r), r \in DOMAIN raw PROVE Goal
  <2>. HIDE DEF r
  <2>1. PICK x : x = r
      OBVIOUS
  <2>2. Logged(x)'
      BY <1>event, <2>1, LoggedStays
  <2>3. x = row[t]
      BY <2>1 DEF r
  <2>. HIDE DEF Goal
  <2>4. QED
      BY <1>0, <1>event, <2>2, <2>3, EndEventInOrder DEF Goal
<1>k. pc[t] \notin {"idle", "list", "next"} => r \in DOMAIN raw /\ HasEffect(raw[r])
    BY DEF TypeInv, Located, Current
<1>a. pc[t] \notin {"idle", "list", "next"} =>
          AfterEnsure(Current(t)) \in {"readmeta", "last", "comment", "assign"}
    BY CurrentTyped, AfterEnsureTyped
<1>m. ASSUME NEW label \in {"lookup", "create", "readmeta", "writemeta", "last", "comment",
                            "assign", "cache"},
             Goto(t, label), UNCHANGED <<batch, row>>
      PROVE  Goal
    BY <1>0, <1>m, MoveInOrder DEF Control
<1>. HIDE DEF Goal
<1>. SUFFICES Goal
    BY DEF Goal
<1>1. CASE StartRun(t)
  <2>1. Goto(t, "list") /\ UNCHANGED <<batch, row>> /\ pc[t] = "idle"
      BY <1>1 DEF StartRun
  <2>2. TakesInOrder(t)'
      BY <1>0, <2>1, WaitsInOrder
  <2>3. QED
      BY <1>0, <2>1, <2>2 DEF Goto, ReadsCurrent, Goal
<1>2. CASE ListBatch(t)
  <2>1. CASE Goto(t, "next") /\ batch' = [batch EXCEPT ![t] = FirstBatch] /\ UNCHANGED row
    <3>1. pc'[t] = "next" /\ batch'[t] = FirstBatch /\ row'[t] = 0
        BY <1>0, <1>2, <2>1 DEF Goto, ListBatch, TakesInOrder
    <3>2. \A b \in FirstBatch : 0 < b
        BY DEF FirstBatch, Unprocessed, TypeInv, TypeOK
    <3>3. ASSUME NEW b \in FirstBatch, NEW q \in 1 .. b - 1, q \notin FirstBatch
          PROVE  Logged(q)'
      <4>1. q \in processed /\ q \in DOMAIN raw
          BY <3>3, FirstBatchIsFirst DEF TypeInv, TypeOK
      <4>2. Logged(q)
          BY <4>1 DEF RecordedInv, RecordedIn, Logged
      <4>3. QED
          BY <4>1, <4>2, LoggedStays
    <3>4. QED
        BY <3>1, <3>2, <3>3 DEF TakesInOrder, ReadsCurrent, Goal
  <2>2. QED
      BY <1>end, <1>2, <2>1 DEF ListBatch
<1>3. CASE TransformEvent(t)
  <2>1. PICK b \in batch[t] :
            /\ \A q \in batch[t] : b <= q
            /\ batch' = [batch EXCEPT ![t] = @ \ {b}]
            /\ \/ ~HasEffect(raw[b]) /\ UNCHANGED <<pc, row>>
               \/ Goto(t, "lookup") /\ row' = [row EXCEPT ![t] = b]
      BY <1>3 DEF TransformEvent
  <2>2. pc[t] = "next" /\ row[t] = 0 /\ b \in DOMAIN raw /\ b \in Nat /\ batch'[t] = batch[t] \ {b}
      BY <1>0, <1>3, <2>1 DEF TransformEvent, TakesInOrder, TypeInv, TypeOK
  <2>3. ASSUME NEW q \in 1 .. b - 1 PROVE Logged(q)'
    <3>1. q \notin batch[t] /\ q # 0
        BY <2>1, <2>2
    <3>2. Logged(q)
        BY <2>1, <2>2, <3>1 DEF OrderInv, TakesInOrder
    <3>3. QED
        BY <3>2, RowsTyped, LoggedStays
  <2>4. ASSUME NEW c \in batch'[t], NEW q \in 1 .. c - 1, q \notin batch'[t], q # b
        PROVE  Logged(q)'
    <3>1. c \in batch[t] /\ q \notin batch[t] /\ q # 0 /\ q \in DOMAIN raw
        BY <2>2, <2>4, RowsTyped
    <3>2. Logged(q)
        BY <2>2, <3>1 DEF OrderInv, TakesInOrder
    <3>3. QED
        BY <3>1, <3>2, LoggedStays
  <2>5. \A c \in batch'[t] : b < c /\ 0 < c
      BY <2>1, <2>2, RowsTyped
  <2>6. CASE ~HasEffect(raw[b]) /\ UNCHANGED <<pc, row>>
    <3>1. Logged(b)'
        BY <2>6, <2>2, KindsExclude, LoggedStays DEF Logged
    <3>2. pc'[t] = "next" /\ row'[t] = 0
        BY <2>2, <2>6
    <3>3. QED
        BY <2>4, <2>5, <3>1, <3>2 DEF TakesInOrder, ReadsCurrent, Goal
  <2>7. CASE Goto(t, "lookup") /\ row' = [row EXCEPT ![t] = b]
    <3>1. pc'[t] = "lookup" /\ row'[t] = b
        BY <1>0, <2>7 DEF Goto
    <3>2. QED
        BY <2>3, <2>4, <2>5, <3>1 DEF TakesInOrder, ReadsCurrent, Goal
  <2>8. QED
      BY <2>1, <2>6, <2>7
<1>4. CASE FinishBatch(t)
  <2>1. CASE Goto(t, "list") /\ UNCHANGED <<batch, row>>
    <3>1. TakesInOrder(t)'
        BY <1>0, <1>4, <2>1, WaitsInOrder DEF FinishBatch
    <3>2. QED
        BY <1>0, <2>1, <3>1 DEF Goto, ReadsCurrent, Goal
  <2>2. QED
      BY <1>end, <1>4, <2>1 DEF FinishBatch
<1>5. CASE LookupIssue(t)
  <2>1. pc[t] = "lookup" /\ UNCHANGED <<batch, row>>
        /\ (Goto(t, "create") \/ Goto(t, AfterEnsure(Current(t))))
      BY <1>5 DEF LookupIssue
  <2>2. QED
      BY <1>a, <1>m, <2>1
<1>6. CASE CreateIssue(t)
  <2>1. ProjectOf[Current(t).issue] \in silverProjects
      BY <1>6, CurrentTyped DEF CreateIssue, Current, NothingFails
  <2>2. pc[t] = "create" /\ UNCHANGED <<batch, row>> /\ Goto(t, AfterEnsure(Current(t)))
      BY <1>d, <1>6, <2>1 DEF CreateIssue
  <2>3. QED
      BY <1>a, <1>m, <2>2
<1>7. CASE ReadLastEvent(t)
  <2>1. /\ pc[t] = "last" /\ UNCHANGED <<batch, row>> /\ Goto(t, "insert")
        /\ events' = events
        /\ \E s \in LastIssueEvents(events, Current(t).issue) : last' = [last EXCEPT ![t] = s]
      BY <1>d, <1>7 DEF ReadLastEvent, silver
  <2>2. TakesInOrder(t)'
      BY <1>0, <2>1, WaitsInOrder DEF Goto
  <2>3. Current(t)' = Current(t)
      BY <1>r, <2>1 DEF Current
  <2>4. last'[t] \in LastIssueEvents(events, Current(t).issue)
      BY <1>0, <2>1
  <2>5. QED
      BY <2>1, <2>2, <2>3, <2>4 DEF ReadsCurrent, Goal
<1>8. CASE InsertEvent(t)
  <2>1. CASE Goto(t, "cache") /\ UNCHANGED <<batch, row>>
      BY <1>m, <2>1
  <2>2. CASE Succeed(t)
    <3>. HIDE DEF r
    <3>1. PICK x : x = r
        OBVIOUS
    <3>2. x = row[t] /\ x \in DOMAIN raw
        BY <1>8, <3>1, CurrentTyped DEF InsertEvent, r
    <3>3. IsRecorded(events', Current(t))
      <4>1. events' = InsertIssueEvent(events, Current(t), SilverRow(Current(t), last[t]))
          BY <1>8, <1>d DEF InsertEvent
      <4>2. /\ SilverRow(Current(t), last[t]) \in SilverEvent
            /\ SameKey(SilverRow(Current(t), last[t]), Current(t))
          BY <1>8, InsertEventStep
      <4>3. events \in Seq(SilverEvent)
          BY DEF TypeInv, TypeOK
      <4>4. QED
          BY <4>1, <4>2, <4>3, InsertTyped
    <3>4. Logged(x)'
        BY <1>r, <3>2, <3>3 DEF Logged, Current
    <3>5. QED
        BY <1>0, <2>2, <3>2, <3>4, EndEventInOrder DEF Succeed, Goal
  <2>3. QED
      BY <1>d, <1>8, <2>1, <2>2 DEF InsertEvent
<1>9. CASE UpdateCache(t)
  <2>1. pc[t] = "cache" /\ EndEvent(t)
      BY <1>9 DEF UpdateCache, Succeed
  <2>2. IsRecorded(events, raw[r])
      BY <2>1 DEF RecordedInv, CacheIn
  <2>3. QED
      BY <1>event, <1>k, <2>1, <2>2 DEF Logged
<1>10. CASE ReadMetadata(t) \/ WriteMetadata(t) \/ InsertComment(t) \/ UpdateAssignees(t)
  <2>1. pc[t] \in {"readmeta", "writemeta", "comment", "assign"}
      BY <1>10 DEF ReadMetadata, WriteMetadata, InsertComment, UpdateAssignees
  <2>2. Logged(r)
      BY <2>1, KindsExclude DEF TypeInv, Located, Current, Logged
  <2>3. CASE Goto(t, "writemeta") /\ UNCHANGED <<batch, row>>
      BY <1>m, <2>3
  <2>4. QED
      BY <1>event, <1>k, <1>10, <2>1, <2>2, <2>3
      DEF ReadMetadata, WriteMetadata, InsertComment, UpdateAssignees, Succeed, Fail
<1>11. CASE Crash(t)
    BY <1>end, <1>11 DEF Crash
<1>12. QED
    BY <1>1, <1>2, <1>3, <1>4, <1>5, <1>6, <1>7, <1>8, <1>9, <1>10, <1>11 DEF RunStep

LEMMA InitOrder == Init => OrderInv
BY DEF Init, OrderInv, TakesInOrder, ReadsCurrent

LEMMA NextOrder ==
    ASSUME TypeInv, RecordedInv, OrderInv, NothingFails, NothingFails', [Next]_vars
    PROVE  OrderInv'
<1>. USE DEF bronze, locals
<1>1. ASSUME NEW t \in Run, RunStep(t) \/ Crash(t) PROVE OrderInv'
  <2>1. ASSUME NEW u \in Run \ {t} PROVE TakesInOrder(u)' /\ ReadsCurrent(u)'
    <3>1. /\ pc'[u] = pc[u] /\ batch'[u] = batch[u] /\ row'[u] = row[u] /\ last'[u] = last[u]
        BY <1>1, OthersStay
    <3>2. TakesInOrder(u)
        BY DEF OrderInv
    <3>3. QED
        BY <3>1, <3>2, WaitsInOrder, WaitsCurrent
  <2>2. TakesInOrder(t)' /\ ReadsCurrent(t)'
      BY <1>1, StepInOrder
  <2>3. QED
      BY <2>1, <2>2 DEF OrderInv
<1>2. CASE UNCHANGED locals
  <2>1. ASSUME NEW u \in Run PROVE TakesInOrder(u)' /\ ReadsCurrent(u)'
      BY <1>2, WaitsInOrder, WaitsCurrent DEF OrderInv
  <2>2. QED
      BY <2>1 DEF OrderInv
<1>3. QED
    BY <1>1, <1>2 DEF Next, vars, Ingest, DiscoverProject

\* Every run goes through Bronze in order as long as nothing fails.
LEMMA OrderInvariant == Spec /\ []NothingFails => [](TypeInv /\ RecordedInv /\ OrderInv)
BY RecordedInvariant, InitOrder, NextOrder, PTL DEF Spec

-----------------------------------------------------------------------------
(* The refinement.                                                         *)

\* SilverLog classifies and recognises an event as the transformer does.
LEMMA SameOperators ==
    ASSUME NEW e, NEW l, NEW log, NEW i
    PROVE  /\ Log!IsTransition(e) <=> IsTransition(e)
           /\ Log!IsRecorded(log, e) <=> IsRecorded(log, e)
           /\ Log!LastIssueEvents(log, i) = LastIssueEvents(log, i)
           /\ Log!SilverRow(e, l) = SilverRow(e, l)
<1>1. Log!DetermineCanonicalState(e) = DetermineCanonicalState(e)
  <2>1. Log!MapLabel(e.label) = MapLabel(e.label)
      BY DEF Log!MapLabel, MapLabel, Log!None, None
  <2>2. QED
      BY <2>1 DEF Log!DetermineCanonicalState, DetermineCanonicalState, Log!None, None
<1>2. Log!IsTransition(e) <=> IsTransition(e)
    BY <1>1 DEF Log!IsTransition, IsTransition, Log!None, None
<1>3. Log!IsRecorded(log, e) <=> IsRecorded(log, e)
    BY DEF Log!IsRecorded, IsRecorded, Log!SameKey, SameKey
<1>4. Log!NoEvent = NoEvent
    BY DEF Log!NoEvent, NoEvent, Log!None, None
<1>5. Log!LastIssueEvents(log, i) = LastIssueEvents(log, i)
    BY <1>4 DEF Log!LastIssueEvents, LastIssueEvents
<1>6. ASSUME NEW s
      PROVE  /\ Log!DetectNervousFinger(l, s, e.at) = DetectNervousFinger(l, s, e.at)
             /\ Log!CalculateCycleCount(l, s) = CalculateCycleCount(l, s)
    BY DEF Log!DetectNervousFinger, DetectNervousFinger, Log!CalculateCycleCount,
           CalculateCycleCount
<1>7. Log!SilverRow(e, l) = SilverRow(e, l)
    BY <1>1, <1>4, <1>6 DEF Log!SilverRow, SilverRow
<1>8. QED
    BY <1>2, <1>3, <1>5, <1>7

\* A step of the transformer is a step of SilverLog, or leaves the log as it is.
LEMMA StepRefines ==
    ASSUME TypeInv, OrderInv, NothingFails, [Next]_vars
    PROVE  [Log!Next]_events
<1>1. ASSUME NEW t \in Run, InsertEvent(t), events' # events PROVE Log!Next
  <2>. DEFINE e == Current(t)
  <2>1. /\ pc[t] = "insert" /\ IsTransition(e)
        /\ events' = InsertIssueEvent(events, e, SilverRow(e, last[t]))
      BY <1>1, InsertEventStep DEF InsertEvent
  <2>2. ~IsRecorded(events, e) /\ events' = Append(events, SilverRow(e, last[t]))
      BY <1>1, <2>1 DEF InsertIssueEvent
  <2>3. e \in Event
    <3>1. row[t] \in DOMAIN raw /\ raw \in Seq(Event)
        BY <2>1, CurrentTyped DEF TypeInv, TypeOK
    <3>2. QED
        BY <3>1 DEF Current
  <2>4. last[t] \in LastIssueEvents(events, e.issue)
      BY <2>1, <2>2 DEF OrderInv, ReadsCurrent
  <2>. HIDE DEF e
  <2>5. QED
      BY <2>1, <2>2, <2>3, <2>4, SameOperators DEF Log!Next, Log!Record
<1>2. QED
    BY <1>1, LogStep

\* issue_events is the log that SilverLog describes: one transition at a time,
\* classified against the latest event the log holds in that very step, although
\* GetLastIssueEvent and InsertIssueEvent are two statements and runs overlap
\* (service.go:229-275).  It is so until a statement fails, or the foreign key
\* rejects an issue: then a later row may pass the rejected one.
THEOREM ImplementsSilverLog == Spec /\ []NothingFails => RefinesSilverLog
<1>1. Init => Log!Init
    BY DEF Init, Log!Init
<1>2. TypeInv /\ OrderInv /\ NothingFails /\ [Next]_vars => [Log!Next]_events
    BY StepRefines
<1>3. QED
    BY <1>1, <1>2, OrderInvariant, PTL DEF Spec, RefinesSilverLog, Log!Spec

\* In particular when no statement fails and Silver knows every project from the
\* beginning, whatever is killed and however the runs overlap.
THEOREM ImplementsSilverLogFromStart ==
    ASSUME MaxErrors = 0, SilverAtStart = Project
    PROVE  Spec => RefinesSilverLog
<1>1. TypeInv /\ Init => silverProjects = Project
    BY DEF Init
<1>2. TypeInv /\ silverProjects = Project /\ [Next]_vars => (silverProjects = Project)'
  <2>1. ASSUME NEW t \in Run, RunStep(t) \/ Crash(t) PROVE silverProjects' = silverProjects
      BY <2>1 DEF RunStep, Crash, StartRun, ListBatch, TransformEvent, FinishBatch, LookupIssue,
                  CreateIssue, ReadLastEvent, InsertEvent, UpdateCache, ReadMetadata,
                  WriteMetadata, InsertComment, UpdateAssignees, silver
  <2>2. ASSUME NEW p \in Project, DiscoverProject(p)
        PROVE  silverProjects' = silverProjects \cup {p}
      BY <2>2 DEF DiscoverProject
  <2>3. (\E e \in Event : Ingest(e)) \/ UNCHANGED vars => silverProjects' = silverProjects
      BY DEF Ingest, vars, silver
  <2>4. [Next]_vars => \/ silverProjects' = silverProjects
                       \/ \E p \in Project : silverProjects' = silverProjects \cup {p}
      BY <2>1, <2>2, <2>3 DEF Next
  <2>5. QED
      BY <2>4
<1>3. TypeInv /\ silverProjects = Project => NothingFails
    BY EventAssumption DEF NothingFails, TypeInv, TypeOK, EventRecord
<1>4. Spec => []NothingFails
    BY <1>1, <1>2, <1>3, TypeInvariant, PTL DEF Spec
<1>5. QED
    BY <1>4, ImplementsSilverLog, PTL

-----------------------------------------------------------------------------
(* The rework rounds of a log whose transitions came in the order of time. *)

Ordered(log) ==
    \A j, k \in DOMAIN log : log[j].issue = log[k].issue /\ j < k => log[j].at < log[k].at

\* The history of the issue of row k before that row, noise left out.
Before(log, k) ==
    {j \in DOMAIN log : /\ log[j].issue = log[k].issue
                        /\ ~log[j].noise /\ log[j].at < log[k].at}

\* The latest of the rows B before row j is in QA.
FollowsQA(log, B, j) ==
    \E q \in B :
        /\ log[q].state = "QA_REVIEW" /\ log[q].at < log[j].at
        /\ \A m \in B : log[m].at < log[j].at => log[m].at <= log[q].at

Rounds(log, k) ==
    {j \in Before(log, k) \cup {k} :
        log[j].state = "IN_PROGRESS" /\ FollowsQA(log, Before(log, k), j)}

CountsRounds(log) == \A k \in DOMAIN log : log[k].cycle = Cardinality(Rounds(log, k))

\* What is appended does not change the history of an earlier row.
LEMMA EarlierRounds ==
    ASSUME NEW log \in Seq(SilverEvent), NEW s \in SilverEvent, Ordered(Append(log, s)),
           NEW k \in DOMAIN log
    PROVE  Rounds(Append(log, s), k) = Rounds(log, k)
<1>. DEFINE n == Len(log) + 1
            a == Append(log, s)
            B == Before(log, k)
<1>1. /\ DOMAIN a = DOMAIN log \cup {n} /\ n \notin DOMAIN log /\ n \in DOMAIN a
      /\ \A j \in DOMAIN log : a[j] = log[j] /\ j < n
      /\ \A j \in DOMAIN a : a[j].at \in Nat
  <2>1. /\ DOMAIN a = DOMAIN log \cup {n} /\ n \notin DOMAIN log /\ n \in DOMAIN a
        /\ \A j \in DOMAIN log : a[j] = log[j] /\ j < n
      OBVIOUS
  <2>2. a \in Seq(SilverEvent)
      OBVIOUS
  <2>. HIDE DEF a
  <2>3. \A j \in DOMAIN a : a[j] \in SilverEvent
      BY <2>2
  <2>4. QED
      BY <2>1, <2>3 DEF SilverEvent
<1>2. Ordered(a)
    OBVIOUS
<1>. HIDE DEF n, a
<1>3. Before(a, k) = B
  <2>1. ~(a[n].issue = a[k].issue /\ a[n].at < a[k].at)
    <3>1. a[n].issue = a[k].issue => a[k].at < a[n].at
        BY <1>1, <1>2 DEF Ordered
    <3>2. a[n].at \in Nat /\ a[k].at \in Nat
        BY <1>1
    <3>3. QED
        BY <3>1, <3>2
  <2>2. QED
      BY <1>1, <2>1 DEF Before
<1>4. B \subseteq DOMAIN log
    BY DEF Before
<1>5. \A j \in DOMAIN log : FollowsQA(a, B, j) <=> FollowsQA(log, B, j)
  <2>. HIDE DEF B
  <2>1. QED
      BY <1>1, <1>4 DEF FollowsQA
<1>6. Rounds(a, k) = Rounds(log, k)
    BY <1>1, <1>3, <1>4, <1>5 DEF Rounds
<1>7. QED
    BY <1>6 DEF a

\* One more round when the latest row is in QA and the new one in development.
LEMMA RoundsAppend ==
    ASSUME NEW log \in Seq(SilverEvent), NEW s \in SilverEvent,
           NEW prev \in LastIssueEvents(log, s.issue),
           s.cycle = IF prev = NoEvent THEN 0 ELSE CalculateCycleCount(prev, s.state),
           Ordered(Append(log, s)), CountsRounds(log)
    PROVE  CountsRounds(Append(log, s))
<1>. DEFINE n == Len(log) + 1
            a == Append(log, s)
            R == {k \in DOMAIN log : log[k].issue = s.issue /\ ~log[k].noise}
<1>1. /\ DOMAIN a = DOMAIN log \cup {n} /\ n \notin DOMAIN log /\ n \in DOMAIN a /\ a[n] = s
      /\ \A j \in DOMAIN log : a[j] = log[j] /\ j < n
      /\ DOMAIN log = 1 .. Len(log)
      /\ \A j \in DOMAIN log : /\ log[j].at \in Nat /\ log[j].cycle \in Nat
                               /\ log[j].state \in CanonicalState
      /\ s.at \in Nat
  <2>1. /\ DOMAIN a = DOMAIN log \cup {n} /\ n \notin DOMAIN log /\ n \in DOMAIN a /\ a[n] = s
        /\ \A j \in DOMAIN log : a[j] = log[j] /\ j < n
        /\ DOMAIN log = 1 .. Len(log)
      OBVIOUS
  <2>2. \A j \in DOMAIN log : log[j] \in SilverEvent
      OBVIOUS
  <2>3. QED
      BY <2>1, <2>2 DEF SilverEvent
<1>2. Ordered(a)
    OBVIOUS
<1>3. \A k \in DOMAIN log : Rounds(a, k) = Rounds(log, k)
    BY EarlierRounds
<1>. HIDE DEF n, a, R
<1>4. \A k \in DOMAIN log : a[k].cycle = Cardinality(Rounds(a, k))
    BY <1>1, <1>3 DEF CountsRounds
<1>5. Before(a, n) = R
  <2>1. \A j \in DOMAIN log : log[j].issue = s.issue => log[j].at < s.at
      BY <1>1, <1>2 DEF Ordered
  <2>2. QED
      BY <1>1, <2>1 DEF Before, R
<1>6. s.cycle = Cardinality(Rounds(a, n))
  <2>1. CASE R = {}
    <3>1. prev = NoEvent
        BY <2>1 DEF LastIssueEvents, R
    <3>2. Rounds(a, n) = {}
        BY <1>5, <2>1 DEF Rounds, FollowsQA
    <3>3. QED
        BY <3>1, <3>2, FS_EmptySet
  <2>2. CASE R # {}
    <3>1. PICK p \in R : prev = log[p] /\ \A j \in R : log[j].at <= log[p].at
        BY <2>2 DEF LastIssueEvents, R
    <3>2. p \in DOMAIN log /\ log[p].issue = s.issue /\ ~log[p].noise
        BY <3>1 DEF R
    <3>3. prev # NoEvent
      <4>1. prev.state \in CanonicalState
          BY <1>1, <3>1, <3>2
      <4>2. NoEvent.state \notin CanonicalState
          BY DEF NoEvent, None, CanonicalState
      <4>3. QED
          BY <4>1, <4>2
    <3>4. Before(log, p) \cup {p} = R
      <4>1. \A j \in R : j = p \/ log[j].at < log[p].at
        <5>. SUFFICES ASSUME NEW j \in R, j # p PROVE log[j].at < log[p].at
            OBVIOUS
        <5>1. j \in DOMAIN log /\ log[j].issue = s.issue /\ a[j] = log[j] /\ a[p] = log[p]
            BY <1>1, <3>2 DEF R
        <5>2. j < p \/ p < j
            BY <1>1, <3>2, <5>1
        <5>3. log[j].at < log[p].at \/ log[p].at < log[j].at
            BY <1>1, <1>2, <3>2, <5>1, <5>2 DEF Ordered
        <5>4. QED
            BY <1>1, <3>1, <3>2, <5>1, <5>3
      <4>2. QED
          BY <3>2, <4>1 DEF Before, R
    <3>5. \A j \in R : FollowsQA(a, R, j) <=> FollowsQA(log, Before(log, p), j)
      <4>1. R \subseteq DOMAIN log /\ Before(log, p) \subseteq R
          BY <3>4 DEF R
      <4>2. \A q \in R : q \in Before(log, p) \/ q = p
          BY <3>4
      <4>3. \A j \in R : ~(log[p].at < log[j].at)
          BY <1>1, <3>1, <3>2, <4>1
      <4>4. \A q \in R : a[q] = log[q]
          BY <1>1, <4>1
      <4>5. QED
          BY <4>1, <4>2, <4>3, <4>4 DEF FollowsQA
    <3>6. FollowsQA(a, R, n) <=> prev.state = "QA_REVIEW"
      <4>1. R \subseteq DOMAIN log /\ \A q \in R : a[q] = log[q] /\ log[q].at < s.at
          BY <1>1, <1>2 DEF R, Ordered
      <4>2. ASSUME NEW q \in R, \A m \in R : log[m].at < s.at => log[m].at <= log[q].at
            PROVE  q = p
        <5>1. log[p].at <= log[q].at
            BY <3>1, <4>1, <4>2
        <5>2. ~(log[q].at < log[p].at)
            BY <1>1, <3>2, <4>1, <5>1
        <5>3. q \in Before(log, p) => log[q].at < log[p].at
            BY DEF Before
        <5>4. QED
            BY <3>4, <5>2, <5>3
      <4>3. QED
          BY <1>1, <3>1, <4>1, <4>2 DEF FollowsQA
    <3>7. Rounds(a, n) = Rounds(log, p) \cup
              {j \in {n} : s.state = "IN_PROGRESS" /\ prev.state = "QA_REVIEW"}
      <4>1. R \subseteq DOMAIN log /\ \A j \in R : a[j] = log[j]
          BY <1>1 DEF R
      <4>2. Rounds(a, n) =
                {j \in R \cup {n} : a[j].state = "IN_PROGRESS" /\ FollowsQA(a, R, j)}
          BY <1>5 DEF Rounds
      <4>3. Rounds(log, p) =
                {j \in R : log[j].state = "IN_PROGRESS" /\ FollowsQA(log, Before(log, p), j)}
          BY <3>4 DEF Rounds
      <4>4. QED
          BY <1>1, <3>5, <3>6, <4>1, <4>2, <4>3
    <3>8. IsFiniteSet(Rounds(log, p)) /\ n \notin Rounds(log, p)
      <4>1. Rounds(log, p) \subseteq DOMAIN log
          BY <3>2 DEF Rounds, Before
      <4>2. IsFiniteSet(1 .. Len(log))
          BY FS_Interval
      <4>3. QED
          BY <1>1, <4>1, <4>2, FS_Subset
    <3>9. prev.cycle = Cardinality(Rounds(log, p))
        BY <3>1, <3>2 DEF CountsRounds
    <3>10. CASE prev.state = "QA_REVIEW" /\ s.state = "IN_PROGRESS"
      <4>1. Rounds(a, n) = Rounds(log, p) \cup {n}
          BY <3>7, <3>10
      <4>2. Cardinality(Rounds(a, n)) = Cardinality(Rounds(log, p)) + 1
          BY <3>8, <4>1, FS_AddElement
      <4>3. QED
          BY <3>3, <3>9, <3>10, <4>2 DEF CalculateCycleCount
    <3>11. CASE ~(prev.state = "QA_REVIEW" /\ s.state = "IN_PROGRESS")
      <4>1. Rounds(a, n) = Rounds(log, p)
          BY <3>7, <3>11
      <4>2. QED
          BY <3>3, <3>9, <3>11, <4>1 DEF CalculateCycleCount
    <3>12. QED
        BY <3>10, <3>11
  <2>3. QED
      BY <2>1, <2>2
<1>7. CountsRounds(a)
    BY <1>1, <1>4, <1>6 DEF CountsRounds
<1>8. QED
    BY <1>7 DEF a

LEMMA RoundsStep ==
    ASSUME TypeInv, OrderInv, NothingFails, [Next]_vars, Ordered(events) => CountsRounds(events),
           Ordered(events')
    PROVE  CountsRounds(events')
<1>0. events \in Seq(SilverEvent)
    BY DEF TypeInv, TypeOK
<1>1. Ordered(events)
  <2>1. Grows(events, events') /\ events' \in Seq(SilverEvent)
      BY NextGrows, NextType DEF TypeInv, TypeOK
  <2>2. DOMAIN events \subseteq DOMAIN events' /\ \A k \in DOMAIN events : events'[k] = events[k]
      BY <1>0, <2>1 DEF Grows
  <2>3. QED
      BY <2>2 DEF Ordered
<1>2. CASE events' = events
    BY <1>1, <1>2
<1>3. ASSUME NEW t \in Run, InsertEvent(t), events' # events PROVE CountsRounds(events')
  <2>. DEFINE e == Current(t)
              s == SilverRow(e, last[t])
  <2>1. /\ pc[t] = "insert" /\ events' = InsertIssueEvent(events, e, s)
        /\ s \in SilverEvent /\ s.issue = e.issue
      BY <1>3, InsertEventStep DEF InsertEvent
  <2>2. ~IsRecorded(events, e) /\ events' = Append(events, s)
      BY <1>3, <2>1 DEF InsertIssueEvent
  <2>3. last[t] \in LastIssueEvents(events, s.issue)
      BY <2>1, <2>2 DEF OrderInv, ReadsCurrent
  <2>4. s.cycle = IF last[t] = NoEvent THEN 0 ELSE CalculateCycleCount(last[t], s.state)
      BY DEF SilverRow
  <2>. HIDE DEF s
  <2>5. PICK l, new : l = last[t] /\ new = s
      OBVIOUS
  <2>6. CountsRounds(Append(events, new))
      BY <1>0, <1>1, <2>1, <2>2, <2>3, <2>4, <2>5, RoundsAppend
  <2>7. QED
      BY <2>2, <2>5, <2>6
<1>4. QED
    BY <1>2, <1>3, LogStep

\* cycle_count (edge_cases.go:58-72) is computed from one row, the latest that is
\* not noise; as long as nothing fails and the transitions of each issue are
\* recorded in the order of their time, it is the number of returns from QA to
\* development in the whole history of the issue.
THEOREM CyclesAreReworkRounds ==
    Spec /\ []NothingFails
        => []((\A i \in Issue : InTimeOrder(i)) => CycleCountIsReworkRounds)
<1>. DEFINE J == Ordered(events) => CountsRounds(events)
<1>1. TypeInv /\ OrderInv /\ NothingFails /\ J /\ [Next]_vars => J'
    BY RoundsStep
<1>2. Init => J
    BY DEF Init, CountsRounds
<1>3. TypeInv /\ J => ((\A i \in Issue : InTimeOrder(i)) => CycleCountIsReworkRounds)
  <2>1. TypeInv /\ (\A i \in Issue : InTimeOrder(i)) => Ordered(events)
    <3>1. TypeInv => \A k \in DOMAIN events : events[k].issue \in Issue
      <4>1. TypeInv => \A k \in DOMAIN events : events[k] \in SilverEvent
          BY DEF TypeInv, TypeOK
      <4>2. QED
          BY <4>1 DEF SilverEvent
    <3>2. QED
        BY <3>1 DEF InTimeOrder, Ordered
  <2>2. CountsRounds(events) => CycleCountIsReworkRounds
      BY DEF CountsRounds, Rounds, Before, FollowsQA, CycleCountIsReworkRounds
  <2>3. QED
      BY <2>1, <2>2
<1>. HIDE DEF J
<1>4. QED
    BY <1>1, <1>2, <1>3, OrderInvariant, PTL DEF Spec

-----------------------------------------------------------------------------
(* An extractor that delivers in order makes a log in the order of time.    *)

\* GitLab gives the later transition of an issue the larger ID.
TransitionsInTime ==
    \A e, f \in Event :
        IsTransition(e) /\ IsTransition(f) /\ e.issue = f.issue /\ e.id < f.id => e.at < f.at

\* The rows of the log are those of transitions, and none came before an earlier
\* one of its issue.
Traced(log) ==
    \A k \in DOMAIN log :
        /\ \E f \in Event : /\ IsTransition(f) /\ f.id = log[k].id
                            /\ f.issue = log[k].issue /\ f.at = log[k].at
        /\ \A f \in Event :
              IsTransition(f) /\ f.issue = log[k].issue /\ f.id < log[k].id
                  => IsRecorded(log, f)

\* Bronze has what GitLab gave to an issue before a row of it, and so does the log.
DeliveredInv ==
    /\ \A r \in DOMAIN raw : \A f \in Event :
          f.issue = raw[r].issue /\ f.type = raw[r].type /\ f.id < raw[r].id
              => \E q \in 1 .. r - 1 : raw[q] = f
    /\ Traced(events) /\ Ordered(events)

LEMMA DeliveredAppend ==
    ASSUME NEW log \in Seq(SilverEvent), NEW s \in SilverEvent, NEW e \in Event, IsTransition(e),
           TransitionsInTime, s.id = e.id, s.issue = e.issue, s.at = e.at, ~IsRecorded(log, e),
           \A f \in Event : IsTransition(f) /\ f.issue = e.issue /\ f.id < e.id
               => IsRecorded(log, f),
           Traced(log), Ordered(log)
    PROVE  Traced(Append(log, s)) /\ Ordered(Append(log, s))
<1>. DEFINE n == Len(log) + 1
            new == Append(log, s)
<1>1. /\ DOMAIN new = DOMAIN log \cup {n} /\ n \notin DOMAIN log /\ n \in DOMAIN new
      /\ new[n] = s /\ \A j \in DOMAIN log : new[j] = log[j] /\ j < n
      /\ n \in Nat /\ \A j \in DOMAIN log : j \in Nat
    OBVIOUS
<1>2. \A j \in DOMAIN log : log[j] \in SilverEvent
    OBVIOUS
<1>. HIDE DEF n, new
<1>3. \A f \in Event : IsRecorded(log, f) => IsRecorded(new, f)
    BY <1>1 DEF IsRecorded
<1>4. \A j \in DOMAIN log : log[j].issue = e.issue => log[j].at < s.at
  <2>. SUFFICES ASSUME NEW j \in DOMAIN log, log[j].issue = e.issue PROVE log[j].at < e.at
      OBVIOUS
  <2>1. PICK f \in Event : /\ IsTransition(f) /\ f.id = log[j].id
                           /\ f.issue = log[j].issue /\ f.at = log[j].at
      BY DEF Traced
  <2>2. ~(e.id < f.id) /\ e.id # f.id
    <3>1. ~(e.id < log[j].id)
        BY DEF Traced
    <3>2. e.id # log[j].id
        BY DEF IsRecorded, SameKey
    <3>3. QED
        BY <2>1, <3>1, <3>2
  <2>3. e.id \in Nat /\ f.id \in Nat
    <3>1. e \in EventRecord /\ f \in EventRecord
        BY EventAssumption
    <3>2. QED
        BY <3>1 DEF EventRecord
  <2>4. f.id < e.id
      BY <2>2, <2>3
  <2>5. QED
      BY <2>1, <2>4 DEF TransitionsInTime
<1>5. Ordered(new)
  <2>. SUFFICES ASSUME NEW j \in DOMAIN new, NEW k \in DOMAIN new,
                       new[j].issue = new[k].issue, j < k
                PROVE  new[j].at < new[k].at
      BY DEF Ordered
  <2>1. j \in DOMAIN log
      BY <1>1
  <2>2. CASE k = n
      BY <1>1, <1>4, <2>1, <2>2
  <2>3. CASE k \in DOMAIN log
      BY <1>1, <2>1, <2>3 DEF Ordered
  <2>4. QED
      BY <1>1, <2>2, <2>3
<1>6. ASSUME NEW k \in DOMAIN new
      PROVE  /\ \E f \in Event : /\ IsTransition(f) /\ f.id = new[k].id
                                 /\ f.issue = new[k].issue /\ f.at = new[k].at
             /\ \A f \in Event :
                   IsTransition(f) /\ f.issue = new[k].issue /\ f.id < new[k].id
                       => IsRecorded(new, f)
  <2>1. CASE k = n
      BY <1>1, <1>3, <2>1
  <2>2. CASE k \in DOMAIN log
      BY <1>1, <1>3, <2>2 DEF Traced
  <2>3. QED
      BY <1>1, <2>1, <2>2
<1>7. Traced(new)
    BY <1>6 DEF Traced
<1>8. QED
    BY <1>5, <1>7 DEF new

LEMMA DeliveredStep ==
    ASSUME Feed = "in_order", TransitionsInTime, TypeInv, OrderInv, DeliveredInv, NothingFails,
           [Next]_vars
    PROVE  DeliveredInv'
<1>0. /\ raw \in Seq(Event) /\ events \in Seq(SilverEvent)
      /\ DOMAIN raw = 1 .. Len(raw) /\ Len(raw) \in Nat
    BY DEF TypeInv, TypeOK
<1>1. ASSUME NEW e \in Event, Ingest(e) PROVE DeliveredInv'
  <2>1. /\ raw' = Append(raw, e) /\ events' = events
        /\ \A f \in Event : f.issue = e.issue /\ f.type = e.type /\ f.id < e.id => InBronze(f)
      BY <1>1 DEF Ingest, silver
  <2>2. \A r \in DOMAIN raw' : \A f \in Event :
            f.issue = raw'[r].issue /\ f.type = raw'[r].type /\ f.id < raw'[r].id
                => \E q \in 1 .. r - 1 : raw'[q] = f
    <3>. SUFFICES ASSUME NEW r \in DOMAIN raw', NEW f \in Event, f.issue = raw'[r].issue,
                         f.type = raw'[r].type, f.id < raw'[r].id
                  PROVE  \E q \in 1 .. r - 1 : raw'[q] = f
        OBVIOUS
    <3>1. /\ DOMAIN raw' = 1 .. Len(raw) + 1 /\ raw'[Len(raw) + 1] = e
          /\ \A q \in DOMAIN raw : raw'[q] = raw[q]
        BY <1>0, <2>1
    <3>2. CASE r = Len(raw) + 1
      <4>1. PICK q \in DOMAIN raw : raw[q] = f
          BY <2>1, <3>1, <3>2 DEF InBronze
      <4>2. q \in 1 .. r - 1 /\ raw'[q] = f
          BY <1>0, <3>1, <3>2, <4>1
      <4>3. QED
          BY <4>2
    <3>3. CASE r \in DOMAIN raw
      <4>1. PICK q \in 1 .. r - 1 : raw[q] = f
          BY <3>1, <3>3 DEF DeliveredInv
      <4>2. q \in DOMAIN raw
          BY <1>0, <3>3
      <4>3. QED
          BY <3>1, <4>1, <4>2
    <3>4. QED
        BY <1>0, <3>1, <3>2, <3>3
  <2>3. QED
      BY <2>1, <2>2 DEF DeliveredInv
<1>2. CASE UNCHANGED <<raw, events>>
    BY <1>2 DEF DeliveredInv
<1>3. ASSUME NEW t \in Run, InsertEvent(t), events' # events PROVE DeliveredInv'
  <2>. DEFINE e == Current(t)
              s == SilverRow(e, last[t])
  <2>1. /\ pc[t] = "insert" /\ events' = InsertIssueEvent(events, e, s) /\ raw' = raw
        /\ s \in SilverEvent /\ s.issue = e.issue /\ IsTransition(e)
      BY <1>3, InsertEventStep DEF InsertEvent, bronze
  <2>2. ~IsRecorded(events, e) /\ events' = Append(events, s) /\ s.id = e.id /\ s.at = e.at
      BY <1>3, <2>1 DEF InsertIssueEvent, SilverRow
  <2>3. row[t] \in DOMAIN raw /\ e = raw[row[t]] /\ e \in Event
      BY <1>0, <2>1, CurrentTyped DEF Current
  <2>4. ASSUME NEW f \in Event, IsTransition(f), f.issue = e.issue, f.id < e.id
        PROVE  IsRecorded(events, f)
    <3>1. f.type = e.type
        BY <2>1, <2>4 DEF IsTransition
    <3>2. PICK q \in 1 .. row[t] - 1 : raw[q] = f
        BY <2>3, <2>4, <3>1 DEF DeliveredInv
    <3>3. Logged(q)
        BY <3>2 DEF OrderInv, TakesInOrder
    <3>4. QED
        BY <2>4, <3>2, <3>3 DEF Logged
  <2>. HIDE DEF e, s
  <2>5. PICK d, new : d = e /\ new = s
      OBVIOUS
  <2>6. events' = Append(events, new)
      BY <2>2, <2>5
  <2>7. Traced(events') /\ Ordered(events')
      BY <1>0, <2>1, <2>2, <2>3, <2>4, <2>5, <2>6, DeliveredAppend DEF DeliveredInv
  <2>8. QED
      BY <2>1, <2>7 DEF DeliveredInv
<1>4. ASSUME NEW t \in Run, RunStep(t) \/ Crash(t) PROVE raw' = raw
    BY <1>4 DEF RunStep, Crash, StartRun, ListBatch, TransformEvent, FinishBatch, LookupIssue,
                CreateIssue, ReadLastEvent, InsertEvent, UpdateCache, ReadMetadata,
                WriteMetadata, InsertComment, UpdateAssignees, bronze
<1>5. events' = events \/ \E t \in Run : InsertEvent(t)
    BY LogStep
<1>6. QED
    BY <1>1, <1>2, <1>3, <1>4, <1>5 DEF Next, vars, bronze, silver, DiscoverProject

\* With an extractor that delivers the events of an issue in order, and while
\* nothing fails, cycle_count is exact without further premises: the overlap of
\* runs and their crashes do not bring the log out of order.
THEOREM CyclesAreReworkRoundsInOrder ==
    ASSUME Feed = "in_order", TransitionsInTime
    PROVE  Spec /\ []NothingFails => []CycleCountIsReworkRounds
<1>1. TypeInv /\ OrderInv /\ NothingFails /\ DeliveredInv /\ [Next]_vars => DeliveredInv'
    BY DeliveredStep
<1>2. Init => DeliveredInv
    BY DEF Init, DeliveredInv, Ordered, Traced
<1>3. DeliveredInv => \A i \in Issue : InTimeOrder(i)
    BY DEF DeliveredInv, Ordered, InTimeOrder
<1>4. QED
    BY <1>1, <1>2, <1>3, OrderInvariant, CyclesAreReworkRounds, PTL DEF Spec
=============================================================================
