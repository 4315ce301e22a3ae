--------------------------- MODULE SequentialProofs ---------------------------
(***************************************************************************)
(* What the transformer keeps of an issue - its state, its metadata labels *)
(* and its assignees, with the order of their periods - when one run is    *)
(* active at a time: each run writes these from what it read some          *)
(* statements before, and nothing but the schedule keeps another run from  *)
(* writing in between.                                                     *)
(***************************************************************************)
EXTENDS HistoryProofs, LogProofs

\* No run begins before the previous one has ended.
OneRun == \A t, u \in Run : t = u

IssueOf(t) == issues[Current(t).issue]

\* The row that a run knows is the row that is there.
Reads(t) ==
    /\ pc[t] = "create" => ~IssueOf(t).exists
    /\ pc[t] \in {"last", "insert", "cache", "readmeta", "writemeta", "assign"}
           => IssueOf(t).exists
    /\ pc[t] = "writemeta" => snap[t].metadata = IssueOf(t).metadata
    /\ pc[t] = "assign" => snap[t].assignees = IssueOf(t).assignees

\* Why nothing is lost: ensureIssue upserts its stub only where there is no row
\* yet, and a document is written over the one it was computed from.
RowsInv ==
    /\ \A i \in Issue : issues[i].exists \/ issues[i] = NoIssue
    /\ \A t \in Run : Reads(t)

LEMMA RowsInit == Init => RowsInv
BY DEF Init, RowsInv, Reads

\* The counters of failures only grow.
LEMMA CountersGrow ==
    ASSUME TypeInv, [Next]_vars
    PROVE  /\ errors' = 0 => errors = 0
           /\ crashes' = 0 => crashes = 0
<1>. DEFINE Grown == (errors' = errors \/ errors' = errors + 1)
                     /\ (crashes' = crashes \/ crashes' = crashes + 1)
<1>0. errors \in Nat /\ crashes \in Nat
    BY DEF TypeInv, TypeOK
<1>1. DbOk \/ DbError => Grown
    BY DEF DbOk, DbError
<1>2. ASSUME NEW t \in Run, RunStep(t) \/ Crash(t) PROVE Grown
  <2>1. CASE StartRun(t) \/ Crash(t)
      BY <2>1 DEF StartRun, Crash
  <2>2. CASE TransformEvent(t)
      BY <1>1, <2>2 DEF TransformEvent, LogUnknownLabel
  <2>3. CASE ~StartRun(t) /\ ~Crash(t) /\ ~TransformEvent(t)
    <3>. HIDE DEF Grown
    <3>1. DbOk \/ DbError
        BY <1>2, <2>3 DEF RunStep, ListBatch, FinishBatch, LookupIssue, CreateIssue,
           ReadLastEvent, InsertEvent, UpdateCache, ReadMetadata, WriteMetadata,
           InsertComment, UpdateAssignees
    <3>2. QED
        BY <1>1, <3>1
  <2>4. QED
      BY <2>1, <2>2, <2>3
<1>3. UNCHANGED <<errors, crashes>> => Grown
    OBVIOUS
<1>. HIDE DEF Grown
<1>4. Grown
    BY <1>2, <1>3 DEF Next, vars, Ingest, DiscoverProject
<1>5. QED
    BY <1>0, <1>4 DEF Grown

\* What the steps of a run do to the row of its issue when no statement fails.
Creates(t) ==
    /\ pc[t] = "create" /\ IssueOf(t) = NoIssue
    /\ issues' = [issues EXCEPT ![Current(t).issue] = Stub]

Caches(t) ==
    /\ pc[t] = "cache"
    /\ issues' = [issues EXCEPT ![Current(t).issue].state = DetermineCanonicalState(Current(t))]

Labels(t) ==
    /\ pc[t] = "writemeta"
    /\ issues' = [issues EXCEPT ![Current(t).issue].metadata = @ \cup {Current(t).label}]

Assigns(t) ==
    /\ pc[t] = "assign"
    /\ issues' = [issues EXCEPT ![Current(t).issue].assignees =
                      ApplyAssigneeChanges(@, Captured(Current(t).assigned),
                          Captured(Current(t).unassigned), Current(t).at)]

LEMMA LabelsStep ==
    ASSUME RowsInv, NEW t \in Run, WriteMetadata(t), ~DbError
    PROVE  Labels(t)
<1>. DEFINE e == Current(t)
<1>1. /\ pc[t] = "writemeta"
      /\ issues' = [issues EXCEPT ![e.issue].metadata = Accumulate(snap[t].metadata, e.label)]
    BY DEF WriteMetadata
<1>2. snap[t].metadata = issues[e.issue].metadata
    BY <1>1 DEF RowsInv, Reads, IssueOf
<1>3. QED
    BY <1>1, <1>2 DEF Accumulate, Labels

LEMMA IssueStep ==
    ASSUME TypeInv, RowsInv, NEW t \in Run, RunStep(t) \/ Crash(t), ~DbError
    PROVE  issues' = issues \/ Creates(t) \/ Caches(t) \/ Labels(t) \/ Assigns(t)
<1>. DEFINE e == Current(t)
<1>0. issues \in [Issue -> IssueRow]
    BY DEF TypeInv, TypeOK
<1>e. pc[t] \notin {"idle", "list", "next"} => e.issue \in Issue
    BY CurrentTyped
<1>r. Reads(t)
    BY DEF RowsInv
<1>. HIDE DEF e
<1>1. CASE StartRun(t) \/ ListBatch(t) \/ TransformEvent(t) \/ FinishBatch(t) \/ LookupIssue(t)
    BY <1>1 DEF StartRun, ListBatch, TransformEvent, FinishBatch, LookupIssue, silver
<1>2. CASE CreateIssue(t)
  <2>1. pc[t] = "create" /\ issues' \in {issues, [issues EXCEPT ![e.issue] = Stub]}
      BY <1>2 DEF CreateIssue, e
  <2>2. IssueOf(t) = NoIssue
      BY <1>e, <1>r, <2>1 DEF RowsInv, Reads, IssueOf, e
  <2>3. QED
      BY <2>1, <2>2 DEF Creates, e
<1>3. CASE ReadLastEvent(t) \/ InsertEvent(t) \/ ReadMetadata(t) \/ InsertComment(t) \/ Crash(t)
    BY <1>3 DEF ReadLastEvent, InsertEvent, ReadMetadata, InsertComment, Crash, silver
<1>4. CASE UpdateCache(t)
    BY <1>4 DEF UpdateCache, Caches
<1>5. CASE WriteMetadata(t)
    BY <1>5, LabelsStep
<1>6. CASE UpdateAssignees(t)
  <2>. DEFINE changed == ApplyAssigneeChanges(issues[e.issue].assignees,
                             Captured(e.assigned), Captured(e.unassigned), e.at)
  <2>1. pc[t] = "assign"
      BY <1>6 DEF UpdateAssignees
  <2>2. snap[t].assignees = issues[e.issue].assignees
      BY <1>r, <2>1 DEF Reads, IssueOf, e
  <2>3. issues' \in {issues, [issues EXCEPT ![e.issue].assignees = changed]}
      BY <1>6, <2>2 DEF UpdateAssignees, e
  <2>4. QED
      BY <2>1, <2>3 DEF Assigns, e
<1>7. QED
    BY <1>1, <1>2, <1>3, <1>4, <1>5, <1>6 DEF RunStep

\* The run knows the row it is at, whatever statement it has come to.
LEMMA ReadsStep ==
    ASSUME TypeInv, RowsInv, NEW t \in Run, RunStep(t) \/ Crash(t), ~DbError
    PROVE  Reads(t)'
<1>. DEFINE e == Current(t)
            i == e.issue
<1>0. /\ pc \in [Run -> Control] /\ snap \in [Run -> IssueRow] /\ issues \in [Issue -> IssueRow]
      /\ row \in [Run -> DOMAIN raw \cup {0}] /\ Reads(t)
    BY DEF TypeInv, TypeOK, RowsInv
<1>e. pc[t] \notin {"idle", "list", "next"} =>
          /\ i \in Issue /\ HasEffect(e)
          /\ AfterEnsure(e) \in {"readmeta", "last", "comment", "assign"}
    BY CurrentTyped, AfterEnsureTyped
<1>end. pc'[t] \in {"idle", "list", "next", "lookup", "comment"} => Reads(t)'
    BY DEF Reads
<1>c. raw' = raw /\ row' = row => e' = e /\ (IssueOf(t))' = issues'[i]
    BY DEF Current, IssueOf
<1>. HIDE DEF e, i
<1>1. CASE StartRun(t) \/ ListBatch(t) \/ FinishBatch(t) \/ Crash(t)
  <2>1. pc'[t] \in {"idle", "list", "next"}
      BY <1>0, <1>1 DEF StartRun, ListBatch, FinishBatch, Crash, EndRun, Goto
  <2>2. QED
      BY <1>end, <2>1
<1>2. CASE TransformEvent(t)
  <2>1. pc'[t] \in {"next", "lookup"}
      BY <1>0, <1>2 DEF TransformEvent, Goto
  <2>2. QED
      BY <1>end, <2>1
<1>3. CASE LookupIssue(t)
  <2>1. pc[t] = "lookup" /\ raw' = raw /\ row' = row /\ issues' = issues
      BY <1>3 DEF LookupIssue, bronze, silver
  <2>2. (IssueOf(t))' = issues[i]
      BY <1>c, <2>1
  <2>3. CASE issues[i].exists /\ snap' = [snap EXCEPT ![t] = issues[i]] /\ Goto(t, AfterEnsure(e))
      BY <1>0, <1>e, <2>1, <2>2, <2>3 DEF Reads, Goto
  <2>4. CASE ~issues[i].exists /\ Goto(t, "create")
      BY <1>0, <2>2, <2>4 DEF Reads, Goto
  <2>5. QED
      BY <1>3, <2>3, <2>4 DEF LookupIssue, e, i
<1>4. CASE CreateIssue(t)
  <2>1. pc[t] = "create" /\ raw' = raw
      BY <1>4 DEF CreateIssue, bronze
  <2>2. CASE Fail(t)
    <3>1. pc'[t] = "next"
        BY <1>0, <2>2 DEF Fail, EndEvent
    <3>2. QED
        BY <1>end, <3>1
  <2>3. CASE /\ issues' = [issues EXCEPT ![i] = Stub] /\ snap' = [snap EXCEPT ![t] = Stub]
             /\ Goto(t, AfterEnsure(e)) /\ row' = row
    <3>1. (IssueOf(t))' = Stub /\ snap'[t] = Stub /\ pc'[t] = AfterEnsure(e)
        BY <1>0, <1>e, <1>c, <2>1, <2>3 DEF Goto
    <3>2. Stub.exists
        BY DEF Stub, NoIssue
    <3>3. QED
        BY <1>e, <2>1, <3>1, <3>2 DEF Reads
  <2>4. QED
      BY <1>4, <2>2, <2>3 DEF CreateIssue, e, i
<1>5. CASE ReadLastEvent(t)
  <2>1. /\ pc[t] = "last" /\ pc'[t] = "insert" /\ raw' = raw /\ row' = row /\ issues' = issues
      BY <1>0, <1>5 DEF ReadLastEvent, Goto, bronze, silver
  <2>2. issues[i].exists
      BY <1>0, <2>1 DEF Reads, IssueOf, e, i
  <2>3. QED
      BY <1>c, <2>1, <2>2 DEF Reads
<1>6. CASE InsertEvent(t)
  <2>1. pc[t] = "insert" /\ raw' = raw /\ issues' = issues
      BY <1>6 DEF InsertEvent, bronze
  <2>2. CASE EndEvent(t)
    <3>1. pc'[t] = "next"
        BY <1>0, <2>2 DEF EndEvent
    <3>2. QED
        BY <1>end, <3>1
  <2>3. CASE Goto(t, "cache") /\ row' = row
    <3>1. issues[i].exists
        BY <1>0, <2>1 DEF Reads, IssueOf, e, i
    <3>2. pc'[t] = "cache"
        BY <1>0, <2>3 DEF Goto
    <3>3. QED
        BY <1>c, <2>1, <2>3, <3>1, <3>2 DEF Reads
  <2>4. QED
      BY <1>6, <2>2, <2>3 DEF InsertEvent, Succeed, Fail
<1>7. CASE ReadMetadata(t)
  <2>1. /\ pc[t] = "readmeta" /\ pc'[t] = "writemeta" /\ raw' = raw /\ row' = row
        /\ issues' = issues /\ snap'[t] = issues[i]
      BY <1>0, <1>7 DEF ReadMetadata, Goto, bronze, silver, e, i
  <2>2. issues[i].exists
      BY <1>0, <2>1 DEF Reads, IssueOf, e, i
  <2>3. QED
      BY <1>c, <2>1, <2>2 DEF Reads
<1>8. CASE UpdateCache(t) \/ WriteMetadata(t) \/ InsertComment(t) \/ UpdateAssignees(t)
  <2>1. EndEvent(t)
      BY <1>8 DEF UpdateCache, WriteMetadata, InsertComment, UpdateAssignees, Succeed, Fail
  <2>2. pc'[t] = "next"
      BY <1>0, <2>1 DEF EndEvent
  <2>3. QED
      BY <1>end, <2>2
<1>9. QED
    BY <1>1, <1>2, <1>3, <1>4, <1>5, <1>6, <1>7, <1>8 DEF RunStep

LEMMA RowsStep ==
    ASSUME OneRun, TypeInv, RowsInv, ~DbError, [Next]_vars
    PROVE  RowsInv'
<1>0. /\ issues \in [Issue -> IssueRow] /\ raw \in Seq(Event)
      /\ \A i \in Issue : issues[i].exists \/ issues[i] = NoIssue
    BY DEF TypeInv, TypeOK, RowsInv
<1>1. ASSUME NEW t \in Run, RunStep(t) \/ Crash(t) PROVE RowsInv'
  <2>1. \A u \in Run : Reads(u)'
    <3>1. Reads(t)'
        BY <1>1, ReadsStep
    <3>2. QED
        BY <3>1 DEF OneRun
  <2>2. \A i \in Issue : issues'[i].exists \/ issues'[i] = NoIssue
    <3>. DEFINE e == Current(t)
    <3>1. pc[t] \notin {"idle", "list", "next"} => e.issue \in Issue
        BY CurrentTyped
    <3>2. Reads(t)
        BY DEF RowsInv
    <3>3. pc[t] \in {"cache", "writemeta", "assign"} => issues[e.issue].exists
        BY <3>2 DEF Reads, IssueOf
    <3>4. Stub.exists
        BY DEF Stub, NoIssue
    <3>5. PICK x, y, z :
              \/ issues' = issues
              \/ issues' = [issues EXCEPT ![e.issue] = Stub]
              \/ /\ pc[t] \in {"cache", "writemeta", "assign"}
                 /\ issues' \in {[issues EXCEPT ![e.issue].state = x],
                                 [issues EXCEPT ![e.issue].metadata = y],
                                 [issues EXCEPT ![e.issue].assignees = z]}
        BY <1>1, IssueStep DEF Creates, Caches, Labels, Assigns
    <3>. HIDE DEF e
    <3>6. CASE issues' \in {issues, [issues EXCEPT ![e.issue] = Stub]}
        BY <1>0, <3>4, <3>6
    <3>7. CASE /\ pc[t] \in {"cache", "writemeta", "assign"}
               /\ issues' \in {[issues EXCEPT ![e.issue].state = x],
                               [issues EXCEPT ![e.issue].metadata = y],
                               [issues EXCEPT ![e.issue].assignees = z]}
      <4>1. \A i \in Issue : i # e.issue => issues'[i] = issues[i]
          BY <1>0, <3>7
      <4>2. issues'[e.issue].exists
          BY <1>0, <3>1, <3>3, <3>7 DEF IssueRow
      <4>3. QED
          BY <1>0, <4>1, <4>2
    <3>8. QED
        BY <3>5, <3>6, <3>7
  <2>3. QED
      BY <2>1, <2>2 DEF RowsInv
<1>2. CASE UNCHANGED <<issues, pc, row, snap>>
  <2>1. ASSUME NEW t \in Run PROVE Reads(t)'
    <3>1. Reads(t)
        BY DEF RowsInv
    <3>2. pc[t] \notin {"idle", "list", "next"} => Current(t)' = Current(t)
        BY <1>2, CurrentTyped, RawStays DEF Current
    <3>3. QED
        BY <1>2, <3>1, <3>2 DEF Reads, IssueOf
  <2>2. QED
      BY <1>0, <1>2, <2>1 DEF RowsInv
<1>3. QED
    BY <1>1, <1>2 DEF Next, vars, silver, locals, Ingest, DiscoverProject

LEMMA RowsInvariant ==
    ASSUME OneRun
    PROVE  Spec => [](TypeInv /\ (errors = 0 => RowsInv))
<1>1. TypeInv /\ (errors = 0 => RowsInv) /\ [Next]_vars => (errors = 0 => RowsInv)'
  <2>. SUFFICES ASSUME TypeInv, errors = 0 => RowsInv, [Next]_vars, errors' = 0 PROVE RowsInv'
      OBVIOUS
  <2>1. errors = 0
      BY CountersGrow
  <2>2. ~DbError
      BY <2>1 DEF DbError
  <2>3. QED
      BY <2>1, <2>2, RowsStep
<1>2. QED
    BY <1>1, RowsInit, InitType, NextType, PTL DEF Spec

-----------------------------------------------------------------------------
(* What an issue row has accumulated.                                      *)

\* handleAssigned leaves the entries that are there and may add an open one;
\* there is an open one afterwards.
LEMMA AssignedKeeps ==
    ASSUME NEW p \in Seq(Period), NEW at \in Nat
    PROVE  LET q == AssignedPeriods(p, at)
           IN  /\ q \in Seq(Period) /\ Len(p) <= Len(q)
               /\ \A k \in DOMAIN p : k \in DOMAIN q /\ q[k] = p[k]
               /\ \A k \in DOMAIN q :
                     \/ k \in DOMAIN p
                     \/ q[k].assigned = at /\ q[k].unassigned = StillAssigned
               /\ OpenPeriods(q) # {}
<1>. DEFINE new == [assigned |-> at, unassigned |-> StillAssigned]
            a == Append(p, new)
<1>1. CASE OpenPeriods(p) # {}
    BY <1>1 DEF AssignedPeriods
<1>2. CASE OpenPeriods(p) = {}
  <2>1. AssignedPeriods(p, at) = a
      BY <1>2 DEF AssignedPeriods
  <2>2. /\ DOMAIN a = 1 .. Len(p) + 1 /\ Len(p) \in Nat /\ Len(a) = Len(p) + 1
        /\ a[Len(p) + 1] = new /\ \A k \in 1 .. Len(p) : a[k] = p[k]
        /\ DOMAIN p = 1 .. Len(p)
      OBVIOUS
  <2>3. a \in Seq(Period)
    <3>1. new \in Period
        BY DEF Period
    <3>2. QED
        BY <3>1
  <2>. HIDE DEF a
  <2>4. Len(p) + 1 \in OpenPeriods(a)
      BY <2>2 DEF OpenPeriods
  <2>5. QED
      BY <2>1, <2>2, <2>3, <2>4
<1>3. QED
    BY <1>1, <1>2

\* handleUnassigned closes an open entry at the time of the note, and that is all.
LEMMA UnassignedKeeps ==
    ASSUME NEW p \in Seq(Period), NEW at \in Nat, OneOpen(p)
    PROVE  LET q == UnassignedPeriods(p, at)
           IN  /\ DOMAIN q = DOMAIN p /\ Len(q) = Len(p)
               /\ \A k \in DOMAIN p :
                     /\ q[k].assigned = p[k].assigned
                     /\ \/ q[k] = p[k]
                        \/ p[k].unassigned = StillAssigned /\ q[k].unassigned = at
<1>1. CASE OpenPeriods(p) = {}
    BY <1>1 DEF UnassignedPeriods
<1>2. CASE OpenPeriods(p) # {}
  <2>. DEFINE first == CHOOSE i \in OpenPeriods(p) : \A j \in OpenPeriods(p) : i <= j
  <2>1. UnassignedPeriods(p, at) = [p EXCEPT ![first].unassigned = at]
      BY <1>2 DEF UnassignedPeriods
  <2>. DEFINE q == [p EXCEPT ![first].unassigned = at]
  <2>2. first \in OpenPeriods(p)
    <3>1. PICK k \in OpenPeriods(p) : \A j \in OpenPeriods(p) : j = k
        BY <1>2 DEF OneOpen
    <3>2. k \in DOMAIN p /\ k <= k
        BY <3>1 DEF OpenPeriods
    <3>3. QED
        BY <3>1, <3>2
  <2>3. first \in DOMAIN p /\ p[first].unassigned = StillAssigned
      BY <2>2 DEF OpenPeriods
  <2>. HIDE DEF first
  <2>4. DOMAIN q = DOMAIN p /\ \A k \in DOMAIN p : k # first => q[k] = p[k]
      BY <2>3
  <2>5. q[first] = [p[first] EXCEPT !.unassigned = at]
      BY <2>3
  <2>6. q[first].assigned = p[first].assigned /\ q[first].unassigned = at
    <3>1. p[first] \in Period
        BY <2>3
    <3>2. QED
        BY <2>5, <3>1 DEF Period
  <2>7. Len(q) = Len(p)
      BY <2>4
  <2>. HIDE DEF q
  <2>8. QED
      BY <2>1, <2>3, <2>4, <2>6, <2>7 DEF q
<1>3. QED
    BY <1>1, <1>2

\* The entries q are the entries p after a note of the time `at`.
Continues(p, q, at) ==
    /\ Len(p) <= Len(q)
    /\ \A k \in DOMAIN p :
          /\ k \in DOMAIN q /\ q[k].assigned = p[k].assigned
          /\ \/ q[k].unassigned = p[k].unassigned
             \/ p[k].unassigned = StillAssigned /\ q[k].unassigned = at
    /\ \A k \in DOMAIN q : k \in DOMAIN p \/ q[k].assigned = at

\* What a note does to the entries of one name.
LEMMA ApplyKeeps ==
    ASSUME NEW h \in AssigneeHistory, WellFormedHistory(h), NEW n \in Name,
           NEW as \in SUBSET Name, NEW un \in SUBSET Name, NEW at \in Nat
    PROVE  Continues(h.history[n], ApplyAssigneeChanges(h, as, un, at).history[n], at)
<1>. DEFINE p == h.history[n]
            q == ApplyAssigneeChanges(h, as, un, at).history[n]
            after == IF n \in as THEN AssignedPeriods(p, at) ELSE p
<1>1. p \in Seq(Period) /\ OneOpen(p)
    BY DEF AssigneeHistory, WellFormedHistory, OneOpen
<1>2. /\ after \in Seq(Period) /\ Len(p) <= Len(after) /\ OneOpen(after)
      /\ \A k \in DOMAIN p : k \in DOMAIN after /\ after[k] = p[k]
      /\ \A k \in DOMAIN after :
            k \in DOMAIN p \/ (after[k].assigned = at /\ after[k].unassigned = StillAssigned)
  <2>. HIDE DEF p
  <2>1. CASE n \in as
    <3>. DEFINE a == AssignedPeriods(p, at)
    <3>1. /\ a \in Seq(Period) /\ Len(p) <= Len(a)
          /\ \A k \in DOMAIN p : k \in DOMAIN a /\ a[k] = p[k]
          /\ \A k \in DOMAIN a :
                k \in DOMAIN p \/ (a[k].assigned = at /\ a[k].unassigned = StillAssigned)
        BY <1>1, AssignedKeeps
    <3>2. OneOpen(a)
        BY <1>1, AssignedOpensOne
    <3>3. after = a
        BY <2>1
    <3>. HIDE DEF a, after
    <3>4. QED
        BY <3>1, <3>2, <3>3
  <2>2. CASE n \notin as
      BY <1>1, <2>2
  <2>3. QED
      BY <2>1, <2>2
<1>3. q = IF n \in un THEN UnassignedPeriods(after, at) ELSE after
    BY DEF ApplyAssigneeChanges
<1>. HIDE DEF p, q, after
<1>4. /\ DOMAIN q = DOMAIN after /\ Len(q) = Len(after)
      /\ \A k \in DOMAIN after :
            /\ q[k].assigned = after[k].assigned
            /\ \/ q[k] = after[k]
               \/ after[k].unassigned = StillAssigned /\ q[k].unassigned = at
  <2>1. CASE n \in un
      BY <1>2, <1>3, <2>1, UnassignedKeeps
  <2>2. CASE n \notin un
      BY <1>3, <2>2
  <2>3. QED
      BY <2>1, <2>2
<1>5. Continues(p, q, at)
    BY <1>1, <1>2, <1>4 DEF Continues
<1>6. QED
    BY <1>5 DEF p, q

\* A row of issues is never taken away, nor anything that is in it.
Survives(old, new) ==
    old.exists =>
        /\ new.exists
        /\ old.metadata \subseteq new.metadata
        /\ old.state # None => new.state # None
        /\ \A n \in Name : Len(old.assignees.history[n]) <= Len(new.assignees.history[n])

LEMMA RowSurvives ==
    ASSUME TypeInv, DocumentsInv, RowsInv, ~DbError, NEW t \in Run, RunStep(t) \/ Crash(t),
           NEW i \in Issue
    PROVE  Survives(issues[i], issues'[i])
<1>. DEFINE e == Current(t)
<1>0. /\ issues \in [Issue -> IssueRow] /\ issues[i] \in IssueRow
      /\ issues[i].assignees \in AssigneeHistory /\ WellFormedHistory(issues[i].assignees)
      /\ \A n \in Name : Len(issues[i].assignees.history[n]) \in Nat
    BY DEF TypeInv, TypeOK, IssueRow, AssigneeHistory, DocumentsInv, HistoriesWellFormed
<1>e. pc[t] \notin {"idle", "list", "next"} =>
          /\ e \in EventRecord /\ e.issue \in Issue /\ e.at \in Nat
          /\ Captured(e.assigned) \in SUBSET Name /\ Captured(e.unassigned) \in SUBSET Name
    BY CurrentTyped, CapturedTyped DEF EventRecord
<1>s. pc[t] = "cache" => DetermineCanonicalState(e) # None
    BY DEF TypeInv, Located, IsTransition
<1>. HIDE DEF e
<1>1. CASE issues'[i] = issues[i]
    BY <1>0, <1>1 DEF Survives
<1>2. CASE Creates(t)
  <2>1. issues[e.issue] = NoIssue /\ issues' = [issues EXCEPT ![e.issue] = Stub]
      BY <1>2 DEF Creates, IssueOf, e
  <2>2. ~NoIssue.exists
      BY DEF NoIssue
  <2>3. QED
      BY <1>0, <1>1, <2>1, <2>2 DEF Survives
<1>3. CASE Caches(t)
  <2>1. /\ pc[t] = "cache"
        /\ issues' = [issues EXCEPT ![e.issue].state = DetermineCanonicalState(e)]
      BY <1>3 DEF Caches, e
  <2>2. QED
      BY <1>0, <1>s, <2>1 DEF Survives, IssueRow
<1>4. CASE Labels(t)
  <2>1. issues' = [issues EXCEPT ![e.issue].metadata = @ \cup {e.label}]
      BY <1>4 DEF Labels, e
  <2>2. QED
      BY <1>0, <2>1 DEF Survives, IssueRow
<1>5. CASE Assigns(t)
  <2>. DEFINE h == issues[i].assignees
              g == ApplyAssigneeChanges(h, Captured(e.assigned), Captured(e.unassigned), e.at)
  <2>0. pc[t] = "assign"
      BY <1>5 DEF Assigns
  <2>1. \A n \in Name : Len(h.history[n]) <= Len(g.history[n])
      BY <1>0, <1>e, <2>0, ApplyKeeps DEF Continues
  <2>2. issues' = [issues EXCEPT ![e.issue].assignees =
                      ApplyAssigneeChanges(@, Captured(e.assigned), Captured(e.unassigned), e.at)]
      BY <1>5 DEF Assigns, e
  <2>3. i = e.issue => issues'[i] = [issues[i] EXCEPT !.assignees = g]
      BY <1>0, <2>2
  <2>4. i # e.issue => issues'[i] = issues[i]
      BY <1>0, <2>2
  <2>. HIDE DEF g
  <2>5. QED
      BY <1>0, <1>1, <2>1, <2>3, <2>4 DEF Survives, IssueRow
<1>6. QED
    BY <1>1, <1>2, <1>3, <1>4, <1>5, IssueStep

\* ensureIssue creates what is missing and nothing else (service.go:413-414, 463):
\* as long as no statement fails, and one run is active at a time, no metadata
\* label, state or period of an issue is taken away again, also when runs are
\* killed and their batches transformed again.
THEOREM RowsOfIssuesSurvive ==
    ASSUME OneRun
    PROVE  Spec /\ [](errors = 0) => IssueRowsSurvive
<1>1. TypeInv /\ DocumentsInv /\ (errors = 0 => RowsInv) /\ errors = 0 /\ (errors = 0)'
      /\ [Next]_vars
        => [\A i \in Issue :
              issues[i].exists =>
                /\ issues'[i].exists
                /\ issues[i].metadata \subseteq issues'[i].metadata
                /\ issues[i].state # None => issues'[i].state # None
                /\ \A n \in Name : Len(issues[i].assignees.history[n])
                                     <= Len(issues'[i].assignees.history[n])]_vars
  <2>. SUFFICES ASSUME TypeInv, DocumentsInv, RowsInv, errors = 0, errors' = 0, [Next]_vars,
                       NEW i \in Issue
                PROVE  Survives(issues[i], issues'[i])
      BY DEF Survives
  <2>1. CASE issues' = issues
    <3>1. \A n \in Name : Len(issues[i].assignees.history[n]) \in Nat
        BY DEF TypeInv, TypeOK, IssueRow, AssigneeHistory
    <3>2. QED
        BY <2>1, <3>1 DEF Survives
  <2>2. ~DbError
      BY DEF DbError
  <2>3. ASSUME NEW t \in Run, RunStep(t) \/ Crash(t) PROVE Survives(issues[i], issues'[i])
      BY <2>2, <2>3, RowSurvives
  <2>4. QED
      BY <2>1, <2>3 DEF Next, vars, silver, Ingest, DiscoverProject
<1>2. QED
    BY <1>1, RowsInvariant, DocumentsInvariant, PTL DEF Spec, IssueRowsSurvive
-----------------------------------------------------------------------------
(* The state cache.                                                        *)

\* The transitions of an issue whose state is known, and the state of the last.
Known(log, i) == {k \in DOMAIN log : log[k].issue = i /\ log[k].state # "UNKNOWN"}

HasLatest(log, i) ==
    Known(log, i) # {} => \E k \in Known(log, i) : \A j \in Known(log, i) : j <= k

LatestState(log, i) ==
    IF Known(log, i) = {} THEN None
      ELSE log[CHOOSE k \in Known(log, i) : \A j \in Known(log, i) : j <= k].state

\* The cache of an issue is the state of its last transition, but for the run
\* that has inserted one and is about to write its state.
CacheInv ==
    /\ \A i \in Issue : HasLatest(events, i)
    /\ \A t \in Run : pc[t] = "cache" =>
           LatestState(events, Current(t).issue) = DetermineCanonicalState(Current(t))
    /\ \A i \in Issue :
           (\A t \in Run : pc[t] = "cache" => Current(t).issue # i)
               => issues[i].state = LatestState(events, i)

LEMMA LatestAppend ==
    ASSUME NEW log \in Seq(SilverEvent), NEW s \in SilverEvent, NEW i, HasLatest(log, i)
    PROVE  /\ HasLatest(Append(log, s), i)
           /\ LatestState(Append(log, s), i) =
                  IF s.issue = i /\ s.state # "UNKNOWN" THEN s.state ELSE LatestState(log, i)
<1>. DEFINE n == Len(log) + 1
            a == Append(log, s)
            K == Known(log, i)
            A == Known(a, i)
<1>0. /\ DOMAIN log = 1 .. Len(log) /\ Len(log) \in Nat /\ DOMAIN a = 1 .. n
      /\ a[n] = s /\ \A k \in DOMAIN log : a[k] = log[k] /\ k \in Nat /\ k < n
      /\ n \notin DOMAIN log /\ DOMAIN a = DOMAIN log \cup {n} /\ n \in Nat
    OBVIOUS
<1>. HIDE DEF n, a
<1>1. CASE s.issue = i /\ s.state # "UNKNOWN"
  <2>1. A = K \cup {n}
      BY <1>0, <1>1 DEF Known
  <2>2. \A k \in K : k \in Nat /\ k < n
      BY <1>0 DEF Known
  <2>. HIDE DEF A, K
  <2>3. n \in A /\ \A j \in A : j <= n
      BY <1>0, <2>1, <2>2
  <2>4. ASSUME NEW k \in A, \A j \in A : j <= k PROVE k = n
    <3>1. n \in Nat /\ n <= k
        BY <1>0, <2>3, <2>4
    <3>2. k \in K \/ k = n
        BY <2>1
    <3>3. QED
        BY <2>2, <3>1, <3>2
  <2>5. (CHOOSE k \in A : \A j \in A : j <= k) = n
      BY <2>3, <2>4
  <2>6. HasLatest(a, i)
      BY <2>3 DEF HasLatest, A
  <2>7. LatestState(a, i) = a[n].state
      BY <2>3, <2>5 DEF LatestState, A
  <2>8. QED
      BY <1>0, <1>1, <2>6, <2>7 DEF a
<1>2. CASE ~(s.issue = i /\ s.state # "UNKNOWN")
  <2>1. A = K
      BY <1>0, <1>2 DEF Known
  <2>2. CASE K = {}
      BY <1>2, <2>1, <2>2 DEF HasLatest, LatestState, a
  <2>3. CASE K # {}
    <3>. DEFINE x == CHOOSE k \in K : \A j \in K : j <= k
    <3>1. \E k \in K : \A j \in K : j <= k
        BY <2>3 DEF HasLatest
    <3>2. x \in K
        BY <3>1
    <3>3. x \in DOMAIN log
        BY <3>2 DEF Known
    <3>4. a[x] = log[x]
        BY <1>0, <3>3
    <3>5. LatestState(log, i) = log[x].state
        BY <2>3 DEF LatestState
    <3>6. LatestState(a, i) = a[x].state
        BY <2>1, <2>3 DEF LatestState
    <3>7. HasLatest(a, i)
        BY <2>1, <3>1 DEF HasLatest
    <3>. HIDE DEF x
    <3>8. QED
        BY <1>2, <3>4, <3>5, <3>6, <3>7 DEF a
  <2>4. QED
      BY <2>2, <2>3
<1>3. QED
    BY <1>1, <1>2

LEMMA CacheInit == Init => CacheInv
BY DEF Init, CacheInv, HasLatest, LatestState, Known, NoIssue

\* Of the statements of a run, only the insert leads to the write of the cache.
LEMMA CacheComesNext ==
    ASSUME TypeInv, NEW t \in Run, RunStep(t), ~InsertEvent(t)
    PROVE  pc'[t] # "cache"
<1>0. pc \in [Run -> Control]
    BY DEF TypeInv, TypeOK
<1>1. pc[t] \in {"lookup", "create"} => AfterEnsure(Current(t)) # "cache"
    BY CurrentTyped, AfterEnsureTyped
<1>2. EndRun(t) \/ Succeed(t) \/ Fail(t) => pc'[t] # "cache"
    BY <1>0 DEF EndRun, Succeed, Fail, EndEvent
<1>3. \A label \in Control : Goto(t, label) => pc'[t] = label
    BY <1>0 DEF Goto
<1>4. CASE StartRun(t) \/ ListBatch(t) \/ FinishBatch(t)
    BY <1>0, <1>2, <1>4 DEF StartRun, ListBatch, FinishBatch, Goto
<1>5. CASE TransformEvent(t)
    BY <1>0, <1>5 DEF TransformEvent, Goto
<1>6. CASE LookupIssue(t) \/ CreateIssue(t)
    BY <1>0, <1>1, <1>2, <1>6 DEF LookupIssue, CreateIssue, Goto
<1>7. CASE ReadLastEvent(t) \/ ReadMetadata(t)
    BY <1>0, <1>2, <1>7 DEF ReadLastEvent, ReadMetadata, Goto
<1>8. CASE UpdateCache(t) \/ WriteMetadata(t) \/ InsertComment(t) \/ UpdateAssignees(t)
    BY <1>2, <1>8 DEF UpdateCache, WriteMetadata, InsertComment, UpdateAssignees
<1>9. QED
    BY <1>4, <1>5, <1>6, <1>7, <1>8 DEF RunStep

LEMMA CacheStep ==
    ASSUME OneRun, TypeInv, RowsInv, CacheInv, ~DbError, [Next]_vars,
           ~(\E t \in Run : Crash(t))
    PROVE  CacheInv'
<1>0. /\ issues \in [Issue -> IssueRow] /\ events \in Seq(SilverEvent)
      /\ pc \in [Run -> Control]
    BY DEF TypeInv, TypeOK
<1>1. ASSUME NEW t \in Run, InsertEvent(t) PROVE CacheInv'
  <2>. DEFINE e == Current(t)
              s == SilverRow(e, last[t])
  <2>1. /\ s \in SilverEvent /\ SameKey(s, e) /\ s.issue = e.issue
        /\ s.state = DetermineCanonicalState(e)
      BY <1>1, InsertEventStep
  <2>2. /\ events' = InsertIssueEvent(events, e, s)
        /\ pc[t] = "insert" /\ issues' = issues /\ raw' = raw
        /\ \/ (events' = events \/ s.state = "UNKNOWN") /\ EndEvent(t)
           \/ /\ events' # events /\ s.state # "UNKNOWN"
              /\ Goto(t, "cache") /\ row' = row
      BY <1>1 DEF InsertEvent, UpdatesCache, bronze, Succeed
  <2>. HIDE DEF s
  <2>3. events' = events \/ events' = Append(events, s)
      BY <2>2 DEF InsertIssueEvent
  <2>4. \A u \in Run : u = t
      BY DEF OneRun
  <2>5. \A i \in Issue : issues[i].state = LatestState(events, i) /\ HasLatest(events, i)
      BY <2>2, <2>4 DEF CacheInv
  <2>6. \A i \in Issue : HasLatest(events', i)
      BY <1>0, <2>1, <2>3, <2>5, LatestAppend
  <2>. HIDE DEF e
  <2>7. CASE (events' = events \/ s.state = "UNKNOWN") /\ EndEvent(t)
    <3>1. pc'[t] = "next"
        BY <1>0, <2>7 DEF EndEvent
    <3>2. \A i \in Issue : LatestState(events', i) = LatestState(events, i)
        BY <1>0, <2>1, <2>3, <2>5, <2>7, LatestAppend
    <3>3. QED
        BY <2>2, <2>4, <2>5, <2>6, <3>1, <3>2 DEF CacheInv
  <2>8. CASE /\ events' # events /\ s.state # "UNKNOWN"
             /\ Goto(t, "cache") /\ row' = row
    <3>1. pc'[t] = "cache" /\ Current(t)' = e
        BY <1>0, <2>2, <2>8 DEF Goto, Current, e
    <3>2. events' = Append(events, s) /\ e.issue \in Issue
        BY <2>2, <2>3, <2>8, CurrentTyped DEF e
    <3>3. \A i \in Issue : LatestState(events', i) =
              IF e.issue = i THEN s.state ELSE LatestState(events, i)
        BY <1>0, <2>1, <2>5, <2>8, <3>2, LatestAppend
    <3>4. QED
        BY <2>1, <2>2, <2>4, <2>5, <2>6, <3>1, <3>2, <3>3 DEF CacheInv
  <2>9. QED
      BY <2>2, <2>7, <2>8
<1>2. ASSUME NEW t \in Run, RunStep(t), ~InsertEvent(t) PROVE CacheInv'
  <2>. DEFINE e == Current(t)
  <2>1. pc'[t] # "cache" /\ \A u \in Run : u = t
      BY <1>2, CacheComesNext DEF OneRun
  <2>2. events' = events
    <3>1. events' = events \/ \E u \in Run : InsertEvent(u)
        BY LogStep
    <3>2. QED
        BY <1>2, <2>1, <3>1
  <2>3. CASE UpdateCache(t)
    <3>1. pc[t] = "cache" /\ issues' = [issues EXCEPT ![e.issue].state = DetermineCanonicalState(e)]
        BY <2>3 DEF UpdateCache
    <3>2. LatestState(events, e.issue) = DetermineCanonicalState(e) /\ e.issue \in Issue
        BY <3>1, CurrentTyped DEF CacheInv
    <3>3. \A i \in Issue : i # e.issue => issues[i].state = LatestState(events, i)
        BY <2>1 DEF CacheInv
    <3>. HIDE DEF e
    <3>4. \A i \in Issue : issues'[i].state = LatestState(events, i)
      <4>1. issues'[e.issue].state = DetermineCanonicalState(e)
          BY <1>0, <3>1, <3>2 DEF IssueRow
      <4>2. \A i \in Issue : i # e.issue => issues'[i] = issues[i]
          BY <1>0, <3>1
      <4>3. QED
          BY <3>2, <3>3, <4>1, <4>2
    <3>5. QED
        BY <2>1, <2>2, <3>4 DEF CacheInv
  <2>4. CASE ~UpdateCache(t)
    <3>1. pc[t] # "cache"
        BY <1>2, <2>4 DEF RunStep, StartRun, ListBatch, TransformEvent, FinishBatch, LookupIssue,
           CreateIssue, ReadLastEvent, ReadMetadata, WriteMetadata, InsertComment, UpdateAssignees
    <3>2. \A i \in Issue : issues[i].state = LatestState(events, i)
        BY <2>1, <3>1 DEF CacheInv
    <3>3. \A i \in Issue : issues'[i].state = issues[i].state
      <4>. HIDE DEF e
      <4>1. PICK y, z :
                \/ issues' = issues
                \/ issues[e.issue] = NoIssue /\ issues' = [issues EXCEPT ![e.issue] = Stub]
                \/ issues' \in {[issues EXCEPT ![e.issue].metadata = y],
                                [issues EXCEPT ![e.issue].assignees = z]}
          BY <1>2, <3>1, IssueStep DEF Creates, Caches, Labels, Assigns, IssueOf, e
      <4>2. Stub.state = NoIssue.state
          BY DEF Stub, NoIssue
      <4>3. QED
          BY <1>0, <4>1, <4>2 DEF IssueRow
    <3>4. QED
        BY <2>1, <2>2, <3>2, <3>3 DEF CacheInv
  <2>5. QED
      BY <2>3, <2>4
<1>3. CASE UNCHANGED <<issues, events, pc, row>>
  <2>1. \A t \in Run : pc[t] = "cache" => Current(t)' = Current(t)
      BY <1>3, CurrentTyped, RawStays DEF Current
  <2>2. QED
      BY <1>3, <2>1 DEF CacheInv
<1>4. QED
    BY <1>1, <1>2, <1>3 DEF Next, vars, silver, locals, Ingest, DiscoverProject

\* UpdateIssueCanonicalState (service.go:288-298) and the INSERT before it keep
\* the state cache of an issue at its latest known state, as long as one run is
\* active at a time; with two, the older state may be written last.  The premise
\* of the property that the transitions came in the order of time is not needed:
\* its "latest" is the one recorded last.
THEOREM CacheStaysLatest ==
    ASSUME OneRun
    PROVE  Spec => []CacheIsLatestState
<1>. DEFINE J == TypeInv /\ (errors = 0 => RowsInv)
            K == errors = 0 /\ crashes = 0 => CacheInv
<1>1. J /\ K /\ [Next]_vars => K'
  <2>. SUFFICES ASSUME J, K, [Next]_vars, errors' = 0, crashes' = 0 PROVE CacheInv'
      OBVIOUS
  <2>1. errors = 0 /\ crashes = 0
      BY CountersGrow
  <2>2. ~DbError /\ ~(\E t \in Run : Crash(t))
      BY <2>1 DEF DbError, Crash
  <2>3. QED
      BY <2>1, <2>2, CacheStep
<1>2. K => CacheIsLatestState
    BY DEF CacheInv, CacheIsLatestState, LatestState, Known
<1>3. Init => K
    BY CacheInit
<1>4. Spec => []J
    BY RowsInvariant
<1>. HIDE DEF J, K
<1>5. QED
    BY <1>1, <1>2, <1>3, <1>4, PTL DEF Spec
-----------------------------------------------------------------------------
(* The labels and assignments of the rows that are processed.              *)

\* The rows that are transformed for good: a crash takes away those that the
\* run has not yet marked.
Covered == processed \cup UNION {done[t] : t \in Run}

Prefix(S) == \A r \in S : \A q \in 1 .. r - 1 : q \in S

\* The rows are covered in the order of Bronze: those before a row that a run
\* has in its hands are covered or in its hands too, those behind it are not.
PrefixInv ==
    /\ Prefix(processed) /\ Prefix(Covered)
    /\ \A t \in Run :
        /\ pc[t] \in {"idle", "list"} => done[t] = {}
        /\ \A b \in batch[t] \cup ({row[t]} \ {0}) :
              /\ \A q \in 1 .. b - 1 : q \in Covered \cup batch[t] \cup {row[t]}
              /\ \A c \in Covered : c < b

LEMMA PrefixInit == Init => PrefixInv
<1>. SUFFICES ASSUME Init PROVE PrefixInv
    OBVIOUS
<1>1. /\ processed = {} /\ Covered = {}
      /\ \A t \in Run : done[t] = {} /\ batch[t] = {} /\ row[t] = 0
    BY DEF Init, Covered
<1>2. QED
    BY <1>1 DEF PrefixInv, Prefix

LEMMA CoveredIs ==
    ASSUME OneRun, NEW t \in Run
    PROVE  Covered = processed \cup done[t] /\ Covered' = processed' \cup done'[t]
BY DEF OneRun, Covered

\* What the steps of the only run do with the rows it has in its hands, as long
\* as nothing fails.
Waits(t) == UNCHANGED <<processed, done, batch, row>>

Ends(t) ==
    UNCHANGED processed /\ done'[t] = {} /\ batch'[t] = {} /\ row'[t] = 0

Lists(t) ==
    /\ done[t] = {} /\ row[t] = 0
    /\ UNCHANGED <<processed, done, row>> /\ batch'[t] = FirstBatch

Takes(t) ==
    \E b \in batch[t] :
        /\ \A q \in batch[t] : b <= q
        /\ row[t] = 0 /\ UNCHANGED processed /\ batch'[t] = batch[t] \ {b}
        /\ \/ ~HasEffect(raw[b]) /\ done'[t] = done[t] \cup {b} /\ row'[t] = 0
           \/ UNCHANGED done /\ row'[t] = b

Marks(t) ==
    /\ batch[t] = {} /\ row[t] = 0
    /\ processed' = processed \cup done[t] /\ done'[t] = {} /\ UNCHANGED <<batch, row>>

Succeeds(t) ==
    /\ pc[t] \in {"insert", "cache", "writemeta", "comment", "assign"}
    /\ UNCHANGED <<processed, batch>>
    /\ done'[t] = done[t] \cup {row[t]} /\ row'[t] = 0

LEMMA HandStep ==
    ASSUME TypeInv, OrderInv, PrefixInv, NothingFails, ~DbError,
           NEW t \in Run, RunStep(t) \/ Crash(t)
    PROVE  /\ Waits(t) \/ Ends(t) \/ Lists(t) \/ Takes(t) \/ Marks(t) \/ Succeeds(t)
           /\ pc'[t] \in {"idle", "list"} => done'[t] = {}
<1>. DEFINE Goal ==
        /\ Waits(t) \/ Ends(t) \/ Lists(t) \/ Takes(t) \/ Marks(t) \/ Succeeds(t)
        /\ pc'[t] \in {"idle", "list"} => done'[t] = {}
<1>0. /\ pc \in [Run -> Control] /\ batch \in [Run -> SUBSET DOMAIN raw]
      /\ row \in [Run -> DOMAIN raw \cup {0}] /\ done \in [Run -> SUBSET DOMAIN raw]
      /\ pc[t] \in {"idle", "list"} => done[t] = {}
      /\ pc[t] \in {"idle", "list", "next"} => row[t] = 0
    BY DEF TypeInv, TypeOK, PrefixInv, OrderInv, TakesInOrder
<1>end. EndRun(t) /\ UNCHANGED processed => Goal
    BY <1>0 DEF EndRun, Ends
<1>succeed. Succeed(t) /\ UNCHANGED processed
            /\ pc[t] \in {"insert", "cache", "writemeta", "comment", "assign"} => Goal
    BY <1>0 DEF Succeed, EndEvent, Succeeds
<1>move. ASSUME NEW label \in Control \ {"idle", "list"}, Goto(t, label),
                UNCHANGED <<processed, done, batch, row>>
         PROVE  Goal
    BY <1>0, <1>move DEF Goto, Waits
<1>a. pc[t] \notin {"idle", "list", "next"} =>
          AfterEnsure(Current(t)) \in Control \ {"idle", "list"}
    BY CurrentTyped, AfterEnsureTyped DEF Control
<1>. HIDE DEF Goal
<1>. SUFFICES Goal
    BY DEF Goal
<1>1. CASE StartRun(t)
    BY <1>0, <1>1 DEF StartRun, Goto, Waits, bronze, Goal
<1>2. CASE ListBatch(t)
  <2>1. CASE /\ Goto(t, "next") /\ batch' = [batch EXCEPT ![t] = FirstBatch]
             /\ UNCHANGED <<row, done, processed>>
      BY <1>0, <1>2, <2>1 DEF ListBatch, Goto, Lists, Goal
  <2>2. QED
      BY <1>end, <1>2, <2>1 DEF ListBatch, bronze
<1>3. CASE TransformEvent(t)
  <2>1. PICK b \in batch[t] :
            /\ \A q \in batch[t] : b <= q
            /\ batch' = [batch EXCEPT ![t] = @ \ {b}]
            /\ \/ /\ ~HasEffect(raw[b]) /\ done' = [done EXCEPT ![t] = @ \cup {b}]
                  /\ UNCHANGED <<pc, row>>
               \/ Goto(t, "lookup") /\ row' = [row EXCEPT ![t] = b] /\ UNCHANGED done
      BY <1>3 DEF TransformEvent
  <2>2. pc[t] = "next" /\ UNCHANGED processed /\ row[t] = 0
      BY <1>0, <1>3 DEF TransformEvent, bronze
  <2>3. Takes(t) /\ pc'[t] \in {"next", "lookup"}
      BY <1>0, <2>1, <2>2 DEF Goto, Takes
  <2>4. QED
      BY <2>3 DEF Goal
<1>4. CASE FinishBatch(t)
  <2>1. CASE /\ processed' = processed \cup done[t] /\ Goto(t, "list")
             /\ done' = [done EXCEPT ![t] = {}] /\ UNCHANGED <<batch, row>>
      BY <1>0, <1>4, <2>1 DEF FinishBatch, Goto, Marks, Goal
  <2>2. QED
      BY <1>4, <1>end, <2>1 DEF FinishBatch
<1>5. CASE LookupIssue(t)
  <2>1. /\ pc[t] = "lookup" /\ UNCHANGED <<processed, done, batch, row>>
        /\ Goto(t, "create") \/ Goto(t, AfterEnsure(Current(t)))
      BY <1>5 DEF LookupIssue, bronze
  <2>2. "create" \in Control \ {"idle", "list"}
      BY DEF Control
  <2>3. QED
      BY <1>a, <1>move, <2>1, <2>2
<1>6. CASE CreateIssue(t)
  <2>1. ProjectOf[Current(t).issue] \in silverProjects
      BY <1>6, CurrentTyped DEF CreateIssue, Current, NothingFails
  <2>2. /\ pc[t] = "create" /\ UNCHANGED <<processed, done, batch, row>>
        /\ Goto(t, AfterEnsure(Current(t)))
      BY <1>6, <2>1 DEF CreateIssue, bronze
  <2>3. QED
      BY <1>a, <1>move, <2>2
<1>7. CASE ReadLastEvent(t)
  <2>1. Goto(t, "insert") /\ UNCHANGED <<processed, done, batch, row>>
      BY <1>7 DEF ReadLastEvent, bronze
  <2>2. "insert" \in Control \ {"idle", "list"}
      BY DEF Control
  <2>3. QED
      BY <1>move, <2>1, <2>2
<1>8. CASE InsertEvent(t)
  <2>1. /\ pc[t] = "insert" /\ UNCHANGED processed
        /\ Succeed(t) \/ (Goto(t, "cache") /\ UNCHANGED <<done, batch, row>>)
      BY <1>8 DEF InsertEvent, bronze
  <2>2. "cache" \in Control \ {"idle", "list"}
      BY DEF Control
  <2>3. QED
      BY <1>move, <1>succeed, <2>1, <2>2
<1>9. CASE ReadMetadata(t)
  <2>1. Goto(t, "writemeta") /\ UNCHANGED <<processed, done, batch, row>>
      BY <1>9 DEF ReadMetadata, bronze
  <2>2. "writemeta" \in Control \ {"idle", "list"}
      BY DEF Control
  <2>3. QED
      BY <1>move, <2>1, <2>2
<1>10. CASE UpdateCache(t) \/ WriteMetadata(t) \/ InsertComment(t) \/ UpdateAssignees(t)
  <2>1. /\ Succeed(t) /\ UNCHANGED processed
        /\ pc[t] \in {"cache", "writemeta", "comment", "assign"}
      BY <1>10 DEF UpdateCache, WriteMetadata, InsertComment, UpdateAssignees, bronze
  <2>2. QED
      BY <1>succeed, <2>1
<1>11. CASE Crash(t)
    BY <1>end, <1>11 DEF Crash, bronze
<1>12. QED
    BY <1>1, <1>2, <1>3, <1>4, <1>5, <1>6, <1>7, <1>8, <1>9, <1>10, <1>11 DEF RunStep

LEMMA PrefixStep ==
    ASSUME OneRun, TypeInv, OrderInv, PrefixInv, NothingFails, ~DbError, [Next]_vars
    PROVE  PrefixInv'
<1>1. ASSUME NEW t \in Run, RunStep(t) \/ Crash(t) PROVE PrefixInv'
  <2>. DEFINE P == processed
              P2 == processed'
              C == processed \cup done[t]
              C2 == processed' \cup done'[t]
              B == batch[t]
              B2 == batch'[t]
              r == row[t]
              r2 == row'[t]
              Hand == \A b \in B2 \cup ({r2} \ {0}) :
                        /\ \A q \in 1 .. b - 1 : q \in C2 \cup B2 \cup {r2}
                        /\ \A c \in C2 : c < b
  <2>0. /\ C \subseteq Nat \ {0} /\ P \subseteq C /\ B \subseteq Nat \ {0} /\ r \in Nat
        /\ \A u \in Run : u = t
    BY DEF TypeInv, TypeOK, OneRun
  <2>1. /\ Prefix(P) /\ Prefix(C)
        /\ \A b \in B \cup ({r} \ {0}) :
              /\ \A q \in 1 .. b - 1 : q \in C \cup B \cup {r}
              /\ \A c \in C : c < b
        /\ \A b \in B : r < b
      BY CoveredIs DEF PrefixInv, OrderInv, TakesInOrder
  <2>2. Waits(t) \/ Ends(t) \/ Lists(t) \/ Takes(t) \/ Marks(t) \/ Succeeds(t)
      BY <1>1, HandStep
  <2>3. pc'[t] \in {"idle", "list"} => done'[t] = {}
      BY <1>1, HandStep
  <2>4. Prefix(P2) /\ Prefix(C2) /\ Hand
    <3>1. CASE Waits(t)
      <4>1. P2 = P /\ C2 = C /\ B2 = B /\ r2 = r
          BY <3>1 DEF Waits
      <4>. HIDE DEF P, P2, C, C2, B, B2, r, r2
      <4>2. QED
          BY <2>1, <4>1
    <3>2. CASE Ends(t)
      <4>1. P2 = P /\ C2 = P /\ B2 = {} /\ r2 = 0
          BY <3>2 DEF Ends
      <4>. HIDE DEF P, P2, C, C2, B, B2, r, r2
      <4>2. QED
          BY <2>1, <4>1
    <3>3. CASE Lists(t)
      <4>1. P2 = P /\ C2 = C /\ C = P /\ B2 = FirstBatch /\ r2 = 0
          BY <3>3 DEF Lists
      <4>2. \A b \in B2 : /\ b \in Nat \ {0} /\ b \notin C
                          /\ \A q \in 1 .. b - 1 : q \in B2 \/ q \in C
        <5>1. \A b \in FirstBatch : b \in Nat \ {0} /\ b \notin P
            BY DEF FirstBatch, Unprocessed, TypeInv, TypeOK
        <5>2. \A b \in FirstBatch : \A q \in 1 .. b - 1 : q \in FirstBatch \/ q \in P
            BY FirstBatchIsFirst
        <5>. HIDE DEF P, C, B2
        <5>3. QED
            BY <4>1, <5>1, <5>2
      <4>. HIDE DEF P, P2, C, C2, B, B2, r, r2
      <4>3. ASSUME NEW b \in B2, NEW c \in C PROVE c < b
        <5>1. CASE b \in 1 .. c - 1
            BY <2>1, <4>2, <5>1 DEF Prefix
        <5>2. b \in Nat /\ c \in Nat /\ b # c /\ b # 0
            BY <2>0, <4>2
        <5>3. QED
            BY <5>1, <5>2
      <4>4. QED
          BY <2>1, <4>1, <4>2, <4>3
    <3>4. CASE Takes(t)
      <4>1. PICK b \in B :
                /\ \A q \in B : b <= q
                /\ r = 0 /\ P2 = P /\ B2 = B \ {b}
                /\ \/ C2 = C \cup {b} /\ r2 = 0
                   \/ C2 = C /\ r2 = b
          BY <3>4 DEF Takes
      <4>. HIDE DEF P, P2, C, C2, B, B2, r, r2
      <4>2. ASSUME NEW q \in 1 .. b - 1 PROVE q \in C
        <5>1. b \in Nat /\ q < b /\ q # 0
            BY <2>0, <4>1
        <5>2. q \notin B
            BY <2>0, <4>1, <5>1
        <5>3. QED
            BY <2>1, <4>1, <5>1, <5>2
      <4>3. \A c \in C : c < b
          BY <2>1, <4>1
      <4>4. \A d \in B2 : b < d /\ (\A c \in C : c < d)
          BY <2>0, <2>1, <4>1
      <4>5. \A d \in B2 : \A q \in 1 .. d - 1 : q \in C \cup B2 \cup {b}
          BY <2>0, <2>1, <4>1
      <4>6. CASE C2 = C \cup {b} /\ r2 = 0
          BY <2>1, <4>1, <4>2, <4>4, <4>5, <4>6 DEF Prefix
      <4>7. CASE C2 = C /\ r2 = b
          BY <2>1, <4>1, <4>2, <4>3, <4>4, <4>5, <4>7 DEF Prefix
      <4>8. QED
          BY <4>1, <4>6, <4>7
    <3>5. CASE Marks(t)
      <4>1. P2 = C /\ C2 = C /\ B2 = {} /\ r2 = 0
          BY <3>5 DEF Marks
      <4>. HIDE DEF P, P2, C, C2, B, B2, r, r2
      <4>2. QED
          BY <2>1, <4>1
    <3>6. CASE Succeeds(t)
      <4>1. P2 = P /\ C2 = C \cup {r} /\ B2 = B /\ r2 = 0
          BY <3>6 DEF Succeeds
      <4>2. r # 0
          BY <3>6, CurrentTyped DEF Succeeds, TypeInv, TypeOK
      <4>. HIDE DEF P, P2, C, C2, B, B2, r, r2
      <4>3. \A q \in 1 .. r - 1 : q \in C
          BY <2>0, <2>1, <4>2
      <4>4. QED
          BY <2>0, <2>1, <4>1, <4>2, <4>3 DEF Prefix
    <3>. HIDE DEF Hand, P, P2, C, C2, B, B2, r, r2
    <3>7. QED
        BY <2>2, <3>1, <3>2, <3>3, <3>4, <3>5, <3>6
  <2>5. QED
      BY <2>0, <2>3, <2>4, CoveredIs DEF PrefixInv
<1>2. CASE UNCHANGED <<processed, locals>>
  <2>1. Covered' = Covered
      BY <1>2 DEF Covered, locals
  <2>2. QED
      BY <1>2, <2>1 DEF PrefixInv, locals
<1>3. QED
    BY <1>1, <1>2 DEF Next, vars, bronze, Ingest, DiscoverProject

\* The entries p say that the name was assigned at the time `at`.
Held(p, at) ==
    \E k \in DOMAIN p :
        /\ p[k].assigned <= at
        /\ p[k].unassigned = StillAssigned \/ at <= p[k].unassigned

\* An entry that was open before a note of an earlier time is closed too early;
\* it is there no more when the note that began it is covered again.
NewerOpen(p, at) == \E k \in OpenPeriods(p) : at < p[k].assigned

\* What a note at the time `at` does to what the entries say.
LEMMA HeldAfter ==
    ASSUME NEW h \in AssigneeHistory, WellFormedHistory(h), NEW n \in Name,
           NEW as \in SUBSET Name, NEW un \in SUBSET Name, NEW at \in Nat
    PROVE  LET p == h.history[n]
               q == ApplyAssigneeChanges(h, as, un, at).history[n]
           IN  /\ \A x \in Nat : Held(p, x) /\ x <= at => Held(q, x)
               /\ \A x \in Nat : Held(p, x) /\ n \notin un => Held(q, x)
               /\ n \in as /\ (NewerOpen(p, at) => Held(p, at)) => Held(q, at)
               /\ n \in un => OpenPeriods(q) = {}
               /\ \A x \in Nat : NewerOpen(q, x) => NewerOpen(p, x) \/ x < at
<1>. DEFINE p == h.history[n]
            q == ApplyAssigneeChanges(h, as, un, at).history[n]
            after == IF n \in as THEN AssignedPeriods(p, at) ELSE p
<1>1. p \in Seq(Period) /\ OneOpen(p)
    BY DEF AssigneeHistory, WellFormedHistory, OneOpen
<1>2. /\ after \in Seq(Period) /\ OneOpen(after)
      /\ n \in as => OpenPeriods(after) # {}
      /\ \A k \in DOMAIN p : k \in DOMAIN after /\ after[k] = p[k]
      /\ \A k \in DOMAIN after : k \in DOMAIN p \/ after[k].assigned = at
  <2>. HIDE DEF p
  <2>1. CASE n \in as
    <3>. DEFINE a == AssignedPeriods(p, at)
    <3>1. /\ a \in Seq(Period)
          /\ \A k \in DOMAIN p : k \in DOMAIN a /\ a[k] = p[k]
          /\ \A k \in DOMAIN a : k \in DOMAIN p \/ a[k].assigned = at
        BY <1>1, AssignedKeeps
    <3>2. OneOpen(a) /\ OpenPeriods(a) # {}
        BY <1>1, AssignedOpensOne
    <3>3. after = a
        BY <2>1
    <3>. HIDE DEF a, after
    <3>4. QED
        BY <3>1, <3>2, <3>3
  <2>2. CASE n \notin as
      BY <1>1, <2>2
  <2>3. QED
      BY <2>1, <2>2
<1>3. q = IF n \in un THEN UnassignedPeriods(after, at) ELSE after
    BY DEF ApplyAssigneeChanges
<1>. HIDE DEF p, q, after
<1>4. /\ DOMAIN q = DOMAIN after
      /\ \A k \in DOMAIN after :
            /\ q[k].assigned = after[k].assigned
            /\ \/ q[k].unassigned = after[k].unassigned
               \/ /\ n \in un /\ after[k].unassigned = StillAssigned
                  /\ q[k].unassigned = at
  <2>1. CASE n \in un
      BY <1>2, <1>3, <2>1, UnassignedKeeps
  <2>2. CASE n \notin un
      BY <1>3, <2>2
  <2>3. QED
      BY <2>1, <2>2
<1>5. n \in un => OpenPeriods(q) = {}
    BY <1>2, <1>3, UnassignedClosesAll
<1>t. /\ \A k \in DOMAIN p : p[k].assigned \in Nat
      /\ \A k \in DOMAIN after : after[k].assigned \in Nat
  <2>1. (\A k \in DOMAIN p : p[k] \in Period) /\ (\A k \in DOMAIN after : after[k] \in Period)
      BY <1>1, <1>2
  <2>2. QED
      BY <2>1 DEF Period
<1>6. ASSUME NEW x \in Nat, Held(p, x), x <= at \/ n \notin un PROVE Held(q, x)
  <2>1. PICK k \in DOMAIN p : /\ p[k].assigned <= x
                              /\ p[k].unassigned = StillAssigned \/ x <= p[k].unassigned
      BY <1>6 DEF Held
  <2>2. k \in DOMAIN q /\ q[k].assigned <= x
      BY <1>2, <1>4, <2>1
  <2>3. q[k].unassigned = StillAssigned \/ x <= q[k].unassigned
      BY <1>2, <1>4, <1>6, <2>1
  <2>4. QED
      BY <2>2, <2>3 DEF Held
<1>7. ASSUME n \in as, NewerOpen(p, at) => Held(p, at) PROVE Held(q, at)
  <2>1. CASE NewerOpen(p, at)
      BY <1>6, <1>7, <2>1
  <2>2. CASE ~NewerOpen(p, at)
    <3>1. PICK k \in OpenPeriods(after) : TRUE
        BY <1>2, <1>7
    <3>2. k \in DOMAIN after /\ after[k].unassigned = StillAssigned
        BY <3>1 DEF OpenPeriods
    <3>3. after[k].assigned <= at
      <4>1. CASE k \in DOMAIN p
        <5>1. k \in OpenPeriods(p) /\ after[k] = p[k]
            BY <1>2, <3>2, <4>1 DEF OpenPeriods
        <5>2. QED
            BY <1>t, <2>2, <4>1, <5>1 DEF NewerOpen
      <4>2. QED
          BY <1>2, <3>2, <4>1
    <3>4. /\ q[k].assigned <= at /\ k \in DOMAIN q
          /\ q[k].unassigned = StillAssigned \/ at <= q[k].unassigned
        BY <1>4, <3>2, <3>3
    <3>5. QED
        BY <3>4 DEF Held
  <2>3. QED
      BY <2>1, <2>2
<1>8. ASSUME NEW x \in Nat, NewerOpen(q, x) PROVE NewerOpen(p, x) \/ x < at
  <2>1. PICK k \in DOMAIN q : q[k].unassigned = StillAssigned /\ x < q[k].assigned
      BY <1>8 DEF NewerOpen, OpenPeriods
  <2>2. after[k].unassigned = StillAssigned /\ x < after[k].assigned /\ k \in DOMAIN after
      BY <1>4, <2>1 DEF StillAssigned
  <2>3. CASE k \in DOMAIN p
      BY <1>2, <2>2, <2>3 DEF NewerOpen, OpenPeriods
  <2>4. CASE k \notin DOMAIN p
      BY <1>2, <2>2, <2>4
  <2>5. QED
      BY <2>3, <2>4
<1>9. QED
    BY <1>5, <1>6, <1>7, <1>8 DEF p, q

-----------------------------------------------------------------------------
Periods(i, n) == issues[i].assignees.history[n]

\* Why nothing of a processed row is missing: it is there as long as the row is
\* covered, and an assignment also while a newer period of the name is open,
\* since a note that is transformed once more adds nothing then.  Every period
\* was begun by a note of Bronze, so a note that is the latest has no newer one.
AccumulatedInv ==
    /\ \A r \in Covered : IsMetadata(raw[r]) => raw[r].label \in issues[raw[r].issue].metadata
    /\ \A i \in Issue, n \in Name : \A k \in DOMAIN Periods(i, n) :
          \E q \in DOMAIN raw :
              /\ raw[q].issue = i /\ IsAssignment(raw[q])
              /\ raw[q].at = Periods(i, n)[k].assigned
    /\ \A r \in DOMAIN raw :
          IsAssignment(raw[r]) /\ AssignedInOrder(raw[r].issue) =>
              \A n \in Captured(raw[r].assigned) :
                  r \in Covered \/ NewerOpen(Periods(raw[r].issue, n), raw[r].at)
                      => Held(Periods(raw[r].issue, n), raw[r].at)

LEMMA AccumulatedInit == Init => AccumulatedInv
<1>. SUFFICES ASSUME Init PROVE AccumulatedInv
    OBVIOUS
<1>1. /\ Covered = {} /\ raw = <<>>
      /\ \A i \in Issue, n \in Name : Periods(i, n) = <<>>
    BY DEF Init, Covered, Periods, NoIssue, EmptyHistory
<1>2. QED
    BY <1>1 DEF AccumulatedInv

\* The row that becomes covered has left what it has to leave.
LEMMA NewlyCovered ==
    ASSUME OneRun, TypeInv, OrderInv, PrefixInv, RowsInv, NothingFails, ~DbError,
           NEW t \in Run, RunStep(t) \/ Crash(t), NEW r \in Covered', r \notin Covered
    PROVE  /\ ~IsMetadata(raw[r]) \/ (r = row[t] /\ Labels(t))
           /\ ~IsAssignment(raw[r]) \/ (r = row[t] /\ pc[t] = "assign" /\ UpdateAssignees(t))
<1>. USE DEF bronze
<1>0. done \in [Run -> SUBSET DOMAIN raw] /\ row[t] \in DOMAIN raw \cup {0}
    BY DEF TypeInv, TypeOK
<1>1. Waits(t) \/ Ends(t) \/ Lists(t) \/ Takes(t) \/ Marks(t) \/ Succeeds(t)
    BY HandStep
<1>2. Covered = processed \cup done[t] /\ Covered' = processed' \cup done'[t]
    BY CoveredIs
<1>3. CASE Waits(t) \/ Ends(t) \/ Lists(t) \/ Marks(t)
    BY <1>2, <1>3 DEF Waits, Ends, Lists, Marks
<1>4. CASE Takes(t)
    BY <1>2, <1>4 DEF Takes, HasEffect
<1>5. CASE Succeeds(t)
  <2>1. r = row[t] /\ pc[t] \in {"insert", "cache", "writemeta", "comment", "assign"}
      BY <1>2, <1>5 DEF Succeeds
  <2>2. pc[t] \in {"insert", "cache"} => ~IsMetadata(raw[r]) /\ ~IsAssignment(raw[r])
      BY <2>1, KindsExclude DEF TypeInv, Located, Current
  <2>3. pc[t] = "comment" => ~IsMetadata(raw[r]) /\ ~IsAssignment(raw[r])
      BY <2>1, KindsExclude DEF TypeInv, Located, Current
  <2>4. ~Crash(t)
      BY <1>0, <1>5 DEF Crash, EndRun, Succeeds
  <2>5. CASE pc[t] = "writemeta"
    <3>1. WriteMetadata(t)
        BY <2>4, <2>5 DEF RunStep, StartRun, ListBatch, TransformEvent, FinishBatch, LookupIssue,
           CreateIssue, ReadLastEvent, InsertEvent, UpdateCache, ReadMetadata, InsertComment,
           UpdateAssignees
    <3>2. Labels(t)
        BY <3>1, LabelsStep
    <3>3. ~IsAssignment(raw[r])
        BY <2>1, <2>5 DEF TypeInv, Located, Current, IsMetadata, IsAssignment
    <3>4. QED
        BY <2>1, <3>2, <3>3
  <2>6. CASE pc[t] = "assign"
    <3>1. UpdateAssignees(t)
        BY <2>4, <2>6 DEF RunStep, StartRun, ListBatch, TransformEvent, FinishBatch, LookupIssue,
           CreateIssue, ReadLastEvent, InsertEvent, UpdateCache, ReadMetadata, InsertComment,
           WriteMetadata
    <3>2. ~IsMetadata(raw[r])
        BY <2>1, <2>6 DEF TypeInv, Located, Current, IsMetadata, IsAssignment
    <3>3. QED
        BY <2>1, <2>6, <3>1, <3>2
  <2>7. QED
      BY <2>1, <2>2, <2>3, <2>5, <2>6
<1>6. QED
    BY <1>1, <1>3, <1>4, <1>5

\* The entries of a name change with a note of the issue only.
LEMMA PeriodsStep ==
    ASSUME TypeInv, RowsInv, ~DbError, NEW t \in Run, RunStep(t) \/ Crash(t),
           NEW i \in Issue, NEW n \in Name
    PROVE  \/ Periods(i, n)' = Periods(i, n) /\ ~(UpdateAssignees(t) /\ i = Current(t).issue)
           \/ /\ UpdateAssignees(t) /\ i = Current(t).issue
              /\ Periods(i, n)' =
                    ApplyAssigneeChanges(issues[i].assignees, Captured(Current(t).assigned),
                        Captured(Current(t).unassigned), Current(t).at).history[n]
<1>. DEFINE e == Current(t)
            h == issues[i].assignees
            g == ApplyAssigneeChanges(h, Captured(e.assigned), Captured(e.unassigned), e.at)
<1>0. issues \in [Issue -> IssueRow]
    BY DEF TypeInv, TypeOK
<1>1. CASE UpdateAssignees(t) /\ i = e.issue
  <2>1. snap[t].assignees = h
      BY <1>1 DEF UpdateAssignees, RowsInv, Reads, IssueOf
  <2>2. issues' = IF g = h THEN issues ELSE [issues EXCEPT ![i].assignees = g]
      BY <1>1, <2>1 DEF UpdateAssignees
  <2>. HIDE DEF g
  <2>3. issues'[i].assignees = g
      BY <1>0, <2>2 DEF IssueRow
  <2>4. QED
      BY <1>1, <2>3 DEF Periods, g
<1>2. CASE ~(UpdateAssignees(t) /\ i = e.issue)
  <2>. HIDE DEF e, g, h
  <2>1. PICK x, y, z :
            \/ issues' = issues
            \/ issues[e.issue] = NoIssue /\ issues' = [issues EXCEPT ![e.issue] = Stub]
            \/ issues' \in {[issues EXCEPT ![e.issue].state = x],
                            [issues EXCEPT ![e.issue].metadata = y]}
            \/ pc[t] = "assign" /\ issues' = [issues EXCEPT ![e.issue].assignees = z]
      BY IssueStep DEF Creates, Caches, Labels, Assigns, IssueOf, e
  <2>2. Stub.assignees = NoIssue.assignees
      BY DEF Stub, NoIssue
  <2>3. pc[t] = "assign" /\ issues' # issues => UpdateAssignees(t)
      BY DEF RunStep, Crash, StartRun, ListBatch, TransformEvent, FinishBatch, LookupIssue,
         CreateIssue, ReadLastEvent, InsertEvent, UpdateCache, ReadMetadata, InsertComment,
         WriteMetadata, silver
  <2>4. issues'[i].assignees = issues[i].assignees
      BY <1>0, <1>2, <2>1, <2>2, <2>3 DEF IssueRow
  <2>5. QED
      BY <1>2, <2>4 DEF Periods, e
<1>3. QED
    BY <1>1, <1>2

\* The labels that are on an issue stay on it.
LEMMA LabelsKept ==
    ASSUME OneRun, TypeInv, OrderInv, PrefixInv, DocumentsInv, RowsInv, NothingFails, ~DbError,
           NEW t \in Run, RunStep(t) \/ Crash(t), raw' = raw,
           \A r \in Covered : IsMetadata(raw[r]) => raw[r].label \in issues[raw[r].issue].metadata,
           NEW r \in Covered', IsMetadata(raw[r])
    PROVE  raw[r].label \in issues'[raw[r].issue].metadata
<1>0. /\ issues \in [Issue -> IssueRow]
      /\ \A i \in Issue : issues[i].exists \/ issues[i] = NoIssue
    BY DEF TypeInv, TypeOK, RowsInv
<1>1. CASE r \in Covered
  <2>1. raw[r].issue \in Issue /\ raw[r].label \in issues[raw[r].issue].metadata
    <3>1. r \in DOMAIN raw /\ raw \in Seq(Event)
        BY <1>1 DEF Covered, TypeInv, TypeOK
    <3>2. raw[r] \in EventRecord
        BY <3>1, EventAssumption
    <3>3. QED
        BY <1>1, <3>2 DEF EventRecord
  <2>2. Survives(issues[raw[r].issue], issues'[raw[r].issue])
      BY <2>1, RowSurvives
  <2>3. QED
      BY <1>0, <2>1, <2>2 DEF Survives, NoIssue
<1>2. CASE r \notin Covered
  <2>1. r = row[t] /\ Labels(t)
      BY <1>2, NewlyCovered
  <2>2. raw[r].issue \in Issue
      BY <2>1, CurrentTyped DEF Labels, Current
  <2>3. QED
      BY <1>0, <2>1, <2>2 DEF Labels, Current, IssueRow
<1>3. QED
    BY <1>1, <1>2

\* Every period has a note that began it.
Begun(i, n) ==
    \A k \in DOMAIN Periods(i, n) :
        \E q \in DOMAIN raw :
            raw[q].issue = i /\ IsAssignment(raw[q]) /\ raw[q].at = Periods(i, n)[k].assigned

LEMMA BegunKept ==
    ASSUME TypeInv, DocumentsInv, RowsInv, ~DbError, NEW t \in Run, RunStep(t) \/ Crash(t),
           raw' = raw, NEW i \in Issue, NEW n \in Name, Begun(i, n)
    PROVE  Begun(i, n)'
<1>. DEFINE e == Current(t)
            h == issues[i].assignees
            as == Captured(e.assigned)
            un == Captured(e.unassigned)
            at == e.at
            p == h.history[n]
            q == ApplyAssigneeChanges(h, as, un, at).history[n]
<1>1. CASE Periods(i, n)' = Periods(i, n)
    BY <1>1 DEF Begun
<1>2. CASE UpdateAssignees(t) /\ i = e.issue /\ Periods(i, n)' = q
  <2>1. /\ h \in AssigneeHistory /\ WellFormedHistory(h)
      BY DEF TypeInv, TypeOK, IssueRow, DocumentsInv, HistoriesWellFormed
  <2>2. /\ pc[t] = "assign" /\ row[t] \in DOMAIN raw /\ IsAssignment(e) /\ e = raw[row[t]]
        /\ e \in EventRecord /\ e.at \in Nat
        /\ as \in SUBSET Name /\ un \in SUBSET Name
    <3>1. pc[t] = "assign"
        BY <1>2 DEF UpdateAssignees
    <3>2. row[t] \in DOMAIN raw /\ e \in EventRecord /\ IsAssignment(e) /\ e = raw[row[t]]
        BY <3>1, CurrentTyped DEF TypeInv, Located, Current
    <3>3. QED
        BY <3>1, <3>2, CapturedTyped DEF EventRecord
  <2>3. \A k \in DOMAIN q :
            \/ k \in DOMAIN p /\ q[k].assigned = p[k].assigned
            \/ q[k].assigned = e.at
    <3>1. h \in AssigneeHistory /\ as \in SUBSET Name /\ un \in SUBSET Name /\ at \in Nat
        BY <2>1, <2>2
    <3>2. at = e.at /\ WellFormedHistory(h)
        BY <2>1
    <3>. HIDE DEF e, h, as, un, at
    <3>3. PICK h1, as1, un1, at1 : h1 = h /\ as1 = as /\ un1 = un /\ at1 = at
        OBVIOUS
    <3>. DEFINE p1 == h1.history[n]
                q1 == ApplyAssigneeChanges(h1, as1, un1, at1).history[n]
    <3>4. Continues(p1, q1, at1)
        BY <3>1, <3>2, <3>3, ApplyKeeps
    <3>. HIDE DEF p1, q1
    <3>5. q1 = q /\ p1 = p
        BY <3>3 DEF p1, q1
    <3>. HIDE DEF p, q
    <3>6. QED
        BY <3>2, <3>3, <3>4, <3>5 DEF Continues
  <2>. HIDE DEF e, h, as, un, at, q
  <2>4. ASSUME NEW k \in DOMAIN q
        PROVE  \E d \in DOMAIN raw :
                   raw[d].issue = i /\ IsAssignment(raw[d]) /\ raw[d].at = q[k].assigned
    <3>1. CASE k \in DOMAIN p /\ q[k].assigned = p[k].assigned
        BY <3>1 DEF Begun, Periods, h
    <3>2. CASE q[k].assigned = e.at
        BY <1>2, <2>2, <3>2
    <3>3. QED
        BY <2>3, <3>1, <3>2
  <2>5. QED
      BY <1>2, <2>4 DEF Begun
<1>3. QED
    BY <1>1, <1>2, PeriodsStep

\* The assignment of row r is in the document, or its note comes again.
Assigned(r) ==
    IsAssignment(raw[r]) /\ AssignedInOrder(raw[r].issue) =>
        \A n \in Captured(raw[r].assigned) :
            r \in Covered \/ NewerOpen(Periods(raw[r].issue, n), raw[r].at)
                => Held(Periods(raw[r].issue, n), raw[r].at)

LEMMA AssignedKept ==
    ASSUME OneRun, TypeInv, OrderInv, PrefixInv, DocumentsInv, RowsInv, NothingFails, ~DbError,
           NEW t \in Run, RunStep(t) \/ Crash(t), raw' = raw,
           NEW r \in DOMAIN raw, Assigned(r)
    PROVE  Assigned(r)'
<1>. DEFINE i == raw[r].issue
            x == raw[r].at
<1>. SUFFICES ASSUME IsAssignment(raw[r]), AssignedInOrder(i), NEW n \in Captured(raw[r].assigned),
                     r \in Covered' \/ NewerOpen(Periods(i, n)', x)
              PROVE  Held(Periods(i, n)', x)
    BY DEF Assigned, AssignedInOrder
<1>0. /\ i \in Issue /\ x \in Nat /\ n \in Name
      /\ raw \in Seq(Event) /\ DOMAIN raw = 1 .. Len(raw) /\ Len(raw) \in Nat
      /\ row[t] \in DOMAIN raw \cup {0}
  <2>1. raw[r] \in EventRecord /\ raw \in Seq(Event) /\ row[t] \in DOMAIN raw \cup {0}
      BY EventAssumption DEF TypeInv, TypeOK
  <2>2. Captured(raw[r].assigned) \subseteq Name
      BY <2>1, CapturedTyped DEF EventRecord
  <2>3. QED
      BY <2>1, <2>2 DEF EventRecord
<1>. DEFINE e == Current(t)
            h == issues[i].assignees
            p == h.history[n]
            as == Captured(e.assigned)
            un == Captured(e.unassigned)
            at == e.at
            q == ApplyAssigneeChanges(h, as, un, at).history[n]
<1>1. r \in Covered \/ NewerOpen(p, x) => Held(p, x)
    BY DEF Assigned, Periods
<1>2. CASE Periods(i, n)' = p /\ ~(UpdateAssignees(t) /\ i = e.issue)
  <2>1. r \in Covered' => r \in Covered
      BY <1>2, NewlyCovered DEF Current
  <2>2. QED
      BY <1>1, <1>2, <2>1
<1>3. CASE UpdateAssignees(t) /\ i = e.issue /\ Periods(i, n)' = q
  <2>1. h \in AssigneeHistory /\ WellFormedHistory(h)
      BY <1>0 DEF TypeInv, TypeOK, IssueRow, DocumentsInv, HistoriesWellFormed
  <2>2. /\ row[t] \in DOMAIN raw /\ IsAssignment(e) /\ e = raw[row[t]] /\ e.at \in Nat
        /\ as \in SUBSET Name /\ un \in SUBSET Name
    <3>1. pc[t] = "assign"
        BY <1>3 DEF UpdateAssignees
    <3>2. row[t] \in DOMAIN raw /\ e \in EventRecord /\ IsAssignment(e) /\ e = raw[row[t]]
        BY <3>1, CurrentTyped DEF TypeInv, Located, Current
    <3>3. QED
        BY <3>2, CapturedTyped DEF EventRecord
  <2>3. /\ Held(p, x) /\ x <= e.at => Held(q, x)
        /\ Held(p, x) /\ n \notin un => Held(q, x)
        /\ n \in as /\ (NewerOpen(p, e.at) => Held(p, e.at)) => Held(q, e.at)
        /\ n \in un => OpenPeriods(q) = {}
        /\ NewerOpen(q, x) => NewerOpen(p, x) \/ x < e.at
    <3>1. /\ h \in AssigneeHistory /\ WellFormedHistory(h) /\ n \in Name
          /\ as \in SUBSET Name /\ un \in SUBSET Name /\ at \in Nat /\ x \in Nat
        BY <1>0, <2>1, <2>2
    <3>2. at = e.at
        OBVIOUS
    <3>. HIDE DEF e, h, as, un, at, x
    <3>3. PICK h1, as1, un1, at1 : h1 = h /\ as1 = as /\ un1 = un /\ at1 = at
        OBVIOUS
    <3>. DEFINE p1 == h1.history[n]
                q1 == ApplyAssigneeChanges(h1, as1, un1, at1).history[n]
    <3>4. /\ \A y \in Nat : Held(p1, y) /\ y <= at1 => Held(q1, y)
          /\ \A y \in Nat : Held(p1, y) /\ n \notin un1 => Held(q1, y)
          /\ n \in as1 /\ (NewerOpen(p1, at1) => Held(p1, at1)) => Held(q1, at1)
          /\ n \in un1 => OpenPeriods(q1) = {}
          /\ \A y \in Nat : NewerOpen(q1, y) => NewerOpen(p1, y) \/ y < at1
        BY <3>1, <3>3, HeldAfter
    <3>. HIDE DEF p1, q1
    <3>5. q1 = q /\ p1 = p
        BY <3>3 DEF p1, q1
    <3>. HIDE DEF p, q
    <3>6. QED
        BY <3>1, <3>2, <3>3, <3>4, <3>5
  <2>. HIDE DEF e, as, un, at, q, p, h
  <2>4. CASE r = row[t]
    <3>1. e = raw[r] /\ x = e.at /\ n \in as
        BY <2>2, <2>4 DEF as
    <3>2. QED
        BY <1>1, <1>3, <2>3, <3>1
  <2>5. CASE r # row[t]
    <3>1. \A c \in Covered : c < row[t]
      <4>1. row[t] # 0
          BY <1>0, <2>2
      <4>2. QED
          BY <4>1 DEF PrefixInv
    <3>2. r < row[t] => r \in Covered
      <4>. SUFFICES ASSUME r < row[t] PROVE r \in Covered
          OBVIOUS
      <4>1. r \in 1 .. row[t] - 1 /\ row[t] # 0
          BY <1>0, <2>2
      <4>2. r \in Covered \cup batch[t] \cup {row[t]}
          BY <4>1 DEF PrefixInv
      <4>3. \A b \in batch[t] : row[t] < b
          BY DEF OrderInv, TakesInOrder
      <4>4. QED
          BY <1>0, <2>2, <2>5, <4>1, <4>2, <4>3
    <3>3. /\ r < row[t] => x < e.at
          /\ row[t] < r => e.at < x
        BY <1>3, <2>2 DEF AssignedInOrder
    <3>4. r < row[t] \/ row[t] < r
        BY <1>0, <2>2, <2>5
    <3>5. CASE r \in Covered
        BY <1>0, <1>1, <1>3, <2>2, <2>3, <3>1, <3>3, <3>5
    <3>6. CASE r \notin Covered
      <4>1. row[t] < r /\ e.at < x
          BY <3>2, <3>3, <3>4, <3>6
      <4>2. r \notin Covered'
          BY <2>5, <3>6, NewlyCovered
      <4>3. NewerOpen(q, x)
          BY <1>3, <4>2
      <4>4. n \notin un
          BY <2>3, <4>3 DEF NewerOpen
      <4>5. NewerOpen(p, x)
          BY <1>0, <2>2, <2>3, <4>1, <4>3
      <4>6. QED
          BY <1>1, <1>3, <2>3, <4>4, <4>5
    <3>7. QED
        BY <3>5, <3>6
  <2>6. QED
      BY <2>4, <2>5
<1>4. \/ Periods(i, n)' = Periods(i, n) /\ ~(UpdateAssignees(t) /\ i = Current(t).issue)
      \/ /\ UpdateAssignees(t) /\ i = Current(t).issue
         /\ Periods(i, n)' =
               ApplyAssigneeChanges(issues[i].assignees, Captured(Current(t).assigned),
                   Captured(Current(t).unassigned), Current(t).at).history[n]
    BY <1>0, PeriodsStep
<1>5. QED
    BY <1>2, <1>3, <1>4 DEF Periods

\* A new row of Bronze is not covered, and a period that is newer than a note
\* has a note of its own.
LEMMA AssignedArrives ==
    ASSUME TypeInv, NEW e \in Event, Ingest(e), AccumulatedInv
    PROVE  AccumulatedInv'
<1>0. PICK n : n = Len(raw) + 1
    OBVIOUS
<1>1. /\ raw \in Seq(Event) /\ n \in Nat /\ DOMAIN raw = 1 .. Len(raw) /\ raw' = Append(raw, e)
      /\ DOMAIN raw' = DOMAIN raw \cup {n} /\ n \notin DOMAIN raw /\ raw'[n] = e
      /\ \A r \in DOMAIN raw : raw'[r] = raw[r] /\ r < n
    BY <1>0 DEF Ingest, TypeInv, TypeOK
<1>2. Covered' = Covered /\ issues' = issues /\ Covered \subseteq DOMAIN raw
    BY DEF Ingest, silver, locals, Covered, TypeInv, TypeOK
<1>3. \A r \in Covered' : IsMetadata(raw'[r]) => raw'[r].label \in issues'[raw'[r].issue].metadata
    BY <1>1, <1>2 DEF AccumulatedInv
<1>4. \A i \in Issue, m \in Name : Begun(i, m)'
  <2>1. \A i \in Issue, m \in Name : Begun(i, m)
      BY DEF AccumulatedInv, Begun
  <2>2. \A i \in Issue, m \in Name : Periods(i, m)' = Periods(i, m)
      BY <1>2 DEF Periods
  <2>3. QED
      BY <1>1, <2>1, <2>2 DEF Begun
<1>5. \A r \in DOMAIN raw' : Assigned(r)'
  <2>1. \A i : AssignedInOrder(i)' => AssignedInOrder(i)
      BY <1>1 DEF AssignedInOrder
  <2>2. ASSUME NEW r \in DOMAIN raw PROVE Assigned(r)'
    <3>1. Assigned(r) /\ raw'[r] = raw[r]
        BY <1>1 DEF AccumulatedInv, Assigned
    <3>2. QED
        BY <1>2, <2>1, <3>1 DEF Assigned, Periods
  <2>3. Assigned(n)'
    <3>. SUFFICES ASSUME IsAssignment(e), AssignedInOrder(e.issue)', NEW m \in Captured(e.assigned),
                         n \in Covered \/ NewerOpen(Periods(e.issue, m), e.at)
                  PROVE  FALSE
      <4>1. issues' = issues /\ Covered' = Covered /\ raw'[n] = e
          BY <1>1, <1>2
      <4>2. n \notin Covered
          BY <1>1, <1>2
      <4>3. QED
          BY <4>1, <4>2 DEF Assigned, Periods
    <3>1. /\ e.issue \in Issue /\ e.at \in Nat /\ m \in Name
      <4>1. e \in EventRecord
          BY EventAssumption
      <4>2. QED
          BY <4>1, CapturedTyped DEF EventRecord
    <3>2. PICK k \in DOMAIN Periods(e.issue, m) : e.at < Periods(e.issue, m)[k].assigned
        BY <1>1, <1>2 DEF NewerOpen, OpenPeriods
    <3>3. PICK q \in DOMAIN raw : /\ raw[q].issue = e.issue /\ IsAssignment(raw[q])
                                  /\ raw[q].at = Periods(e.issue, m)[k].assigned
        BY <3>1 DEF AccumulatedInv
    <3>4. raw'[q].at < raw'[n].at
        BY <1>1, <3>3 DEF AssignedInOrder
    <3>5. raw[q].at \in Nat
      <4>1. raw[q] \in EventRecord
          BY <1>1, EventAssumption
      <4>2. QED
          BY <4>1 DEF EventRecord
    <3>6. QED
        BY <1>1, <3>1, <3>2, <3>3, <3>4, <3>5
  <2>4. QED
      BY <1>1, <2>2, <2>3
<1>6. QED
    BY <1>3, <1>4, <1>5 DEF AccumulatedInv, Begun, Assigned

LEMMA AccumulatedStep ==
    ASSUME OneRun, TypeInv, OrderInv, PrefixInv, DocumentsInv, RowsInv, AccumulatedInv,
           NothingFails, ~DbError, [Next]_vars
    PROVE  AccumulatedInv'
<1>1. ASSUME NEW t \in Run, RunStep(t) \/ Crash(t) PROVE AccumulatedInv'
  <2>1. raw' = raw
      BY <1>1 DEF RunStep, Crash, StartRun, ListBatch, TransformEvent, FinishBatch, LookupIssue,
         CreateIssue, ReadLastEvent, InsertEvent, UpdateCache, ReadMetadata, WriteMetadata,
         InsertComment, UpdateAssignees, bronze
  <2>2. \A r \in Covered' : IsMetadata(raw'[r]) => raw'[r].label \in issues'[raw'[r].issue].metadata
    <3>1. \A r \in Covered : IsMetadata(raw[r]) => raw[r].label \in issues[raw[r].issue].metadata
        BY DEF AccumulatedInv
    <3>2. QED
        BY <1>1, <2>1, <3>1, LabelsKept
  <2>3. \A i \in Issue, n \in Name : Begun(i, n)'
    <3>1. \A i \in Issue, n \in Name : Begun(i, n)
        BY DEF AccumulatedInv, Begun
    <3>2. QED
        BY <1>1, <2>1, <3>1, BegunKept
  <2>4. \A r \in DOMAIN raw' : Assigned(r)'
    <3>1. \A r \in DOMAIN raw : Assigned(r)
        BY DEF AccumulatedInv, Assigned
    <3>2. QED
        BY <1>1, <2>1, <3>1, AssignedKept
  <2>5. QED
      BY <2>2, <2>3, <2>4 DEF AccumulatedInv, Begun, Assigned
<1>2. CASE UNCHANGED <<raw, issues, processed, done>>
    BY <1>2 DEF AccumulatedInv, Covered, Periods, AssignedInOrder
<1>3. QED
    BY <1>1, <1>2, AssignedArrives DEF Next, vars, bronze, silver, locals, DiscoverProject

\* updateIssueMetadata and processAssigneeChanges (service.go:355-401, 464-505)
\* lose nothing of a processed row: with one run active at a time, and as long
\* as nothing fails, its label and its assignment are on the issue, also when
\* runs are killed between the write and the mark and transform the notes of
\* their batch again.
THEOREM ProcessedStaysAccumulated ==
    ASSUME OneRun
    PROVE  Spec /\ []NothingFails => []ProcessedIsAccumulated
<1>. DEFINE J == PrefixInv /\ AccumulatedInv
            K == TypeInv /\ OrderInv /\ DocumentsInv /\ (errors = 0 => RowsInv)
<1>1. J /\ K /\ NothingFails /\ NothingFails' /\ [Next]_vars => J'
  <2>. SUFFICES ASSUME J, K, NothingFails, NothingFails', [Next]_vars PROVE J'
      OBVIOUS
  <2>1. ~DbError /\ RowsInv
      BY DEF DbError, NothingFails
  <2>2. QED
      BY <2>1, PrefixStep, AccumulatedStep
<1>2. J /\ K => ProcessedIsAccumulated
  <2>. SUFFICES ASSUME AccumulatedInv, NEW r \in processed, processed \subseteq DOMAIN raw
                PROVE  /\ IsMetadata(raw[r]) => raw[r].label \in issues[raw[r].issue].metadata
                       /\ IsAssignment(raw[r]) /\ AssignedInOrder(raw[r].issue) =>
                            \A n \in Captured(raw[r].assigned) :
                                Held(Periods(raw[r].issue, n), raw[r].at)
    <3>1. K => processed \subseteq DOMAIN raw
        BY DEF TypeInv, TypeOK
    <3>2. QED
        BY <3>1 DEF ProcessedIsAccumulated, Held, Periods
  <2>1. QED
      BY DEF AccumulatedInv, Covered
<1>3. Init => J
    BY PrefixInit, AccumulatedInit
<1>4. Spec /\ []NothingFails => []K
    BY RowsInvariant, DocumentsInvariant, OrderInvariant, PTL
<1>. HIDE DEF J, K
<1>5. QED
    BY <1>1, <1>2, <1>3, <1>4, PTL DEF Spec

-----------------------------------------------------------------------------
(* The order of the periods of a name.                                     *)

LEMMA Smallest ==
    ASSUME NEW S \in SUBSET Nat, S # {}
    PROVE  \E x \in S : \A y \in S : x <= y
<1>. DEFINE R == {ss \in Nat \X Nat : ss[1] < ss[2]}
<1>1. IsWellFoundedOn(R, Nat)
    BY NatLessThanWellFounded DEF OpToRel
<1>2. \A a, b \in Nat : a < b => <<a, b>> \in R
    OBVIOUS
<1>. HIDE DEF R
<1>3. PICK x \in S : \A y \in S : ~(<<y, x>> \in R)
    BY <1>1, WFMin
<1>4. ASSUME NEW y \in S PROVE x <= y
  <2>1. x \in Nat /\ y \in Nat
      OBVIOUS
  <2>2. ~(y < x)
      BY <1>2, <1>3, <2>1
  <2>3. QED
      BY <2>1, <2>2
<1>5. QED
    BY <1>4

\* Every time of the entries is in T.
TimesIn(p, T) ==
    \A k \in DOMAIN p : p[k].assigned \in T /\ p[k].unassigned \in T \cup {StillAssigned}

\* The entry that handleAssigned adds.
LEMMA AssignedEntry ==
    ASSUME NEW p \in Seq(Period), NEW at \in Nat, OpenPeriods(p) = {}
    PROVE  LET q == AssignedPeriods(p, at)
           IN  /\ q \in Seq(Period) /\ Len(p) \in Nat
               /\ DOMAIN p = 1 .. Len(p) /\ DOMAIN q = 1 .. Len(p) + 1
               /\ q[Len(p) + 1].assigned = at /\ q[Len(p) + 1].unassigned = StillAssigned
               /\ \A k \in 1 .. Len(p) : q[k] = p[k]
<1>1. PICK new : new = [assigned |-> at, unassigned |-> StillAssigned]
    OBVIOUS
<1>2. new \in Period /\ new.assigned = at /\ new.unassigned = StillAssigned
    BY <1>1 DEF Period
<1>3. PICK q : q = Append(p, new)
    OBVIOUS
<1>4. /\ q \in Seq(Period) /\ Len(p) \in Nat
      /\ DOMAIN p = 1 .. Len(p) /\ DOMAIN q = 1 .. Len(p) + 1
      /\ q[Len(p) + 1] = new /\ \A k \in 1 .. Len(p) : q[k] = p[k]
    BY <1>2, <1>3
<1>5. q = AssignedPeriods(p, at)
    BY <1>1, <1>3 DEF AssignedPeriods
<1>6. QED
    BY <1>2, <1>4, <1>5

\* The entry that handleUnassigned closes.
LEMMA UnassignedEntry ==
    ASSUME NEW p \in Seq(Period), NEW at \in Nat, OpenPeriods(p) # {}
    PROVE  LET q == UnassignedPeriods(p, at)
           IN  \E f \in OpenPeriods(p) :
                  /\ DOMAIN q = DOMAIN p
                  /\ q[f].assigned = p[f].assigned /\ q[f].unassigned = at
                  /\ \A k \in DOMAIN p : k # f => q[k] = p[k]
<1>1. PICK f \in OpenPeriods(p) : \A j \in OpenPeriods(p) : f <= j
  <2>1. PICK S : S = OpenPeriods(p)
      OBVIOUS
  <2>2. S \in SUBSET Nat /\ S # {}
      BY <2>1 DEF OpenPeriods
  <2>3. QED
      BY <2>1, <2>2, Smallest
<1>. DEFINE c == CHOOSE i \in OpenPeriods(p) : \A j \in OpenPeriods(p) : i <= j
            q == [p EXCEPT ![c].unassigned = at]
<1>2. c \in OpenPeriods(p)
    BY <1>1
<1>3. UnassignedPeriods(p, at) = q
    BY DEF UnassignedPeriods
<1>. HIDE DEF c
<1>4. c \in DOMAIN p /\ p[c] \in Period
    BY <1>2 DEF OpenPeriods
<1>5. /\ DOMAIN q = DOMAIN p /\ q[c] = [p[c] EXCEPT !.unassigned = at]
      /\ \A k \in DOMAIN p : k # c => q[k] = p[k]
    BY <1>4
<1>. HIDE DEF q
<1>6. q[c].assigned = p[c].assigned /\ q[c].unassigned = at
    BY <1>4, <1>5 DEF Period
<1>7. QED
    BY <1>2, <1>3, <1>5, <1>6

\* A note brings no time but its own into the entries of a name, and keeps them
\* in order when it is not older than they are.
LEMMA EntriesInOrder ==
    ASSUME NEW p \in Seq(Period), NEW at \in Nat, NEW T, at \in T, TimesIn(p, T)
    PROVE  /\ AssignedPeriods(p, at) \in Seq(Period)
           /\ TimesIn(AssignedPeriods(p, at), T) /\ TimesIn(UnassignedPeriods(p, at), T)
           /\ T = 0 .. at /\ InOrder(p) =>
                 InOrder(AssignedPeriods(p, at)) /\ InOrder(UnassignedPeriods(p, at))
<1>1. /\ AssignedPeriods(p, at) \in Seq(Period) /\ TimesIn(AssignedPeriods(p, at), T)
      /\ T = 0 .. at /\ InOrder(p) => InOrder(AssignedPeriods(p, at))
  <2>1. CASE OpenPeriods(p) # {}
      BY <2>1 DEF AssignedPeriods
  <2>2. CASE OpenPeriods(p) = {}
    <3>1. PICK q, n : q = AssignedPeriods(p, at) /\ n = Len(p) + 1
        OBVIOUS
    <3>2. /\ q \in Seq(Period) /\ n \in Nat /\ DOMAIN p = 1 .. n - 1 /\ DOMAIN q = 1 .. n
          /\ q[n].assigned = at /\ q[n].unassigned = StillAssigned
          /\ \A k \in 1 .. n - 1 : q[k] = p[k]
        BY <2>2, <3>1, AssignedEntry
    <3>3. \A k \in 1 .. n : k = n \/ k \in 1 .. n - 1
        BY <3>2
    <3>4. TimesIn(q, T)
        BY <3>2, <3>3 DEF TimesIn
    <3>5. ASSUME T = 0 .. at, InOrder(p) PROVE InOrder(q)
      <4>1. \A k \in 1 .. n - 1 : p[k].unassigned # StillAssigned /\ p[k].unassigned <= at
          BY <2>2, <3>2, <3>5 DEF OpenPeriods, TimesIn
      <4>2. ASSUME NEW k \in DOMAIN q, q[k].unassigned # StillAssigned
            PROVE  q[k].assigned <= q[k].unassigned
          BY <3>2, <3>3, <3>5, <4>2 DEF InOrder
      <4>3. ASSUME NEW j \in DOMAIN q, NEW k \in DOMAIN q, j < k
            PROVE  q[j].unassigned # StillAssigned /\ q[j].unassigned <= q[k].assigned
        <5>1. j \in 1 .. n - 1 /\ q[j] = p[j]
            BY <3>2, <4>3
        <5>2. CASE k = n
            BY <3>2, <4>1, <5>1, <5>2
        <5>3. CASE k # n
          <6>1. k \in 1 .. n - 1 /\ q[k] = p[k]
              BY <3>2, <3>3, <5>3
          <6>2. QED
              BY <3>2, <3>5, <4>3, <5>1, <6>1 DEF InOrder
        <5>4. QED
            BY <5>2, <5>3
      <4>4. QED
          BY <4>2, <4>3 DEF InOrder
    <3>6. QED
        BY <3>1, <3>2, <3>4, <3>5
  <2>3. QED
      BY <2>1, <2>2
<1>2. /\ TimesIn(UnassignedPeriods(p, at), T)
      /\ T = 0 .. at /\ InOrder(p) => InOrder(UnassignedPeriods(p, at))
  <2>1. CASE OpenPeriods(p) = {}
      BY <2>1 DEF UnassignedPeriods
  <2>2. CASE OpenPeriods(p) # {}
    <3>1. PICK q : q = UnassignedPeriods(p, at)
        OBVIOUS
    <3>2. PICK f \in OpenPeriods(p) : /\ DOMAIN q = DOMAIN p
                                      /\ q[f].assigned = p[f].assigned /\ q[f].unassigned = at
                                      /\ \A k \in DOMAIN p : k # f => q[k] = p[k]
        BY <2>2, <3>1, UnassignedEntry
    <3>3. f \in DOMAIN p /\ p[f].unassigned = StillAssigned /\ DOMAIN p \in SUBSET Nat
        BY DEF OpenPeriods
    <3>4. TimesIn(q, T)
        BY <3>2, <3>3 DEF TimesIn
    <3>5. ASSUME T = 0 .. at, InOrder(p) PROVE InOrder(q)
      <4>1. \A k \in DOMAIN p : ~(f < k)
          BY <3>3, <3>5 DEF InOrder
      <4>2. p[f].assigned <= at
          BY <3>3, <3>5 DEF TimesIn
      <4>3. ASSUME NEW k \in DOMAIN q, q[k].unassigned # StillAssigned
            PROVE  q[k].assigned <= q[k].unassigned
          BY <3>2, <3>5, <4>2, <4>3 DEF InOrder
      <4>4. ASSUME NEW j \in DOMAIN q, NEW k \in DOMAIN q, j < k
            PROVE  q[j].unassigned # StillAssigned /\ q[j].unassigned <= q[k].assigned
        <5>1. j # f /\ q[j] = p[j] /\ q[k].assigned = p[k].assigned
            BY <3>2, <3>3, <4>1, <4>4
        <5>2. QED
            BY <3>2, <3>5, <4>4, <5>1 DEF InOrder
      <4>5. QED
          BY <4>3, <4>4 DEF InOrder
    <3>6. QED
        BY <3>1, <3>4, <3>5
  <2>3. QED
      BY <2>1, <2>2
<1>3. QED
    BY <1>1, <1>2

LEMMA ApplyInOrder ==
    ASSUME NEW h \in AssigneeHistory, NEW as \in SUBSET Name, NEW un \in SUBSET Name,
           NEW at \in Nat, NEW n \in Name, NEW T, at \in T, TimesIn(h.history[n], T)
    PROVE  /\ TimesIn(ApplyAssigneeChanges(h, as, un, at).history[n], T)
           /\ T = 0 .. at /\ InOrder(h.history[n]) =>
                 InOrder(ApplyAssigneeChanges(h, as, un, at).history[n])
<1>1. PICK p : p = h.history[n] /\ p \in Seq(Period)
    BY DEF AssigneeHistory
<1>2. PICK q : q = IF n \in as THEN AssignedPeriods(p, at) ELSE p
    OBVIOUS
<1>3. q \in Seq(Period) /\ TimesIn(q, T) /\ (T = 0 .. at /\ InOrder(p) => InOrder(q))
    BY <1>1, <1>2, EntriesInOrder
<1>4. PICK r : r = ApplyAssigneeChanges(h, as, un, at).history[n]
    OBVIOUS
<1>5. r = IF n \in un THEN UnassignedPeriods(q, at) ELSE q
    BY <1>1, <1>2, <1>4 DEF ApplyAssigneeChanges
<1>6. TimesIn(r, T) /\ (T = 0 .. at /\ InOrder(q) => InOrder(r))
    BY <1>3, <1>5, EntriesInOrder
<1>7. QED
    BY <1>1, <1>3, <1>4, <1>6

\* The times of the notes of issue i that are on it.
Noted(i) == {raw[q].at : q \in {q \in Covered : raw[q].issue = i /\ IsAssignment(raw[q])}}

\* Why notes that come once and in order leave periods in order: until a run is
\* killed the document knows no other times than those of the notes that are
\* covered, and the next note to be covered is newer than they are.
TimesInv ==
    \A i \in Issue, n \in Name :
        /\ TimesIn(Periods(i, n), Noted(i))
        /\ AssignedInOrder(i) => InOrder(Periods(i, n))

LEMMA TimesInit == Init => TimesInv
<1>. SUFFICES ASSUME Init, NEW i \in Issue, NEW n \in Name
     PROVE  TimesIn(Periods(i, n), Noted(i)) /\ InOrder(Periods(i, n))
    BY DEF TimesInv
<1>1. Periods(i, n) = <<>>
    BY DEF Init, Periods, NoIssue, EmptyHistory
<1>2. QED
    BY <1>1 DEF TimesIn, InOrder

\* A run that is not killed forgets no row, and counts the row of a note it has
\* applied.
LEMMA CoveredGrows ==
    ASSUME OneRun, TypeInv, PrefixInv, NothingFails, ~DbError, NEW t \in Run, RunStep(t)
    PROVE  Covered \subseteq Covered' /\ (UpdateAssignees(t) => row[t] \in Covered')
<1>. USE DEF bronze
<1>0. done \in [Run -> SUBSET DOMAIN raw] /\ (pc[t] \in {"idle", "list"} => done[t] = {})
    BY DEF TypeInv, TypeOK, PrefixInv
<1>1. Covered = processed \cup done[t] /\ Covered' = processed' \cup done'[t]
    BY CoveredIs
<1>. SUFFICES /\ processed \subseteq processed' /\ done[t] \subseteq processed' \cup done'[t]
              /\ UpdateAssignees(t) => row[t] \in done'[t]
    BY <1>1
<1>2. CASE StartRun(t) \/ LookupIssue(t) \/ ReadLastEvent(t)
    BY <1>2 DEF StartRun, LookupIssue, ReadLastEvent, UpdateAssignees
<1>3. CASE ListBatch(t)
    BY <1>0, <1>3 DEF ListBatch, EndRun, UpdateAssignees
<1>4. CASE TransformEvent(t)
    BY <1>0, <1>4 DEF TransformEvent, UpdateAssignees
<1>5. CASE FinishBatch(t)
    BY <1>0, <1>5 DEF FinishBatch, EndRun, UpdateAssignees
<1>6. CASE CreateIssue(t) \/ InsertEvent(t)
    BY <1>0, <1>6 DEF CreateIssue, InsertEvent, Succeed, Fail, EndEvent, UpdateAssignees
<1>7. CASE UpdateCache(t) \/ WriteMetadata(t) \/ ReadMetadata(t)
    BY <1>0, <1>7 DEF UpdateCache, WriteMetadata, ReadMetadata, Succeed, EndEvent, UpdateAssignees
<1>8. CASE InsertComment(t) \/ UpdateAssignees(t)
    BY <1>0, <1>8 DEF InsertComment, UpdateAssignees, Succeed, EndEvent
<1>9. QED
    BY <1>2, <1>3, <1>4, <1>5, <1>6, <1>7, <1>8 DEF RunStep

LEMMA TimesKept ==
    ASSUME OneRun, TypeInv, PrefixInv, RowsInv, NothingFails, ~DbError, TimesInv,
           NEW t \in Run, RunStep(t), raw' = raw
    PROVE  TimesInv'
<1>. SUFFICES ASSUME NEW i \in Issue, NEW n \in Name
     PROVE  /\ TimesIn(Periods(i, n), Noted(i))'
            /\ AssignedInOrder(i) => InOrder(Periods(i, n)')
    BY DEF TimesInv, AssignedInOrder
<1>1. /\ TimesIn(Periods(i, n), Noted(i))
      /\ AssignedInOrder(i) => InOrder(Periods(i, n))
    BY DEF TimesInv
<1>2. Covered \subseteq Covered' /\ (UpdateAssignees(t) => row[t] \in Covered')
    BY CoveredGrows
<1>3. Noted(i) \subseteq Noted(i)'
    BY <1>2 DEF Noted
<1>4. CASE Periods(i, n)' = Periods(i, n)
    BY <1>1, <1>3, <1>4 DEF TimesIn
<1>5. CASE /\ UpdateAssignees(t) /\ i = Current(t).issue
           /\ Periods(i, n)' =
                 ApplyAssigneeChanges(issues[i].assignees, Captured(Current(t).assigned),
                     Captured(Current(t).unassigned), Current(t).at).history[n]
  <2>1. PICK e, h, as, un, at : /\ e = Current(t) /\ h = issues[i].assignees
                                /\ as = Captured(e.assigned) /\ un = Captured(e.unassigned)
                                /\ at = e.at
      OBVIOUS
  <2>2. /\ row[t] \in DOMAIN raw /\ e = raw[row[t]] /\ IsAssignment(e) /\ e \in EventRecord
    <3>1. pc[t] = "assign"
        BY <1>5 DEF UpdateAssignees
    <3>2. row[t] \in DOMAIN raw /\ Current(t) \in EventRecord
        BY <3>1, CurrentTyped
    <3>3. IsAssignment(Current(t))
        BY <3>1 DEF TypeInv, Located
    <3>4. QED
        BY <2>1, <3>2, <3>3 DEF Current
  <2>3. /\ h \in AssigneeHistory /\ as \in SUBSET Name /\ un \in SUBSET Name /\ at \in Nat
      BY <2>1, <2>2, CapturedTyped DEF TypeInv, TypeOK, IssueRow, EventRecord
  <2>4. PICK T, U : T = Noted(i)' /\ U = 0 .. at
      OBVIOUS
  <2>5. at \in T /\ at \in U
    <3>1. /\ row[t] \in Covered' /\ raw'[row[t]] = e /\ e.issue = i
          /\ IsAssignment(e) /\ e.at = at
        BY <1>2, <1>5, <2>1, <2>2
    <3>2. at \in Noted(i)'
      <4>1. PICK c : c = row[t]
          OBVIOUS
      <4>2. c \in Covered' /\ raw'[c].issue = i /\ IsAssignment(raw'[c]) /\ raw'[c].at = at
          BY <3>1, <4>1
      <4>3. QED
          BY <4>2 DEF Noted
    <3>3. QED
        BY <2>3, <2>4, <3>2
  <2>6. h.history[n] = Periods(i, n)
      BY <2>1 DEF Periods
  <2>7. TimesIn(h.history[n], T)
      BY <1>1, <1>3, <2>4, <2>6 DEF TimesIn
  <2>8. PICK q : q = ApplyAssigneeChanges(h, as, un, at).history[n]
      OBVIOUS
  <2>9. TimesIn(q, T)
      BY <2>3, <2>5, <2>7, <2>8, ApplyInOrder
  <2>10. ASSUME AssignedInOrder(i) PROVE InOrder(q)
    <3>1. ASSUME NEW x \in Noted(i) PROVE x \in U
      <4>1. PICK c \in Covered : raw[c].issue = i /\ IsAssignment(raw[c]) /\ x = raw[c].at
          BY DEF Noted
      <4>2. c \in DOMAIN raw /\ row[t] # 0
          BY <2>2 DEF Covered, TypeInv, TypeOK
      <4>3. c < row[t]
          BY <4>2 DEF PrefixInv
      <4>4. x < at
          BY <1>5, <2>1, <2>2, <2>10, <4>1, <4>2, <4>3 DEF AssignedInOrder
      <4>5. x \in Nat
        <5>1. raw[c] \in EventRecord
            BY <4>2, EventAssumption DEF TypeInv, TypeOK
        <5>2. QED
            BY <4>1, <5>1 DEF EventRecord
      <4>6. QED
          BY <2>3, <2>4, <4>4, <4>5
    <3>2. TimesIn(h.history[n], U)
        BY <1>1, <2>6, <3>1 DEF TimesIn
    <3>3. InOrder(h.history[n])
        BY <1>1, <2>6, <2>10
    <3>4. QED
        BY <2>3, <2>4, <2>5, <2>8, <3>2, <3>3, ApplyInOrder
  <2>11. Periods(i, n)' = q
      BY <1>5, <2>1, <2>8
  <2>12. QED
      BY <2>4, <2>9, <2>10, <2>11
<1>6. QED
    BY <1>4, <1>5, PeriodsStep

LEMMA TimesStep ==
    ASSUME OneRun, TypeInv, PrefixInv, RowsInv, NothingFails, ~DbError, TimesInv, [Next]_vars,
           crashes' = crashes
    PROVE  TimesInv'
<1>1. ASSUME NEW t \in Run, RunStep(t) PROVE TimesInv'
  <2>1. raw' = raw
      BY <1>1 DEF RunStep, StartRun, ListBatch, TransformEvent, FinishBatch, LookupIssue,
         CreateIssue, ReadLastEvent, InsertEvent, UpdateCache, ReadMetadata, WriteMetadata,
         InsertComment, UpdateAssignees, bronze
  <2>2. QED
      BY <1>1, <2>1, TimesKept
<1>2. CASE UNCHANGED <<raw, issues, processed, done>>
  <2>1. Covered' = Covered /\ \A i \in Issue, n \in Name : Periods(i, n)' = Periods(i, n)
      BY <1>2 DEF Covered, Periods
  <2>2. \A i \in Issue : Noted(i)' = Noted(i) /\ (AssignedInOrder(i)' <=> AssignedInOrder(i))
      BY <1>2, <2>1 DEF Noted, AssignedInOrder
  <2>3. QED
      BY <2>1, <2>2 DEF TimesInv, TimesIn
<1>3. ASSUME NEW e \in Event, Ingest(e) PROVE TimesInv'
  <2>1. /\ raw \in Seq(Event) /\ raw' = Append(raw, e) /\ issues' = issues
        /\ Covered' = Covered /\ Covered \subseteq DOMAIN raw
      BY <1>3 DEF Ingest, silver, locals, Covered, TypeInv, TypeOK
  <2>2. DOMAIN raw \subseteq DOMAIN raw' /\ \A r \in DOMAIN raw : raw'[r] = raw[r]
      BY <2>1
  <2>3. \A i \in Issue : Noted(i)' = Noted(i) /\ (AssignedInOrder(i)' => AssignedInOrder(i))
      BY <2>1, <2>2 DEF Noted, AssignedInOrder
  <2>4. \A i \in Issue, n \in Name : Periods(i, n)' = Periods(i, n)
      BY <2>1 DEF Periods
  <2>5. QED
      BY <2>3, <2>4 DEF TimesInv, TimesIn
<1>4. ASSUME NEW t \in Run, Crash(t) PROVE FALSE
  <2>1. crashes' = crashes + 1 /\ crashes \in Nat
      BY <1>4, TransformerAssumption DEF Crash, TypeInv, TypeOK
  <2>2. QED
      BY <2>1
<1>5. QED
    BY <1>1, <1>2, <1>3, <1>4 DEF Next, vars, bronze, silver, locals, DiscoverProject

LEMMA TimesInvariant ==
    ASSUME OneRun
    PROVE  Spec /\ []NothingFails => [](TypeInv /\ (crashes = 0 => TimesInv))
<1>. DEFINE K == TypeInv /\ OrderInv /\ (errors = 0 => RowsInv)
            J == PrefixInv /\ (crashes = 0 => TimesInv)
<1>1. J /\ K /\ NothingFails /\ NothingFails' /\ [Next]_vars => J'
  <2>. SUFFICES ASSUME J, K, NothingFails, NothingFails', [Next]_vars PROVE J'
      OBVIOUS
  <2>1. ~DbError /\ RowsInv
      BY DEF DbError, NothingFails
  <2>2. crashes' = 0 => crashes' = crashes /\ crashes = 0
      BY CountersGrow
  <2>3. QED
      BY <2>1, <2>2, PrefixStep, TimesStep
<1>2. Init => J
    BY PrefixInit, TimesInit
<1>3. Spec /\ []NothingFails => []K
    BY RowsInvariant, OrderInvariant, PTL
<1>4. J /\ K => TypeInv /\ (crashes = 0 => TimesInv)
    OBVIOUS
<1>. HIDE DEF J, K
<1>5. QED
    BY <1>1, <1>2, <1>3, <1>4, PTL DEF Spec

\* The periods of a name stay in order (assignees.go:103-179): with one run active
\* at a time, as long as nothing fails and no run is killed, whenever the
\* assignments of the issue came once and in the order of their time.
THEOREM PeriodsStayInOrder ==
    ASSUME OneRun
    PROVE  Spec /\ []NothingFails => []PeriodsInOrder
<1>1. TypeInv /\ (crashes = 0 => TimesInv) => PeriodsInOrder
    BY DEF TimesInv, PeriodsInOrder, Periods
<1>2. QED
    BY <1>1, TimesInvariant, PTL
=============================================================================
