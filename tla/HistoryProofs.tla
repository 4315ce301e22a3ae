---------------------------- MODULE HistoryProofs ----------------------------
(***************************************************************************)
(* Proofs about the assignee documents of Transformer: whatever notes are  *)
(* repeated, late or replayed, by however many runs, failures and crashes, *)
(* a document never contradicts itself.                                    *)
(***************************************************************************)
EXTENDS TransformerProofs

\* No name is assigned twice at once.
OneOpen(periods) == \A i, j \in OpenPeriods(periods) : i = j

\* handleAssigned leaves one open entry, the one that was there or a new one.
LEMMA AssignedOpensOne ==
    ASSUME NEW p \in Seq(Period), NEW at \in Nat, OneOpen(p)
    PROVE  OneOpen(AssignedPeriods(p, at)) /\ OpenPeriods(AssignedPeriods(p, at)) # {}
<1>1. CASE OpenPeriods(p) # {}
    BY <1>1 DEF AssignedPeriods
<1>2. CASE OpenPeriods(p) = {}
  <2>. DEFINE new == [assigned |-> at, unassigned |-> StillAssigned]
              q == Append(p, new)
  <2>1. AssignedPeriods(p, at) = q
      BY <1>2 DEF AssignedPeriods
  <2>2. /\ DOMAIN q = 1 .. Len(p) + 1 /\ Len(p) \in Nat
        /\ q[Len(p) + 1] = new /\ \A i \in 1 .. Len(p) : q[i] = p[i]
      OBVIOUS
  <2>3. \A i \in 1 .. Len(p) : p[i].unassigned # StillAssigned
      BY <1>2 DEF OpenPeriods
  <2>4. OpenPeriods(q) = {Len(p) + 1}
    <3>. HIDE DEF q
    <3>. QED BY <2>2, <2>3 DEF OpenPeriods
  <2>. HIDE DEF q
  <2>5. QED
      BY <2>1, <2>4 DEF OneOpen
<1>3. QED
    BY <1>1, <1>2

\* handleUnassigned leaves no open entry where there was one at most.
LEMMA UnassignedClosesAll ==
    ASSUME NEW p \in Seq(Period), NEW at \in Nat, OneOpen(p)
    PROVE  OpenPeriods(UnassignedPeriods(p, at)) = {}
<1>1. CASE OpenPeriods(p) = {}
    BY <1>1 DEF UnassignedPeriods
<1>2. CASE OpenPeriods(p) # {}
  <2>. DEFINE first == CHOOSE i \in OpenPeriods(p) : \A j \in OpenPeriods(p) : i <= j
              q == [p EXCEPT ![first].unassigned = at]
  <2>1. PICK k \in OpenPeriods(p) : \A j \in OpenPeriods(p) : j = k
      BY <1>2 DEF OneOpen
  <2>2. k \in DOMAIN p /\ k <= k
      BY <2>1 DEF OpenPeriods
  <2>3. first = k
      BY <2>1, <2>2
  <2>4. UnassignedPeriods(p, at) = q
      BY <1>2 DEF UnassignedPeriods
  <2>. HIDE DEF first
  <2>5. DOMAIN q = DOMAIN p /\ \A j \in DOMAIN p : j # k => q[j] = p[j]
      BY <2>3
  <2>6. q[k].unassigned = at
    <3>1. p[k] \in Period
        BY <2>2
    <3>2. q[k] = [p[k] EXCEPT !.unassigned = at]
        BY <2>2, <2>3
    <3>3. QED
        BY <3>1, <3>2 DEF Period
  <2>7. at # StillAssigned
      BY DEF StillAssigned
  <2>. HIDE DEF q
  <2>8. QED
      BY <2>1, <2>4, <2>5, <2>6, <2>7 DEF OpenPeriods
<1>3. QED
    BY <1>1, <1>2

\* applyAssigneeChange, for all the names of a note, keeps a document well formed.
LEMMA ApplyWellFormed ==
    ASSUME NEW h \in AssigneeHistory, WellFormedHistory(h),
           NEW as \in SUBSET Name, NEW un \in SUBSET Name, NEW at \in Nat
    PROVE  WellFormedHistory(ApplyAssigneeChanges(h, as, un, at))
<1>. DEFINE g == ApplyAssigneeChanges(h, as, un, at)
            after(n) == IF n \in as THEN AssignedPeriods(h.history[n], at) ELSE h.history[n]
<1>. SUFFICES ASSUME NEW n \in Name
              PROVE  /\ n \in g.current <=> OpenPeriods(g.history[n]) # {}
                     /\ OneOpen(g.history[n])
    BY DEF WellFormedHistory, OneOpen
<1>1. /\ h.history[n] \in Seq(Period) /\ OneOpen(h.history[n])
      /\ n \in h.current <=> OpenPeriods(h.history[n]) # {}
    BY DEF AssigneeHistory, WellFormedHistory, OneOpen
<1>2. AssignedPeriods(h.history[n], at) \in Seq(Period)
  <2>1. [assigned |-> at, unassigned |-> StillAssigned] \in Period
      BY DEF Period
  <2>2. QED
      BY <1>1, <2>1 DEF AssignedPeriods
<1>3. /\ after(n) \in Seq(Period) /\ OneOpen(after(n))
      /\ OpenPeriods(after(n)) # {} <=> (n \in as \/ n \in h.current)
    BY <1>1, <1>2, AssignedOpensOne
<1>4. /\ n \in g.current <=> (n \in h.current \/ n \in as) /\ n \notin un
      /\ g.history[n] = IF n \in un THEN UnassignedPeriods(after(n), at) ELSE after(n)
    BY DEF ApplyAssigneeChanges
<1>. HIDE DEF g, after
<1>5. CASE n \in un
  <2>1. OpenPeriods(g.history[n]) = {}
      BY <1>3, <1>4, <1>5, UnassignedClosesAll
  <2>2. QED
      BY <1>4, <1>5, <2>1 DEF OneOpen
<1>6. CASE n \notin un
    BY <1>3, <1>4, <1>6
<1>7. QED
    BY <1>5, <1>6

-----------------------------------------------------------------------------
(* What every document is in, those in the copies of the runs included:    *)
(* processAssigneeChanges starts from the document ensureIssue returned,   *)
(* which may be out of date when it writes.                                *)

DocumentsIn(W) ==
    /\ \A i \in Issue : issues[i].assignees \in W
    /\ \A t \in Run : snap[t].assignees \in W

\* The documents of W are closed under all the notes there are.
Closed(W) ==
    /\ EmptyHistory \in W
    /\ \A h \in W, e \in Event :
          ApplyAssigneeChanges(h, Captured(e.assigned), Captured(e.unassigned), e.at) \in W

\* What a run reads and writes of a document in each of its steps.
LEMMA DocumentStep ==
    ASSUME TypeInv, NEW W, Closed(W), DocumentsIn(W), NEW t \in Run, RunStep(t) \/ Crash(t)
    PROVE  DocumentsIn(W)'
<1>. DEFINE e == Current(t)
<1>0. /\ issues \in [Issue -> IssueRow] /\ snap \in [Run -> IssueRow]
      /\ \A i \in Issue : issues[i].assignees \in W
      /\ \A u \in Run : snap[u].assignees \in W
    BY DEF TypeInv, TypeOK, DocumentsIn
<1>n. NoIssue.assignees \in W
    BY DEF NoIssue, Closed
<1>s. Stub.assignees \in W
    BY <1>n DEF Stub, NoIssue
<1>e. pc[t] \notin {"idle", "list", "next"} => e \in Event /\ e.issue \in Issue
    BY CurrentTyped DEF Current, TypeInv, TypeOK
<1>r. ASSUME NEW u \in Run, EndRun(u) \/ EndEvent(u)
      PROVE  \A v \in Run : snap'[v].assignees \in W
    BY <1>0, <1>n, <1>r DEF EndRun, EndEvent
<1>. HIDE DEF e
<1>. SUFFICES /\ \A i \in Issue : issues'[i].assignees \in W
              /\ \A u \in Run : snap'[u].assignees \in W
    BY DEF DocumentsIn
<1>. USE DEF silver, Succeed, Fail
<1>1. CASE StartRun(t) \/ ListBatch(t) \/ TransformEvent(t) \/ FinishBatch(t)
  <2>1. issues' = issues /\ (snap' = snap \/ EndRun(t))
      BY <1>1 DEF StartRun, ListBatch, TransformEvent, FinishBatch
  <2>2. QED
      BY <1>0, <1>r, <2>1
<1>2. CASE LookupIssue(t)
  <2>1. issues' = issues /\ pc[t] = "lookup"
        /\ snap' \in {snap, [snap EXCEPT ![t] = issues[e.issue]]}
      BY <1>2 DEF LookupIssue, e
  <2>2. QED
      BY <1>0, <1>e, <2>1
<1>3. CASE CreateIssue(t)
  <2>1. pc[t] = "create" /\ issues' \in {issues, [issues EXCEPT ![e.issue] = Stub]}
        /\ (snap' = [snap EXCEPT ![t] = Stub] \/ EndEvent(t))
      BY <1>3 DEF CreateIssue, e
  <2>2. QED
      BY <1>0, <1>s, <1>r, <2>1
<1>4. CASE ReadLastEvent(t) \/ InsertEvent(t) \/ InsertComment(t)
  <2>1. issues' = issues /\ (snap' = snap \/ EndEvent(t))
      BY <1>4 DEF ReadLastEvent, InsertEvent, InsertComment
  <2>2. QED
      BY <1>0, <1>r, <2>1
<1>5. CASE UpdateCache(t) \/ WriteMetadata(t)
  <2>1. PICK x, y : issues' \in {issues, [issues EXCEPT ![e.issue].state = x],
                                 [issues EXCEPT ![e.issue].metadata = y]}
      BY <1>5 DEF UpdateCache, WriteMetadata, e
  <2>2. EndEvent(t)
      BY <1>5 DEF UpdateCache, WriteMetadata
  <2>3. \A i \in Issue : issues'[i].assignees = issues[i].assignees
      BY <1>0, <2>1 DEF IssueRow
  <2>4. QED
      BY <1>0, <1>r, <2>2, <2>3
<1>6. CASE ReadMetadata(t)
  <2>1. issues' = issues /\ pc[t] = "readmeta"
        /\ (snap' = [snap EXCEPT ![t] = issues[e.issue]] \/ EndEvent(t))
      BY <1>6 DEF ReadMetadata, e
  <2>2. QED
      BY <1>0, <1>e, <1>r, <2>1
<1>7. CASE UpdateAssignees(t)
  <2>. DEFINE changed == ApplyAssigneeChanges(snap[t].assignees,
                             Captured(e.assigned), Captured(e.unassigned), e.at)
  <2>1. pc[t] = "assign" /\ EndEvent(t)
        /\ issues' \in {issues, [issues EXCEPT ![e.issue].assignees = changed]}
      BY <1>7 DEF UpdateAssignees, e
  <2>2. changed \in W
      BY <1>0, <1>e, <2>1 DEF Closed
  <2>. HIDE DEF changed
  <2>3. \A i \in Issue : issues'[i].assignees \in {issues[i].assignees, changed}
      BY <1>0, <2>1 DEF IssueRow
  <2>4. QED
      BY <1>0, <1>r, <2>1, <2>2, <2>3
<1>8. CASE Crash(t)
    BY <1>0, <1>r, <1>8 DEF Crash
<1>9. QED
    BY <1>1, <1>2, <1>3, <1>4, <1>5, <1>6, <1>7, <1>8 DEF RunStep

LEMMA DocumentsKept ==
    ASSUME NEW W, Closed(W)
    PROVE  /\ Init => DocumentsIn(W)
           /\ TypeInv /\ DocumentsIn(W) /\ [Next]_vars => DocumentsIn(W)'
<1>1. Init => DocumentsIn(W)
    BY DEF Init, DocumentsIn, Closed, NoIssue
<1>2. ASSUME TypeInv, DocumentsIn(W), [Next]_vars PROVE DocumentsIn(W)'
  <2>1. CASE UNCHANGED <<issues, snap>>
      BY <1>2, <2>1 DEF DocumentsIn
  <2>2. CASE \E t \in Run : RunStep(t) \/ Crash(t)
      BY <1>2, <2>2, DocumentStep
  <2>3. QED
      BY <1>2, <2>1, <2>2 DEF Next, vars, silver, locals, Ingest, DiscoverProject
<1>3. QED
    BY <1>1, <1>2

-----------------------------------------------------------------------------
DocumentsInv ==
    /\ HistoriesWellFormed
    /\ \A t \in Run : WellFormedHistory(snap[t].assignees)

LEMMA DocumentsInvariant == Spec => []DocumentsInv
<1>. DEFINE W == {h \in AssigneeHistory : WellFormedHistory(h)}
<1>1. EmptyHistory \in W
    BY DEF EmptyHistory, AssigneeHistory, WellFormedHistory, OpenPeriods
<1>2. ASSUME NEW h \in W, NEW e \in Event
      PROVE  ApplyAssigneeChanges(h, Captured(e.assigned), Captured(e.unassigned), e.at) \in W
  <2>1. e \in EventRecord
      BY EventAssumption
  <2>2. /\ e.at \in Nat /\ Captured(e.assigned) \in SUBSET Name
        /\ Captured(e.unassigned) \in SUBSET Name
      BY <2>1, CapturedTyped DEF EventRecord
  <2>3. QED
      BY <2>2, ApplyTyped, ApplyWellFormed
<1>3. Closed(W)
    BY <1>1, <1>2 DEF Closed
<1>. HIDE DEF W
<1>4. DocumentsIn(W) => DocumentsInv
    BY DEF W, DocumentsIn, DocumentsInv, HistoriesWellFormed
<1>5. /\ Init => DocumentsIn(W)
      /\ TypeInv /\ DocumentsIn(W) /\ [Next]_vars => DocumentsIn(W)'
    BY <1>3, DocumentsKept
<1>6. QED
    BY <1>4, <1>5, TypeInvariant, PTL DEF Spec

\* Every assignee document is well formed at any time (assignees.go:103-179): a
\* name has one open period at most, and the current assignees are the names
\* that have one; also when a run overwrites a document with one computed from
\* an older copy.
THEOREM DocumentsStayWellFormed == Spec => []HistoriesWellFormed
<1>1. DocumentsInv => HistoriesWellFormed
    BY DEF DocumentsInv
<1>2. QED
    BY <1>1, DocumentsInvariant, PTL
=============================================================================
