-------------------------------- MODULE Gold --------------------------------
(***************************************************************************)
(* The hours an assignee has worked on an issue: the Gold view             *)
(* vw_assignee_cycle_time (migration 000017) and the reports that sum it   *)
(* up (internal/repository/assignee_performance.sql.go), as functions of   *)
(* the Silver tables the transformer writes.                               *)
(*                                                                         *)
(* A nullable number is a set with the number, or Null.  Time comes in     *)
(* units of the model; the columns of the view are rounded to hundredths   *)
(* of an hour, in which the reports count.                                 *)
(***************************************************************************)
EXTENDS Transformer, FiniteSetsExt

CONSTANTS
    Now,         \* NOW() of the query
    Hundredth    \* how many units of time make 0.01 hours

ASSUME GoldAssumption ==
    /\ Now \in Nat /\ \A e \in Event : e.at < Now
    /\ Hundredth \in Nat \ {0}

Null == {}

Coalesce(x) == IF x = Null THEN 0 ELSE CHOOSE v \in x : TRUE

\* SUM over a column, a function from rows to values; it passes over NULLs.
SumOf(column) ==
    LET valued == {x \in DOMAIN column : column[x] # Null}
    IN  IF valued = {} THEN Null
          ELSE {MapThenSumSet(LAMBDA x : Coalesce(column[x]), valued)}

-----------------------------------------------------------------------------
(* vw_assignee_cycle_time.                                                 *)

\* assignee_periods: an open period ends with the first DONE that follows, even
\* one that is noise, or else now.
EndOf(i, period) ==
    IF period.unassigned # StillAssigned THEN period.unassigned
      ELSE Min({Now} \cup
               {events[k].at : k \in {k \in DOMAIN events :
                   /\ events[k].issue = i /\ events[k].state = "DONE"
                   /\ period.assigned < events[k].at}})

\* The transitions of an issue that are not noise.
Transitions(i) == {k \in DOMAIN events : events[k].issue = i /\ ~events[k].noise}

\* Those the LEFT JOIN finds for a period.
EventsIn(i, period) ==
    LET end == EndOf(i, period)
    IN  {k \in Transitions(i) : period.assigned <= events[k].at /\ events[k].at < end}

NoEventRow == 0

\* state_during_assignee: each period with each of its events, or with NULLs.
Rows(i, n) ==
    LET periods == issues[i].assignees.history[n]
        RowsOf(j) ==
            LET found == EventsIn(i, periods[j])
            IN  [nth : {j}, event : IF found = {} THEN {NoEventRow} ELSE found,
                 assigned : {periods[j].assigned}, end : {EndOf(i, periods[j])}]
    IN  UNION {RowsOf(j) : j \in DOMAIN periods}

StateOf(r) == IF r.event = NoEventRow THEN None ELSE events[r.event].state

\* The order of the window; among equal times the database chooses, here the
\* order of insertion.  NULLs come last.
Follows(q, r) ==
    /\ q.event # NoEventRow /\ r.event # NoEventRow
    /\ \/ events[r.event].at < events[q.event].at
       \/ /\ events[r.event].at = events[q.event].at
          /\ r.event < q.event \/ (r.event = q.event /\ r.nth < q.nth)

\* LEAD: the time of the row that follows among all rows of the name, whichever
\* their period.  A row that NULLs or nothing follows gets the end of its period.
NextChange(rows, r) ==
    LET following == {q \in rows : Follows(q, r)}
    IN  IF following = {} THEN r.end ELSE Min({events[q.event].at : q \in following})

\* GREATEST passes over the NULL of a row without an event.
BeginOf(r) ==
    IF r.event # NoEventRow /\ r.assigned < events[r.event].at
      THEN events[r.event].at ELSE r.assigned

\* Mutated form: the next change counts although the period has ended.
HoursOfUnbounded(rows, r) == NextChange(rows, r) - BeginOf(r)

\* LEAST and GREATEST keep the hours of a row within its period.
HoursOf(rows, r) == Min({NextChange(rows, r), r.end}) - BeginOf(r)

\* time_by_state, for a set of states.
HoursIn(rows, states) ==
    SumOf([r \in {q \in rows : StateOf(q) \in states} |-> {HoursOf(rows, r)}])

Active == {"IN_PROGRESS", "QA_REVIEW"}

\* ROUND to two decimals: to the nearest hundredth, from the middle away from 0.
Round(x) ==
    LET nearest(y) == (2 * y + Hundredth) \div (2 * Hundredth)
    IN  IF x < 0 THEN -nearest(-x) ELSE nearest(x)

\* ROUND of a nullable number; of NULL it is NULL.
Rounded(x) == {Round(v) : v \in x}

\* A row of the view; each column is rounded by itself.
CycleTime(i, n) ==
    LET rows == Rows(i, n)
        hours(states) == Rounded(HoursIn(rows, states))
    IN  [issue |-> i, assignee |-> n,
         active |-> hours(Active),
         inProgress |-> hours({"IN_PROGRESS"}),
         qaReview |-> hours({"QA_REVIEW"}),
         total |-> hours(CanonicalState \cup {None}),
         contributed |-> Coalesce(HoursIn(rows, Active)) > 0]

-----------------------------------------------------------------------------
(* The reports of a project: one row per name, from the name's view rows.  *)
(* To round a sum of hundredths once more changes nothing.                 *)

\* The rows of the view for project p.
ViewOf(p) ==
    {CycleTime(x[1], x[2]) :
        x \in {x \in Issue \X Name : ProjectOf[x[1]] = p /\ Rows(x[1], x[2]) # {}}}

AssigneeCycleTimeByProject(rows) ==
    [issues |-> Cardinality(rows),
     active |-> SumOf([v \in rows |-> v.active]),
     dev |-> SumOf([v \in rows |-> v.inProgress]),
     qa |-> SumOf([v \in rows |-> v.qaReview])]

\* Mutated form: without COALESCE, an issue without active hours has no wait.
WaitHoursNoCoalesce(v) ==
    IF v.active = Null THEN Null ELSE {Coalesce(v.total) - Coalesce(v.active)}

\* The total of a row is never NULL.
WaitHours(v) == {Coalesce(v.total) - Coalesce(v.active)}

AssigneeWorkDistribution(rows) ==
    [active |-> SumOf([v \in rows |-> v.active]), wait |-> SumOf([v \in rows |-> WaitHours(v)])]

\* vw_individual_performance_metrics.
IndividualPerformanceMetrics(rows) ==
    [issuesContributed |-> Cardinality({v \in rows : v.contributed}),
     totalActive |-> SumOf([v \in rows |-> v.active]),
     totalHours |-> SumOf([v \in rows |-> v.total])]

-----------------------------------------------------------------------------
(* Properties.                                                             *)

\* The periods of a name follow each other in time: what the notes of an issue
\* give when they are transformed in the order of their time.
Chronological(i, n) ==
    LET periods == issues[i].assignees.history[n]
    IN  /\ \A j \in DOMAIN periods : periods[j].assigned <= EndOf(i, periods[j])
        /\ \A j, k \in DOMAIN periods : j < k => EndOf(i, periods[j]) <= periods[k].assigned

\* The state at moment m according to the transitions in K; of those at the same
\* time the one inserted last.
StateAt(K, m) ==
    LET before == {k \in K : events[k].at <= m}
    IN  IF before = {} THEN None
          ELSE events[CHOOSE k \in before : \A j \in before :
                        \/ events[j].at < events[k].at
                        \/ events[j].at = events[k].at /\ j <= k].state

AssignedAt(i, period, m) == period.assigned <= m /\ m < EndOf(i, period)

\* The moments of the periods of a name from a transition within them on.
Counted(i, n) ==
    LET periods == issues[i].assignees.history[n]
        CountedOf(j) == UNION {events[k].at .. EndOf(i, periods[j]) - 1 :
                                  k \in EventsIn(i, periods[j])}
    IN  UNION {CountedOf(j) : j \in DOMAIN periods}

\* "Active Work: Time in IN_PROGRESS + QA_REVIEW during assignment"
\* (DATA_CONTRACT.md:191): before they are rounded, the active hours of a name are
\* the time for which it was assigned while the issue was in one of these states.
ActiveWorkIsCredited ==
    \A i \in Issue, n \in Name : Chronological(i, n) =>
        LET periods == issues[i].assignees.history[n]
        IN  Coalesce(HoursIn(Rows(i, n), Active))
              = Cardinality({m \in 0 .. Now - 1 :
                    /\ StateAt(Transitions(i), m) \in Active
                    /\ \E j \in DOMAIN periods : AssignedAt(i, periods[j], m)})

\* What the view counts of that: however the periods of a name and the transitions
\* of the issue interleave, the hours per state measure the moments at which the
\* name was assigned and the issue was in that state, less those of each period
\* before the issue first moved in it; nothing is counted twice, or outside a
\* period, or for a state the issue had left (000017 up.sql:44-67).
CycleTimeIsTimeInState ==
    \A i \in Issue, n \in Name : Chronological(i, n) =>
        LET rows == Rows(i, n)
            path == Transitions(i)
            counted == Counted(i, n)
        IN  \A s \in CanonicalState :
              Coalesce(HoursIn(rows, {s})) = Cardinality({m \in counted : StateAt(path, m) = s})

\* The reports of a project tell one story of each name, although each treats NULL
\* in its own way and the columns are rounded one by one: active and wait hours of
\* the distribution make up the total of the metrics; development and QA hours miss
\* the active ones by one hundredth per issue at most; and who has active hours has
\* contributed to an issue (000017 up.sql:74-87, assignee_performance.sql.go:97-157).
ReportsAgree ==
    \A p \in Project : LET view == ViewOf(p) IN \A n \in Name :
        LET rows == {v \in view : v.assignee = n}
            byProject == AssigneeCycleTimeByProject(rows)
            distribution == AssigneeWorkDistribution(rows)
            metrics == IndividualPerformanceMetrics(rows)
        IN  /\ Coalesce(distribution.active) + Coalesce(distribution.wait)
                 = Coalesce(metrics.totalHours)
            /\ Coalesce(byProject.dev) + Coalesce(byProject.qa) - Coalesce(metrics.totalActive)
                 \in -byProject.issues .. byProject.issues
            /\ Coalesce(metrics.totalActive) > 0 => metrics.issuesContributed > 0
=============================================================================
