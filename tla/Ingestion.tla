------------------------------ MODULE Ingestion ------------------------------
(***************************************************************************)
(* Discovery and extraction together: discovery makes the rows of a        *)
(* project while cycles of the extractor read and move their cursors.      *)
(* They run in different goroutines, or in the worker and the backfill.    *)
(***************************************************************************)
EXTENDS Extractor, Discovery

vars == <<projectTables, setbacks, extractorVars, discoveryVars>>

TypeOK == TablesTypeOK /\ ExtractorTypeOK /\ DiscoveryTypeOK

Init == TablesInit /\ ExtractorInit /\ DiscoveryInit

Next ==
    \/ ExtractorNext /\ UNCHANGED discoveryVars
    \/ DiscoveryNext /\ UNCHANGED extractorVars

Spec == Init /\ [][Next]_vars

\* Cron goes on ticking for both jobs, and a started one goes on (every request
\* has a timeout and a bounded number of retries, no lock is held in between).
FairSpec ==
    /\ Spec
    /\ WF_vars(Tick /\ UNCHANGED discoveryVars)
    /\ \A c \in Cycle : WF_vars(CycleStep(c) /\ UNCHANGED discoveryVars)
    /\ \A d \in Pass : WF_vars(PassStep(d) /\ UNCHANGED extractorVars)

-----------------------------------------------------------------------------
(* Properties.                                                             *)

InBronze(e) == \E k \in DOMAIN raw : raw[k] = e

\* Whatever happened in p before time t is in Bronze, unless its issue was
\* passed over.
Covered(p, t) ==
    \A e \in present :
        ProjectOf[e.issue] = p /\ updatedAt[e.issue] < t
            => InBronze(e) \/ e.issue \in missed

\* Nothing falls behind a cursor: an event is in Bronze, or its issue will be
\* listed again, because the cursor is the time before the first request and
\* not of the last insert (extractor.go:82, 124).  For both tables, although
\* overlapping cycles write older cursors over newer ones and discovery writes
\* back a Silver cursor it read before (discovery/service.go:166-191).
NothingBehindCursor ==
    \A p \in Project : Covered(p, rawCursor[p]) /\ Covered(p, silverCursor[p])

\* What the roadmap promises of the cursor ("Atualiza cursor somente apos
\* persistencia confirmada"): the same without the exception for the issues
\* whose requests or inserts failed.
CursorAfterPersistence ==
    \A e \in present :
        InBronze(e) \/ rawCursor[ProjectOf[e.issue]] <= updatedAt[e.issue]

\* The order the transformer relies on: the first row of an event comes after
\* rows of all earlier events of its issue and type, although overlapping
\* cycles insert their copies of the history side by side.
ArrivesInOrder ==
    \A k \in DOMAIN raw : \A f \in Event :
        Earlier(f, raw[k]) /\ f.issue \notin missed => \E j \in 1 .. k - 1 : raw[j] = f

\* Silver never claims less than Bronze, so that a project with both rows is
\* not reported as behind: the upsert of discovery does not take a cursor back
\* that a cycle has moved since discovery read it (projects.sql:6).
SilverNotBehindBronze ==
    \A p \in rawProjects \cap projects : rawCursor[p] <= silverCursor[p]

\* What happens in GitLab reaches Bronze: discovery makes the rows, in spite of
\* failures and kills, and a cycle that comes later extracts the event.
EventuallyIngested ==
    \A e \in Event : (e \in present) ~> (InBronze(e) \/ e.issue \in missed)
=============================================================================
