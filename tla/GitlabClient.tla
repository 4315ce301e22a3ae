---------------------------- MODULE GitlabClient ----------------------------
(***************************************************************************)
(* The GitLab client (internal/gitlab/client.go): one listing at a time is *)
(* fetched page by page (getPaginated), every page with bounded retries    *)
(* behind a rate limiter (doGet), while GitLab goes on changing it.        *)
(***************************************************************************)
EXTENDS Integers, Sequences, FiniteSets

CONSTANTS
    Item,            \* what is listed
    PageSize,        \* per_page
    MaxRetries,      \* the values GITLAB_RETRY_MAX may have; negative ones pass Load
    RateLimit        \* the values GITLAB_RATE_LIMIT may have; so does zero

ASSUME ClientAssumption ==
    /\ IsFiniteSet(Item)
    /\ PageSize \in Nat \ {0}
    /\ MaxRetries \subseteq Int
    /\ RateLimit \subseteq Int

Endpoint == {"list_group_projects", "list_issues", "list_label_events", "list_notes"}

VARIABLES
    endpoint,        \* what is listed
    maxRetries,      \* Client.maxRetries
    rateLimit,       \* the rate and the burst of Client.limiter
    listing,         \* GitLab: the items that match, in its order
    page,            \* getPaginated: the page to ask for, 0 outside a request
    attempt,         \* doGet: the attempt that comes next
    result,          \* getPaginated: target
    outcome,         \* "calling", or how the last request ended
    expected,        \* history: the items listed when the request began
    shifted,         \* history: an item left a page that had been fetched
    failures,        \* history: the answers in a row that did not count
    refused          \* history: an answer that no retry can better

config == <<endpoint, maxRetries, rateLimit>>
request == <<page, attempt, result, outcome>>
history == <<expected, shifted, failures, refused>>
vars == <<config, listing, request, history>>

Elements(s) == {s[k] : k \in DOMAIN s}

TypeOK ==
    /\ endpoint \in Endpoint /\ maxRetries \in MaxRetries /\ rateLimit \in RateLimit
    /\ listing \in Seq(Item) /\ result \in Seq(Item)
    /\ page \in Nat
    /\ attempt \in Nat /\ (attempt > 0 => attempt <= maxRetries + 1)
    /\ outcome \in {"none", "calling", "ok", "error"}
    /\ expected \subseteq Item
    /\ shifted \in BOOLEAN /\ failures \in Nat /\ refused \in BOOLEAN

\* Item sequences without repetition, and none of them an endless one.
Listings == UNION {{s \in [1 .. n -> Item] : \A j, k \in 1 .. n : s[j] = s[k] => j = k} :
                      n \in 0 .. Cardinality(Item)}

Init ==
    /\ endpoint \in Endpoint /\ maxRetries \in MaxRetries /\ rateLimit \in RateLimit
    /\ listing \in Listings
    /\ page = 0 /\ attempt = 0 /\ result = <<>> /\ outcome = "none"
    /\ expected = {} /\ shifted = FALSE /\ failures = 0 /\ refused = FALSE

-----------------------------------------------------------------------------
(* GitLab between two requests.                                            *)

Without(s, k) == SubSeq(s, 1, k - 1) \o SubSeq(s, k + 1, Len(s))

\* The items at positions up to here have been fetched.
Fetched == IF outcome = "calling" THEN (page - 1) * PageSize ELSE 0

\* Projects are listed newest first, everything else in ascending order.
Created(i) ==
    /\ i \notin Elements(listing) \cup Elements(result)
    /\ listing' = IF endpoint = "list_group_projects" THEN <<i>> \o listing
                                                      ELSE Append(listing, i)
    /\ UNCHANGED <<config, request, history>>

\* Another update moves an issue to the end of the listing by updated_at.
Touched(k) ==
    /\ endpoint = "list_issues"
    /\ listing' = Append(Without(listing, k), listing[k])
    /\ shifted' = (shifted \/ k <= Fetched)
    /\ UNCHANGED <<config, request, expected, failures, refused>>

\* A label event cannot be deleted; notes, issues and projects can.
Deleted(k) ==
    /\ endpoint # "list_label_events"
    /\ listing' = Without(listing, k)
    /\ expected' = expected \ {listing[k]}
    /\ shifted' = (shifted \/ k <= Fetched)
    /\ UNCHANGED <<config, request, failures, refused>>

-----------------------------------------------------------------------------
(* getPaginated.                                                           *)

Call ==
    /\ outcome # "calling"
    /\ outcome' = "calling" /\ page' = 1 /\ attempt' = 0 /\ result' = <<>>
    /\ expected' = Elements(listing) /\ shifted' = FALSE
    /\ failures' = 0 /\ refused' = FALSE
    /\ UNCHANGED <<config, listing>>

\* Every error ends the listing, and the callers drop what they got so far.
ReturnError == outcome' = "error" /\ result' = <<>> /\ page' = 0 /\ attempt' = 0

\* Mutated form: the attempts of all pages are counted together.
AskForPageNoReset(n) == page' = n /\ UNCHANGED <<attempt, outcome>>

\* The page named by x-next-page is asked for with fresh attempts.
AskForPage(n) == page' = n /\ attempt' = 0 /\ UNCHANGED outcome

PageItems == SubSeq(listing, (page - 1) * PageSize + 1,
                    IF page * PageSize < Len(listing) THEN page * PageSize ELSE Len(listing))

-----------------------------------------------------------------------------
(* doGet: one action per way an attempt ends.                              *)

\* The loop is entered and the limiter, whose Wait fails at once when the burst
\* is below one, lets the request pass.
Requesting == outcome = "calling" /\ attempt <= maxRetries /\ rateLimit >= 1

\* A whole page, and whether there is another one behind it.
ReceivePage ==
    /\ Requesting
    /\ IF page * PageSize < Len(listing)
         THEN AskForPage(page + 1)
         ELSE outcome' = "ok" /\ page' = 0 /\ attempt' = 0
    /\ result' = result \o PageItems
    /\ failures' = 0
    /\ UNCHANGED <<config, listing, expected, shifted, refused>>

\* Mutated form: the retry of a page goes back to the first one.
RetryFromStart == attempt' = attempt + 1 /\ page' = 1 /\ UNCHANGED <<result, outcome>>

\* Mutated form: the page counts as fetched although its answer was an error.
RetryNextPage == attempt' = attempt + 1 /\ page' = page + 1 /\ UNCHANGED <<result, outcome>>

\* The next attempt, after the backoff, for the same page.
Retry == attempt' = attempt + 1 /\ UNCHANGED <<page, result, outcome>>

\* No answer, half an answer, a 5xx or a 429.
Transient ==
    /\ Requesting
    /\ Retry
    /\ failures' = failures + 1
    /\ UNCHANGED <<config, listing, expected, shifted, refused>>

\* Another 4xx, or a body that is not the JSON array expected: no retry.
Refused ==
    /\ Requesting
    /\ ReturnError
    /\ refused' = TRUE
    /\ UNCHANGED <<config, listing, expected, shifted, failures>>

LimiterFails ==
    /\ outcome = "calling" /\ attempt <= maxRetries /\ rateLimit < 1
    /\ ReturnError
    /\ UNCHANGED <<config, listing, history>>

\* Mutated form: the loop of attempts is left one too late.
GiveUpLate ==
    /\ outcome = "calling" /\ attempt > maxRetries
    /\ IF attempt > maxRetries + 1 THEN ReturnError ELSE Retry
    /\ UNCHANGED <<config, listing, history>>

\* Mutated form: the loop of attempts is entered again.
TryForever ==
    /\ outcome = "calling" /\ attempt > maxRetries
    /\ attempt' = 0 /\ failures' = 0
    /\ UNCHANGED <<config, listing, page, result, outcome, expected, shifted, refused>>

\* The loop is left, before the first request when the maximum is negative.
GiveUp ==
    /\ outcome = "calling" /\ attempt > maxRetries
    /\ ReturnError
    /\ UNCHANGED <<config, listing, history>>

-----------------------------------------------------------------------------
ClientStep == ReceivePage \/ Transient \/ Refused \/ LimiterFails \/ GiveUp

GitlabStep ==
    \/ \E i \in Item : Created(i)
    \/ \E k \in DOMAIN listing : Touched(k) \/ Deleted(k)

Next == Call \/ ClientStep \/ GitlabStep

Spec == Init /\ [][Next]_vars

\* The HTTP client has a timeout, so that every attempt ends.
FairSpec == Spec /\ WF_vars(ClientStep)

-----------------------------------------------------------------------------
(* Properties.                                                             *)

\* A listing that succeeds has everything that was there when it began and was
\* not deleted, whatever is created, updated behind the page or deleted behind
\* it meanwhile, and however often pages are retried (client.go:195-224).  Only
\* an item that leaves a page already fetched makes another one slip through.
Complete == outcome = "ok" /\ ~shifted => expected \subseteq Elements(result)

\* Label events and notes, which nothing moves, come oldest first and once, on
\* all their pages; the inserts into raw_events keep that order.
OldestFirst ==
    endpoint \in {"list_label_events", "list_notes"} =>
        \A j, k \in DOMAIN result : j < k =>
            /\ result[j] # result[k]
            /\ \A m, n \in DOMAIN listing :
                listing[m] = result[j] /\ listing[n] = result[k] => m < n

\* A listing fails only for cause: an answer that no retry can better, one
\* answer after the other for the same page up to the maximum, or a
\* configuration that allows no request at all (client.go:231, 251).
ErrorIsJustified ==
    outcome = "error" => refused \/ failures > maxRetries \/ rateLimit < 1

\* The client takes the pages of a listing one by one, whatever its retries do.
Pages == INSTANCE PagedListing WITH
    Item <- Item, PageSize <- PageSize,
    listing <- listing, page <- page, result <- result, outcome <- outcome

TakesPagesInTurn == Pages!Spec

\* Every listing ends, though GitLab may answer nothing but errors.
EventuallyReturns == outcome = "calling" ~> outcome # "calling"
=============================================================================
