---------------------------- MODULE PagedListing ----------------------------
(***************************************************************************)
(* What a paginated request promises its callers, without the retries:     *)
(* the pages of a listing that goes on changing are taken one after the    *)
(* other, each of them once, until the last one is reached or the whole    *)
(* request fails.  ListIssues of Extractor.tla is written against this.    *)
(***************************************************************************)
EXTENDS Integers, Sequences

CONSTANTS
    Item,            \* what is listed
    PageSize         \* per_page

VARIABLES
    listing,         \* what GitLab has at the moment, in the order it lists
    page,            \* the page that comes next
    result,          \* the items received so far
    outcome          \* "calling", or how the last request ended

PageOf(n) == SubSeq(listing, (n - 1) * PageSize + 1,
                    IF n * PageSize < Len(listing) THEN n * PageSize ELSE Len(listing))

HasPageAfter(n) == n * PageSize < Len(listing)

Init ==
    /\ listing \in Seq(Item)
    /\ page = 0 /\ result = <<>> /\ outcome = "none"

Start ==
    /\ outcome # "calling"
    /\ outcome' = "calling" /\ page' = 1 /\ result' = <<>>
    /\ UNCHANGED listing

TakePage ==
    /\ outcome = "calling"
    /\ result' = result \o PageOf(page)
    /\ IF HasPageAfter(page)
         THEN page' = page + 1 /\ UNCHANGED outcome
         ELSE page' = 0 /\ outcome' = "ok"
    /\ UNCHANGED listing

Fail ==
    /\ outcome = "calling"
    /\ outcome' = "error" /\ page' = 0 /\ result' = <<>>
    /\ UNCHANGED listing

\* GitLab changes whatever it likes, but nothing of a request.
Change == listing' \in Seq(Item) /\ UNCHANGED <<page, result, outcome>>

Next == Start \/ TakePage \/ Fail \/ Change

Spec == Init /\ [][Next]_<<listing, page, result, outcome>>
=============================================================================
