------------------------- MODULE GitlabClientProofs -------------------------
(***************************************************************************)
(* Proofs about GitlabClient, for every page size, rate, maximum of        *)
(* retries and every finite set of items.                                  *)
(***************************************************************************)
EXTENDS GitlabClient, SequenceTheorems, FiniteSetTheorems, TLAPS

-----------------------------------------------------------------------------
(* Listings and pages.                                                     *)

\* A listing without its item at k: what follows moves up by one.
LEMMA WithoutProperties ==
    ASSUME NEW S, NEW s \in Seq(S), NEW k \in 1 .. Len(s)
    PROVE  /\ Without(s, k) \in Seq(S)
           /\ Len(Without(s, k)) = Len(s) - 1
           /\ \A j \in 1 .. Len(s) - 1 :
                Without(s, k)[j] = IF j < k THEN s[j] ELSE s[j + 1]
<1>. DEFINE head == SubSeq(s, 1, k - 1)
            tail == SubSeq(s, k + 1, Len(s))
<1>1. Len(s) \in Nat /\ k \in Int /\ \A i \in 1 .. Len(s) : s[i] \in S
    BY LenProperties, ElementOfSeq
<1>2. /\ head \in Seq(S) /\ Len(head) = k - 1
      /\ \A i \in 1 .. k - 1 : head[i] = s[i]
  <2>1. \A i \in 1 .. k - 1 : s[i] \in S
      BY <1>1
  <2>2. /\ head \in Seq(S)
        /\ Len(head) = IF 1 <= k - 1 THEN (k - 1) - 1 + 1 ELSE 0
        /\ \A i \in 1 .. (k - 1) - 1 + 1 : head[i] = s[1 + i - 1]
      BY <1>1, <2>1, SubSeqProperties
  <2>3. QED
      BY <1>1, <2>2
<1>3. /\ tail \in Seq(S) /\ Len(tail) = Len(s) - k
      /\ \A i \in 1 .. Len(s) - k : tail[i] = s[k + i]
  <2>1. \A i \in k + 1 .. Len(s) : s[i] \in S
      BY <1>1
  <2>2. /\ tail \in Seq(S)
        /\ Len(tail) = IF k + 1 <= Len(s) THEN Len(s) - (k + 1) + 1 ELSE 0
        /\ \A i \in 1 .. Len(s) - (k + 1) + 1 : tail[i] = s[(k + 1) + i - 1]
      BY <1>1, <2>1, SubSeqProperties
  <2>3. QED
      BY <1>1, <2>2
<1>. HIDE DEF head, tail
<1>4. /\ head \o tail \in Seq(S)
      /\ Len(head \o tail) = Len(head) + Len(tail)
      /\ \A i \in 1 .. Len(head) + Len(tail) :
           (head \o tail)[i] = IF i <= Len(head) THEN head[i] ELSE tail[i - Len(head)]
    BY <1>2, <1>3, ConcatProperties
<1>5. Without(s, k) = head \o tail
    BY DEF Without, head, tail
<1>6. ASSUME NEW j \in 1 .. Len(s) - 1
      PROVE  (head \o tail)[j] = IF j < k THEN s[j] ELSE s[j + 1]
  <2>1. CASE j < k
      BY <1>1, <1>2, <1>3, <1>4, <2>1
  <2>2. CASE k <= j
    <3>1. j - (k - 1) \in 1 .. Len(s) - k
        BY <1>1, <2>2
    <3>2. tail[j - (k - 1)] = s[k + (j - (k - 1))]
        BY <1>3, <3>1
    <3>3. QED
        BY <1>1, <1>2, <1>3, <1>4, <2>2, <3>2
  <2>3. j < k \/ k <= j
      BY <1>1
  <2>4. QED
      BY <2>1, <2>2, <2>3
<1>7. Len(head \o tail) = Len(s) - 1
    BY <1>1, <1>2, <1>3, <1>4
<1>. HIDE DEF Without
<1>8. QED
    BY <1>4, <1>5, <1>6, <1>7

\* What is listed first is a finite sequence of items.
LEMMA ListingsTyped == Listings \subseteq Seq(Item)
<1>1. Cardinality(Item) \in Nat
    BY ClientAssumption, FS_CardinalityType
<1>2. ASSUME NEW n \in 0 .. Cardinality(Item), NEW s \in [1 .. n -> Item]
      PROVE  s \in Seq(Item)
    BY <1>1, <1>2, SeqDef
<1>3. QED
    BY <1>2 DEF Listings

\* The items of a page are those of the listing at its positions.
LEMMA PageItemsTyped ==
    ASSUME TypeOK, page >= 1
    PROVE  /\ PageItems \in Seq(Item)
           /\ \A i \in DOMAIN PageItems :
                /\ (page - 1) * PageSize + i \in DOMAIN listing
                /\ (page - 1) * PageSize + i <= page * PageSize
                /\ PageItems[i] = listing[(page - 1) * PageSize + i]
           /\ \A k \in DOMAIN listing :
                (page - 1) * PageSize < k /\ k <= page * PageSize
                    => listing[k] \in Elements(PageItems)
<1>. DEFINE first == (page - 1) * PageSize + 1
            last == IF page * PageSize < Len(listing) THEN page * PageSize ELSE Len(listing)
<1>1. /\ listing \in Seq(Item) /\ Len(listing) \in Nat /\ DOMAIN listing = 1 .. Len(listing)
      /\ page \in Nat /\ PageSize \in Nat \ {0}
    BY ClientAssumption, LenProperties DEF TypeOK
<1>2. (page - 1) * PageSize \in Nat /\ page * PageSize \in Nat
    BY <1>1
<1>3. first \in Int /\ last \in Int /\ 1 <= first /\ last <= Len(listing)
    BY <1>1, <1>2
<1>4. \A i \in first .. last : listing[i] \in Item
    BY <1>1, <1>3, ElementOfSeq
<1>5. PageItems = SubSeq(listing, first, last)
    BY DEF PageItems
<1>. HIDE DEF first, last
<1>6. /\ PageItems \in Seq(Item)
      /\ Len(PageItems) = IF first <= last THEN last - first + 1 ELSE 0
      /\ \A i \in 1 .. last - first + 1 : PageItems[i] = listing[first + i - 1]
    BY <1>3, <1>4, <1>5, SubSeqProperties
<1>7. ASSUME NEW k \in DOMAIN listing, first <= k, k <= last
      PROVE  listing[k] \in Elements(PageItems)
  <2>1. k - first + 1 \in 1 .. last - first + 1
      BY <1>1, <1>3, <1>7
  <2>2. PageItems[k - first + 1] = listing[k]
      BY <1>1, <1>3, <1>6, <2>1
  <2>3. k - first + 1 \in DOMAIN PageItems
      BY <1>3, <1>6, <1>7, <2>1, LenProperties
  <2>4. QED
      BY <2>2, <2>3 DEF Elements
<1>8. ASSUME NEW k \in DOMAIN listing, (page - 1) * PageSize < k, k <= page * PageSize
      PROVE  first <= k /\ k <= last
    BY <1>1, <1>2, <1>8 DEF first, last
<1>9. ASSUME NEW i \in DOMAIN PageItems
      PROVE  /\ (page - 1) * PageSize + i \in DOMAIN listing
             /\ (page - 1) * PageSize + i <= page * PageSize
             /\ PageItems[i] = listing[(page - 1) * PageSize + i]
  <2>1. i \in 1 .. last - first + 1
      BY <1>3, <1>6, LenProperties
  <2>2. first + i - 1 \in 1 .. Len(listing) /\ first + i - 1 <= last
      BY <1>1, <1>3, <2>1
  <2>3. first + i - 1 = (page - 1) * PageSize + i /\ last <= page * PageSize
      BY <1>1, <1>2, <2>1 DEF first, last
  <2>4. first + i - 1 <= page * PageSize
      BY <1>1, <1>2, <1>3, <2>1, <2>2, <2>3
  <2>5. PageItems[i] = listing[first + i - 1] /\ first + i - 1 \in DOMAIN listing
      BY <1>1, <1>6, <2>1, <2>2
  <2>6. QED
      BY <2>3, <2>4, <2>5
<1>10. QED
    BY <1>6, <1>7, <1>8, <1>9

\* The elements of a sequence over S are in S.
LEMMA ElementsTyped ==
    ASSUME NEW S, NEW s \in Seq(S)
    PROVE  Elements(s) \subseteq S
BY LenProperties, ElementOfSeq DEF Elements

\* A concatenation has the elements of both.
LEMMA ElementsOfConcat ==
    ASSUME NEW S, NEW s \in Seq(S), NEW t \in Seq(S)
    PROVE  Elements(s) \cup Elements(t) \subseteq Elements(s \o t)
<1>1. /\ s \o t \in Seq(S) /\ Len(s \o t) = Len(s) + Len(t)
      /\ \A i \in 1 .. Len(s) + Len(t) :
           (s \o t)[i] = IF i <= Len(s) THEN s[i] ELSE t[i - Len(s)]
    BY ConcatProperties
<1>2. /\ DOMAIN s = 1 .. Len(s) /\ DOMAIN t = 1 .. Len(t) /\ Len(s) \in Nat /\ Len(t) \in Nat
      /\ DOMAIN (s \o t) = 1 .. Len(s) + Len(t)
    BY <1>1, LenProperties
<1>3. ASSUME NEW i \in DOMAIN s
      PROVE  i \in DOMAIN (s \o t) /\ (s \o t)[i] = s[i]
    BY <1>1, <1>2
<1>4. ASSUME NEW i \in DOMAIN t
      PROVE  i + Len(s) \in DOMAIN (s \o t) /\ (s \o t)[i + Len(s)] = t[i]
  <2>1. /\ i + Len(s) \in 1 .. Len(s) + Len(t) /\ ~(i + Len(s) <= Len(s))
        /\ (i + Len(s)) - Len(s) = i
      BY <1>2
  <2>2. QED
      BY <1>1, <1>2, <2>1
<1>5. QED
    BY <1>3, <1>4 DEF Elements

-----------------------------------------------------------------------------
(* Types.                                                                  *)

\* While a request is under way there is a page to ask for.
TypeInv == TypeOK /\ (outcome = "calling" => page >= 1)

LEMMA TypeInit == Init => TypeInv
<1>1. ASSUME Init PROVE TypeInv
  <2>1. listing \in Seq(Item)
      BY <1>1, ListingsTyped DEF Init
  <2>2. shifted \in BOOLEAN /\ refused \in BOOLEAN
      BY <1>1 DEF Init
  <2>3. QED
      BY <1>1, <2>1, <2>2, EmptySeq DEF Init, TypeInv, TypeOK
<1>2. QED
    BY <1>1

LEMMA TypeStep == TypeInv /\ [Next]_vars => TypeInv'
<1>. SUFFICES ASSUME TypeInv, [Next]_vars PROVE TypeInv'
    OBVIOUS
<1>0. /\ listing \in Seq(Item) /\ result \in Seq(Item) /\ page \in Nat /\ attempt \in Nat
      /\ maxRetries \in Int /\ rateLimit \in Int /\ PageSize \in Nat \ {0}
      /\ Len(listing) \in Nat /\ DOMAIN listing = 1 .. Len(listing)
    BY ClientAssumption, LenProperties DEF TypeInv, TypeOK
<1>1. CASE Call
  <2>1. Elements(listing) \subseteq Item
      BY <1>0, ElementsTyped
  <2>2. shifted' \in BOOLEAN /\ refused' \in BOOLEAN
      BY <1>1 DEF Call
  <2>3. QED
      BY <1>1, <2>1, <2>2, EmptySeq DEF Call, TypeInv, TypeOK, config
<1>2. CASE ReceivePage
  <2>1. page >= 1
      BY <1>2 DEF ReceivePage, Requesting, TypeInv
  <2>2. PageItems \in Seq(Item)
      BY <2>1, PageItemsTyped DEF TypeInv
  <2>3. result \o PageItems \in Seq(Item)
      BY <1>0, <2>2, ConcatProperties
  <2>4. page' \in Nat /\ (outcome' = "calling" => page' >= 1) /\ attempt' = 0
        /\ outcome' \in {"calling", "ok"}
      BY <1>0, <1>2, <2>1 DEF ReceivePage, Requesting, AskForPage
  <2>5. QED
      BY <1>2, <2>3, <2>4 DEF ReceivePage, TypeInv, TypeOK, config
<1>3. CASE Transient
    BY <1>0, <1>3 DEF Transient, Requesting, Retry, TypeInv, TypeOK, config
<1>4. CASE Refused
    BY <1>0, <1>4 DEF Refused, ReturnError, TypeInv, TypeOK, config
<1>5. CASE LimiterFails
    BY <1>0, <1>5 DEF LimiterFails, ReturnError, TypeInv, TypeOK, config, history
<1>6. CASE GiveUp
    BY <1>0, <1>6 DEF GiveUp, ReturnError, TypeInv, TypeOK, config, history
<1>7. ASSUME NEW i \in Item, Created(i) PROVE TypeInv'
  <2>1. <<i>> \o listing \in Seq(Item)
      BY <1>0, ConcatProperties
  <2>2. listing' \in Seq(Item)
      BY <1>0, <1>7, <2>1, AppendProperties DEF Created
  <2>3. QED
      BY <1>7, <2>2 DEF Created, TypeInv, TypeOK, config, request, history
<1>8. ASSUME NEW k \in DOMAIN listing, Touched(k) PROVE TypeInv'
  <2>1. Without(listing, k) \in Seq(Item) /\ listing[k] \in Item
      BY <1>0, WithoutProperties, ElementOfSeq
  <2>2. listing' \in Seq(Item)
      BY <1>8, <2>1, AppendProperties DEF Touched
  <2>3. shifted' \in BOOLEAN
      BY <1>8 DEF Touched, TypeInv, TypeOK
  <2>4. QED
      BY <1>8, <2>2, <2>3 DEF Touched, TypeInv, TypeOK, config, request
<1>9. ASSUME NEW k \in DOMAIN listing, Deleted(k) PROVE TypeInv'
  <2>1. listing' \in Seq(Item)
      BY <1>0, <1>9, WithoutProperties DEF Deleted
  <2>2. shifted' \in BOOLEAN /\ expected' \subseteq Item
      BY <1>9 DEF Deleted, TypeInv, TypeOK
  <2>3. QED
      BY <1>9, <2>1, <2>2 DEF Deleted, TypeInv, TypeOK, config, request
<1>10. CASE UNCHANGED vars
    BY <1>10 DEF vars, config, request, history, TypeInv, TypeOK
<1>11. QED
    BY <1>1, <1>2, <1>3, <1>4, <1>5, <1>6, <1>7, <1>8, <1>9, <1>10
       DEF Next, ClientStep, GitlabStep

LEMMA TypeInvariant == Spec => []TypeInv
BY TypeInit, TypeStep, PTL DEF Spec

\* No attempt goes beyond the maximum, and pages and results stay what doGet and
\* getPaginated (client.go:197-298) take them for.
THEOREM TypeCorrect == Spec => []TypeOK
<1>1. TypeInv => TypeOK
    BY DEF TypeInv
<1>2. QED
    BY <1>1, TypeInvariant, PTL

-----------------------------------------------------------------------------
(* A listing fails for cause.                                              *)

\* Every attempt but the first follows an answer that did not count.
ErrorInv ==
    /\ outcome = "calling" => failures >= attempt
    /\ ErrorIsJustified

LEMMA ErrorStep == TypeInv /\ ErrorInv /\ [Next]_vars => ErrorInv'
<1>. SUFFICES ASSUME TypeInv, ErrorInv, [Next]_vars PROVE ErrorInv'
    OBVIOUS
<1>0. attempt \in Nat /\ failures \in Nat /\ maxRetries \in Int /\ rateLimit \in Int
    BY ClientAssumption DEF TypeInv, TypeOK
<1>1. CASE Call
    BY <1>0, <1>1 DEF Call, ErrorInv, ErrorIsJustified, config
<1>2. CASE ReceivePage
    BY <1>0, <1>2 DEF ReceivePage, Requesting, AskForPage, ErrorInv, ErrorIsJustified, config
<1>3. CASE Transient
    BY <1>0, <1>3 DEF Transient, Requesting, Retry, ErrorInv, ErrorIsJustified, config
<1>4. CASE Refused
    BY <1>4 DEF Refused, ReturnError, ErrorInv, ErrorIsJustified, config
<1>5. CASE LimiterFails
    BY <1>5 DEF LimiterFails, ReturnError, ErrorInv, ErrorIsJustified, config
<1>6. CASE GiveUp
    BY <1>0, <1>6 DEF GiveUp, ReturnError, ErrorInv, ErrorIsJustified, config, history
<1>7. CASE GitlabStep \/ UNCHANGED vars
    BY <1>7 DEF GitlabStep, Created, Touched, Deleted, vars, config, request, history,
                ErrorInv, ErrorIsJustified
<1>8. QED
    BY <1>1, <1>2, <1>3, <1>4, <1>5, <1>6, <1>7 DEF Next, ClientStep

\* For every maximum of retries and every rate, negative ones and zero included:
\* an error of getPaginated is an answer that no retry can better, more failures
\* in a row than retries, or a configuration without requests (client.go:228-298).
THEOREM FailsForCause == Spec => []ErrorIsJustified
<1>1. Init => ErrorInv
    BY DEF Init, ErrorInv, ErrorIsJustified
<1>2. ErrorInv => ErrorIsJustified
    BY DEF ErrorInv
<1>3. QED
    BY <1>1, <1>2, TypeInvariant, ErrorStep, PTL DEF Spec

-----------------------------------------------------------------------------
(* Pages are taken in turn.                                                *)

LEMMA PagesStep ==
    TypeInv /\ TypeInv' /\ [Next]_vars => [Pages!Next]_<<listing, page, result, outcome>>
<1>. SUFFICES ASSUME TypeInv, TypeInv', [Next]_vars
              PROVE  [Pages!Next]_<<listing, page, result, outcome>>
    OBVIOUS
<1>1. CASE Call
    BY <1>1 DEF Call, Pages!Next, Pages!Start
<1>2. CASE ReceivePage
    BY <1>2 DEF ReceivePage, Requesting, AskForPage, PageItems, Pages!Next, Pages!TakePage,
                Pages!PageOf, Pages!HasPageAfter
<1>3. CASE Transient
    BY <1>3 DEF Transient, Retry
<1>4. CASE Refused \/ LimiterFails \/ GiveUp
    BY <1>4 DEF Refused, LimiterFails, GiveUp, Requesting, ReturnError, Pages!Next, Pages!Fail
<1>5. CASE GitlabStep
  <2>1. listing' \in Seq(Item)
      BY DEF TypeInv, TypeOK
  <2>2. UNCHANGED <<page, result, outcome>>
      BY <1>5 DEF GitlabStep, Created, Touched, Deleted, request
  <2>3. QED
      BY <2>1, <2>2 DEF Pages!Next, Pages!Change
<1>6. CASE UNCHANGED vars
    BY <1>6 DEF vars, request
<1>7. QED
    BY <1>1, <1>2, <1>3, <1>4, <1>5, <1>6 DEF Next, ClientStep

\* The client implements PagedListing: whatever its attempts do, getPaginated
\* takes every page once and in turn, or returns nothing (client.go:197-224).
THEOREM PagesInTurn == Spec => TakesPagesInTurn
<1>1. Init => Pages!Init
    BY ListingsTyped DEF Init, Pages!Init
<1>2. QED
    BY <1>1, TypeInvariant, PagesStep, PTL DEF Spec, Pages!Spec, TakesPagesInTurn

-----------------------------------------------------------------------------
(* A listing is complete.                                                  *)

\* Item x is listed behind the pages that have been fetched.
Ahead(x) == \E k \in DOMAIN listing : (page - 1) * PageSize < k /\ listing[k] = x

\* While a request is under way and nothing has left the fetched pages, each
\* expected item has been received or is still ahead.
CompleteInv ==
    /\ outcome = "calling" /\ ~shifted =>
         \A x \in expected : x \in Elements(result) \/ Ahead(x)
    /\ Complete

\* What GitLab does takes nothing that is ahead behind the client, unless it
\* counts as shifted.
LEMMA AheadStaysAhead ==
    ASSUME TypeInv, GitlabStep, outcome = "calling", ~shifted', NEW x \in expected', Ahead(x)
    PROVE  Ahead(x)'
<1>. DEFINE F == (page - 1) * PageSize
<1>1. /\ listing \in Seq(Item) /\ Len(listing) \in Nat /\ DOMAIN listing = 1 .. Len(listing)
      /\ page \in Nat /\ page >= 1 /\ PageSize \in Nat \ {0}
    BY ClientAssumption, LenProperties DEF TypeInv, TypeOK
<1>2. F \in Nat
    BY <1>1
<1>3. page' = page /\ F' = F
    BY DEF GitlabStep, Created, Touched, Deleted, request
<1>4. PICK j \in DOMAIN listing : F < j /\ listing[j] = x
    BY DEF Ahead
<1>. HIDE DEF F
<1>5. SUFFICES \E k \in DOMAIN listing' : F < k /\ listing'[k] = x
    BY <1>3 DEF Ahead, F
<1>6. ASSUME NEW i \in Item, Created(i)
      PROVE  \E k \in DOMAIN listing' : F < k /\ listing'[k] = x
  <2>1. CASE listing' = Append(listing, i)
    <3>1. listing' \in Seq(Item) /\ Len(listing') = Len(listing) + 1 /\ listing'[j] = listing[j]
        BY <1>1, <2>1, AppendProperties
    <3>2. j \in DOMAIN listing'
        BY <1>1, <3>1, LenProperties
    <3>3. QED
        BY <1>4, <3>1, <3>2
  <2>2. CASE listing' = <<i>> \o listing
    <3>1. <<i>> \in Seq(Item) /\ Len(<<i>>) = 1
        OBVIOUS
    <3>2. /\ listing' \in Seq(Item) /\ Len(listing') = 1 + Len(listing)
          /\ \A k \in 1 .. 1 + Len(listing) :
               listing'[k] = IF k <= 1 THEN <<i>>[k] ELSE listing[k - 1]
        BY <1>1, <2>2, <3>1, ConcatProperties
    <3>3. j + 1 \in 1 .. 1 + Len(listing) /\ ~(j + 1 <= 1) /\ (j + 1) - 1 = j
        BY <1>1
    <3>4. listing'[j + 1] = x
        BY <1>4, <3>2, <3>3
    <3>5. j + 1 \in DOMAIN listing'
        BY <3>2, <3>3, LenProperties
    <3>6. F < j + 1
        BY <1>1, <1>2, <1>4
    <3>7. QED
        BY <3>4, <3>5, <3>6
  <2>3. QED
      BY <1>6, <2>1, <2>2 DEF Created
<1>7. ASSUME NEW k \in DOMAIN listing, Touched(k) \/ Deleted(k)
      PROVE  /\ F < k
             /\ Without(listing, k) \in Seq(Item)
             /\ Len(Without(listing, k)) = Len(listing) - 1
             /\ j < k => /\ j \in 1 .. Len(listing) - 1
                         /\ Without(listing, k)[j] = x
             /\ k < j => /\ j - 1 \in 1 .. Len(listing) - 1 /\ F < j - 1
                         /\ Without(listing, k)[j - 1] = x
  <2>1. ~(k <= F) /\ F < k
    <3>1. ~(k <= F)
        BY <1>7 DEF Touched, Deleted, Fetched, F
    <3>2. QED
        BY <1>1, <1>2, <3>1
  <2>2. /\ Without(listing, k) \in Seq(Item)
        /\ Len(Without(listing, k)) = Len(listing) - 1
        /\ \A i \in 1 .. Len(listing) - 1 :
             Without(listing, k)[i] = IF i < k THEN listing[i] ELSE listing[i + 1]
      BY <1>1, WithoutProperties
  <2>. HIDE DEF Without
  <2>3. ASSUME j < k
        PROVE  j \in 1 .. Len(listing) - 1 /\ Without(listing, k)[j] = x
    <3>1. j \in 1 .. Len(listing) - 1
        BY <1>1, <2>3
    <3>2. QED
        BY <1>4, <2>2, <2>3, <3>1
  <2>4. ASSUME k < j
        PROVE  /\ j - 1 \in 1 .. Len(listing) - 1 /\ F < j - 1
               /\ Without(listing, k)[j - 1] = x
    <3>1. j - 1 \in 1 .. Len(listing) - 1 /\ ~(j - 1 < k) /\ (j - 1) + 1 = j /\ F < j - 1
        BY <1>1, <1>2, <2>1, <2>4
    <3>2. QED
        BY <1>4, <2>2, <3>1
  <2>5. QED
      BY <2>1, <2>2, <2>3, <2>4
<1>8. ASSUME NEW k \in DOMAIN listing, Touched(k)
      PROVE  \E i \in DOMAIN listing' : F < i /\ listing'[i] = x
  <2>. DEFINE rest == Without(listing, k)
  <2>1. listing' = Append(rest, listing[k])
      BY <1>8 DEF Touched
  <2>2. /\ F < k /\ rest \in Seq(Item) /\ Len(rest) = Len(listing) - 1
        /\ j < k => j \in 1 .. Len(listing) - 1 /\ rest[j] = x
        /\ k < j => j - 1 \in 1 .. Len(listing) - 1 /\ F < j - 1 /\ rest[j - 1] = x
      BY <1>7, <1>8
  <2>3. listing[k] \in Item
      BY <1>1, ElementOfSeq
  <2>. HIDE DEF rest
  <2>4. /\ listing' \in Seq(Item) /\ Len(listing') = Len(rest) + 1
        /\ \A i \in 1 .. Len(rest) : listing'[i] = rest[i]
        /\ listing'[Len(rest) + 1] = listing[k]
      BY <2>1, <2>2, <2>3, AppendProperties
  <2>5. DOMAIN listing' = 1 .. Len(listing) /\ listing'[Len(listing)] = listing[k]
      BY <1>1, <2>2, <2>4, LenProperties
  <2>6. CASE j = k
    <3>1. Len(listing) \in DOMAIN listing' /\ F < Len(listing)
        BY <1>1, <1>2, <2>2, <2>5
    <3>2. QED
        BY <1>4, <2>5, <2>6, <3>1
  <2>7. CASE j < k
    <3>1. j \in DOMAIN listing' /\ listing'[j] = x
        BY <1>1, <2>2, <2>4, <2>5, <2>7
    <3>2. QED
        BY <1>4, <3>1
  <2>8. CASE k < j
    <3>1. j - 1 \in DOMAIN listing' /\ listing'[j - 1] = x /\ F < j - 1
        BY <1>1, <2>2, <2>4, <2>5, <2>8
    <3>2. QED
        BY <3>1
  <2>9. QED
      BY <1>1, <2>6, <2>7, <2>8
<1>9. ASSUME NEW k \in DOMAIN listing, Deleted(k)
      PROVE  \E i \in DOMAIN listing' : F < i /\ listing'[i] = x
  <2>1. listing' = Without(listing, k) /\ x # listing[k]
      BY <1>9 DEF Deleted
  <2>2. /\ listing' \in Seq(Item) /\ Len(listing') = Len(listing) - 1
        /\ j < k => j \in 1 .. Len(listing) - 1 /\ listing'[j] = x
        /\ k < j => j - 1 \in 1 .. Len(listing) - 1 /\ F < j - 1 /\ listing'[j - 1] = x
      BY <1>7, <1>9, <2>1
  <2>3. DOMAIN listing' = 1 .. Len(listing) - 1
      BY <2>2, LenProperties
  <2>4. j < k \/ k < j
      BY <1>1, <1>4, <2>1
  <2>5. QED
      BY <1>4, <2>2, <2>3, <2>4
<1>10. QED
    BY <1>6, <1>8, <1>9 DEF GitlabStep

LEMMA CompleteStep == TypeInv /\ CompleteInv /\ [Next]_vars => CompleteInv'
<1>. SUFFICES ASSUME TypeInv, CompleteInv, [Next]_vars PROVE CompleteInv'
    OBVIOUS
<1>0. /\ listing \in Seq(Item) /\ Len(listing) \in Nat /\ DOMAIN listing = 1 .. Len(listing)
      /\ result \in Seq(Item) /\ page \in Nat /\ PageSize \in Nat \ {0}
    BY ClientAssumption, LenProperties DEF TypeInv, TypeOK
<1>1. CASE Call
  <2>1. \A k \in DOMAIN listing : (1 - 1) * PageSize < k
      BY <1>0
  <2>2. outcome' = "calling" /\ page' = 1 /\ expected' = Elements(listing) /\ listing' = listing
      BY <1>1 DEF Call
  <2>3. \A x \in expected' : Ahead(x)'
      BY <2>1, <2>2 DEF Ahead, Elements
  <2>4. QED
      BY <2>2, <2>3 DEF CompleteInv, Complete
<1>2. CASE ReceivePage
  <2>1. outcome = "calling" /\ page >= 1
      BY <1>2 DEF ReceivePage, Requesting, TypeInv
  <2>2. /\ PageItems \in Seq(Item)
        /\ \A k \in DOMAIN listing :
             (page - 1) * PageSize < k /\ k <= page * PageSize
                 => listing[k] \in Elements(PageItems)
      BY <2>1, PageItemsTyped DEF TypeInv
  <2>3. Elements(result) \cup Elements(PageItems) \subseteq Elements(result')
    <3>1. result' = result \o PageItems
        BY <1>2 DEF ReceivePage
    <3>2. QED
        BY <1>0, <2>2, <3>1, ElementsOfConcat
  <2>4. /\ listing' = listing /\ expected' = expected /\ shifted' = shifted
        /\ \/ outcome' = "calling" /\ page' = page + 1
           \/ outcome' = "ok" /\ Len(listing) <= page * PageSize
      BY <1>0, <1>2, <2>1 DEF ReceivePage, AskForPage
  <2>5. SUFFICES ASSUME ~shifted, NEW x \in expected
                 PROVE  x \in Elements(result') \/ (outcome' = "calling" /\ Ahead(x)')
      BY <2>4 DEF CompleteInv, Complete
  <2>6. CASE x \in Elements(result)
      BY <2>3, <2>6
  <2>7. CASE Ahead(x)
    <3>1. PICK k \in DOMAIN listing : (page - 1) * PageSize < k /\ listing[k] = x
        BY <2>7 DEF Ahead
    <3>2. CASE k <= page * PageSize
        BY <2>2, <2>3, <3>1, <3>2
    <3>3. CASE page * PageSize < k
      <4>1. (page + 1) - 1 = page /\ page * PageSize \in Nat
          BY <1>0
      <4>2. outcome' = "calling" /\ page' = page + 1
          BY <1>0, <2>4, <3>3, <4>1
      <4>3. QED
          BY <2>4, <3>1, <3>3, <4>1, <4>2 DEF Ahead
    <3>4. QED
        BY <1>0, <3>2, <3>3
  <2>8. QED
      BY <2>1, <2>5, <2>6, <2>7 DEF CompleteInv
<1>3. CASE Transient
  <2>1. UNCHANGED <<listing, page, result, outcome, expected, shifted>>
      BY <1>3 DEF Transient, Retry
  <2>2. QED
      BY <2>1 DEF CompleteInv, Complete, Ahead
<1>4. CASE Refused \/ LimiterFails \/ GiveUp
    BY <1>4 DEF Refused, LimiterFails, GiveUp, ReturnError, CompleteInv, Complete
<1>5. CASE GitlabStep
  <2>1. UNCHANGED <<result, outcome, page>> /\ expected' \subseteq expected
      BY <1>5 DEF GitlabStep, Created, Touched, Deleted, request, history
  <2>2. ~shifted' => ~shifted
      BY <1>5 DEF GitlabStep, Created, Touched, Deleted, history
  <2>3. ASSUME outcome = "calling", ~shifted', NEW x \in expected'
        PROVE  x \in Elements(result) \/ Ahead(x)'
      BY <1>5, <2>1, <2>2, <2>3, AheadStaysAhead DEF CompleteInv
  <2>4. QED
      BY <2>1, <2>2, <2>3 DEF CompleteInv, Complete
<1>6. CASE UNCHANGED vars
  <2>1. UNCHANGED <<listing, page, result, outcome, expected, shifted>>
      BY <1>6 DEF vars, request, history
  <2>2. QED
      BY <2>1 DEF CompleteInv, Complete, Ahead
<1>7. QED
    BY <1>1, <1>2, <1>3, <1>4, <1>5, <1>6 DEF Next, ClientStep

\* A listing of any length that succeeds has all that was listed when it began
\* and not deleted, unless an item left a page already fetched: no retry, nothing
\* created and no update behind the page loses an item (client.go:197-224).
THEOREM Completeness == Spec => []Complete
<1>1. Init => CompleteInv
    BY DEF Init, CompleteInv, Complete
<1>2. CompleteInv => Complete
    BY DEF CompleteInv
<1>3. QED
    BY <1>1, <1>2, TypeInvariant, CompleteStep, PTL DEF Spec

-----------------------------------------------------------------------------
(* Label events and notes come oldest first.                               *)

History == {"list_label_events", "list_notes"}

\* Nothing is listed twice, and what was received is not ahead any more.
OrderInv ==
    /\ endpoint \in History =>
         /\ \A m, n \in DOMAIN listing : listing[m] = listing[n] => m = n
         /\ outcome = "calling" =>
              \A m \in DOMAIN listing :
                  listing[m] \in Elements(result) => m <= (page - 1) * PageSize
    /\ OldestFirst

\* The inner part of OldestFirst.
ReceivedInOrder ==
    \A j, k \in DOMAIN result : j < k =>
        /\ result[j] # result[k]
        /\ \A m, n \in DOMAIN listing :
            listing[m] = result[j] /\ listing[n] = result[k] => m < n

LEMMA OrderReceive ==
    ASSUME TypeInv, OrderInv, ReceivePage, endpoint \in History
    PROVE  /\ ReceivedInOrder'
           /\ outcome' = "calling" =>
                \A m \in DOMAIN listing :
                    listing[m] \in Elements(result') => m <= page * PageSize
<1>. DEFINE F == (page - 1) * PageSize
            items == PageItems
<1>1. /\ listing \in Seq(Item) /\ Len(listing) \in Nat /\ DOMAIN listing = 1 .. Len(listing)
      /\ result \in Seq(Item) /\ Len(result) \in Nat /\ DOMAIN result = 1 .. Len(result)
      /\ page \in Nat /\ PageSize \in Nat \ {0}
    BY ClientAssumption, LenProperties DEF TypeInv, TypeOK
<1>2. outcome = "calling" /\ page >= 1
    BY DEF ReceivePage, Requesting, TypeInv
<1>3. F \in Nat /\ page * PageSize \in Nat /\ F <= page * PageSize
    BY <1>1, <1>2
<1>4. /\ items \in Seq(Item)
      /\ \A i \in DOMAIN items : /\ F + i \in DOMAIN listing /\ F + i <= page * PageSize
                                 /\ items[i] = listing[F + i]
    BY <1>2, PageItemsTyped DEF TypeInv
<1>5. listing' = listing /\ result' = result \o items
    BY DEF ReceivePage
<1>6. /\ \A m, n \in DOMAIN listing : listing[m] = listing[n] => m = n
      /\ \A m \in DOMAIN listing : listing[m] \in Elements(result) => m <= F
      /\ ReceivedInOrder
    BY <1>2 DEF OrderInv, OldestFirst, History, ReceivedInOrder
<1>. HIDE DEF F, items
<1>7. /\ result' \in Seq(Item) /\ DOMAIN result' = 1 .. Len(result) + Len(items)
      /\ Len(items) \in Nat /\ DOMAIN items = 1 .. Len(items)
    BY <1>1, <1>4, <1>5, ConcatProperties, LenProperties
<1>8. ASSUME NEW i \in DOMAIN result', i <= Len(result)
      PROVE  i \in DOMAIN result /\ result'[i] = result[i]
    BY <1>1, <1>4, <1>5, <1>7, <1>8, ConcatProperties
<1>9. ASSUME NEW i \in DOMAIN result', Len(result) < i
      PROVE  /\ i - Len(result) \in DOMAIN items
             /\ result'[i] = listing[F + (i - Len(result))]
             /\ F + (i - Len(result)) \in DOMAIN listing
             /\ F + (i - Len(result)) <= page * PageSize
  <2>1. i - Len(result) \in DOMAIN items /\ ~(i <= Len(result)) /\ i \in 1 .. Len(result) + Len(items)
      BY <1>1, <1>7, <1>9
  <2>2. result'[i] = items[i - Len(result)]
      BY <1>1, <1>4, <1>5, <2>1, ConcatProperties
  <2>3. QED
      BY <1>4, <2>1, <2>2
<1>10. ASSUME NEW j \in DOMAIN result', NEW k \in DOMAIN result', j < k
       PROVE  /\ result'[j] # result'[k]
              /\ \A m, n \in DOMAIN listing :
                    listing[m] = result'[j] /\ listing[n] = result'[k] => m < n
  <2>1. CASE k <= Len(result)
    <3>1. j <= Len(result)
        BY <1>1, <1>7, <1>10, <2>1
    <3>2. QED
        BY <1>6, <1>8, <1>10, <2>1, <3>1 DEF ReceivedInOrder
  <2>2. CASE j <= Len(result) /\ Len(result) < k
    <3>1. result'[j] \in Elements(result)
        BY <1>8, <2>2 DEF Elements
    <3>2. ASSUME NEW m \in DOMAIN listing, NEW n \in DOMAIN listing,
                 listing[m] = result'[j], listing[n] = result'[k]
          PROVE  m < n
      <4>1. m <= F
          BY <1>6, <3>1, <3>2
      <4>2. n = F + (k - Len(result))
          BY <1>6, <1>9, <2>2, <3>2
      <4>3. QED
          BY <1>1, <1>3, <1>7, <2>2, <4>1, <4>2
    <3>3. result'[j] # result'[k]
      <4>1. SUFFICES ASSUME result'[j] = result'[k] PROVE FALSE
          OBVIOUS
      <4>2. /\ result'[k] = listing[F + (k - Len(result))]
            /\ F + (k - Len(result)) \in DOMAIN listing
          BY <1>9, <2>2
      <4>3. F + (k - Len(result)) <= F
          BY <1>6, <3>1, <4>1, <4>2
      <4>4. QED
          BY <1>1, <1>3, <1>7, <2>2, <4>3
    <3>4. QED
        BY <3>2, <3>3
  <2>3. CASE Len(result) < j
    <3>1. Len(result) < k
        BY <1>1, <1>7, <1>10, <2>3
    <3>2. /\ result'[j] = listing[F + (j - Len(result))]
          /\ result'[k] = listing[F + (k - Len(result))]
          /\ F + (j - Len(result)) \in DOMAIN listing
          /\ F + (k - Len(result)) \in DOMAIN listing
        BY <1>9, <2>3, <3>1
    <3>3. F + (j - Len(result)) < F + (k - Len(result))
        BY <1>1, <1>3, <1>7, <1>10
    <3>4. F + (j - Len(result)) # F + (k - Len(result))
        BY <1>1, <1>3, <1>7, <1>10
    <3>5. QED
        BY <1>6, <3>2, <3>3, <3>4
  <2>4. QED
      BY <1>1, <1>7, <2>1, <2>2, <2>3
<1>11. ASSUME NEW m \in DOMAIN listing, listing[m] \in Elements(result')
       PROVE  m <= page * PageSize
  <2>1. PICK i \in DOMAIN result' : listing[m] = result'[i]
      BY <1>11 DEF Elements
  <2>2. CASE i <= Len(result)
    <3>1. listing[m] \in Elements(result)
        BY <1>8, <2>1, <2>2 DEF Elements
    <3>2. QED
        BY <1>1, <1>3, <1>6, <3>1
  <2>3. CASE Len(result) < i
      BY <1>6, <1>9, <2>1, <2>3
  <2>4. QED
      BY <1>1, <1>7, <2>2, <2>3
<1>12. QED
    BY <1>5, <1>10, <1>11 DEF ReceivedInOrder

\* GitLab only appends to a history and deletes from it.
LEMMA OrderGitlab ==
    ASSUME TypeInv, OrderInv, GitlabStep, endpoint \in History
    PROVE  OrderInv'
<1>. DEFINE F == (page - 1) * PageSize
<1>1. /\ listing \in Seq(Item) /\ Len(listing) \in Nat /\ DOMAIN listing = 1 .. Len(listing)
      /\ page \in Nat /\ PageSize \in Nat \ {0}
      /\ outcome = "calling" => page >= 1
    BY ClientAssumption, LenProperties DEF TypeInv, TypeOK
<1>2. outcome = "calling" => F \in Nat
    BY <1>1
<1>3. /\ \A m, n \in DOMAIN listing : listing[m] = listing[n] => m = n
      /\ outcome = "calling" =>
           \A m \in DOMAIN listing : listing[m] \in Elements(result) => m <= F
      /\ ReceivedInOrder
    BY DEF OrderInv, OldestFirst, History, ReceivedInOrder
<1>4. UNCHANGED <<endpoint, page, result, outcome>> /\ F' = F
    BY DEF GitlabStep, Created, Touched, Deleted, request, config
<1>. HIDE DEF F
<1>5. SUFFICES /\ \A m, n \in DOMAIN listing' : listing'[m] = listing'[n] => m = n
               /\ outcome = "calling" =>
                    \A m \in DOMAIN listing' : listing'[m] \in Elements(result) => m <= F
               /\ \A j, k \in DOMAIN result : j < k =>
                    /\ result[j] # result[k]
                    /\ \A m, n \in DOMAIN listing' :
                        listing'[m] = result[j] /\ listing'[n] = result[k] => m < n
    BY <1>4 DEF OrderInv, OldestFirst, F
<1>6. ASSUME NEW i \in Item, Created(i)
      PROVE  /\ \A m, n \in DOMAIN listing' : listing'[m] = listing'[n] => m = n
             /\ \A m \in DOMAIN listing' : listing'[m] \in Elements(result) =>
                    m \in DOMAIN listing /\ listing'[m] = listing[m]
  <2>1. listing' = Append(listing, i) /\ i \notin Elements(listing) /\ i \notin Elements(result)
      BY <1>6 DEF Created, History
  <2>2. /\ listing' \in Seq(Item) /\ Len(listing') = Len(listing) + 1
        /\ \A m \in 1 .. Len(listing) : listing'[m] = listing[m]
        /\ listing'[Len(listing) + 1] = i
      BY <1>1, <2>1, AppendProperties
  <2>3. DOMAIN listing' = 1 .. Len(listing) + 1
      BY <2>2, LenProperties
  <2>4. \A m \in 1 .. Len(listing) : listing[m] # i
      BY <1>1, <2>1 DEF Elements
  <2>5. QED
      BY <1>1, <1>3, <2>1, <2>2, <2>3, <2>4
<1>7. ASSUME NEW d \in DOMAIN listing, Deleted(d)
      PROVE  /\ \A m, n \in DOMAIN listing' : listing'[m] = listing'[n] => m = n
             /\ outcome = "calling" =>
                  \A m \in DOMAIN listing' : listing'[m] \in Elements(result) => m <= F
             /\ \A j, k \in DOMAIN result : j < k =>
                  \A m, n \in DOMAIN listing' :
                      listing'[m] = result[j] /\ listing'[n] = result[k] => m < n
  <2>. DEFINE old(m) == IF m < d THEN m ELSE m + 1
  <2>1. /\ listing' \in Seq(Item) /\ Len(listing') = Len(listing) - 1
        /\ \A m \in 1 .. Len(listing) - 1 :
             listing'[m] = IF m < d THEN listing[m] ELSE listing[m + 1]
      BY <1>1, <1>7, WithoutProperties DEF Deleted
  <2>2. DOMAIN listing' = 1 .. Len(listing) - 1
      BY <2>1, LenProperties
  <2>3. ASSUME NEW m \in DOMAIN listing'
        PROVE  old(m) \in DOMAIN listing /\ listing'[m] = listing[old(m)] /\ m <= old(m)
      BY <1>1, <2>1, <2>2
  <2>4. ASSUME NEW m \in DOMAIN listing', NEW n \in DOMAIN listing'
        PROVE  /\ old(m) = old(n) => m = n
               /\ old(m) < old(n) => m < n
      BY <1>1, <2>2
  <2>. HIDE DEF old
  <2>5. ASSUME NEW m \in DOMAIN listing', listing'[m] \in Elements(result), outcome = "calling"
        PROVE  m <= F
    <3>1. old(m) <= F /\ m <= old(m) /\ old(m) \in Int /\ m \in Int
        BY <1>1, <1>3, <2>2, <2>3, <2>5
    <3>2. QED
        BY <1>2, <2>5, <3>1
  <2>6. ASSUME NEW j \in DOMAIN result, NEW k \in DOMAIN result, j < k,
               NEW m \in DOMAIN listing', NEW n \in DOMAIN listing',
               listing'[m] = result[j], listing'[n] = result[k]
        PROVE  m < n
    <3>1. old(m) < old(n)
        BY <1>3, <2>3, <2>6 DEF ReceivedInOrder
    <3>2. QED
        BY <2>4, <3>1
  <2>7. \A m, n \in DOMAIN listing' : listing'[m] = listing'[n] => m = n
      BY <1>3, <2>3, <2>4
  <2>8. QED
      BY <2>5, <2>6, <2>7
<1>8. ASSUME NEW i \in Item, Created(i)
      PROVE  \A j, k \in DOMAIN result : j < k =>
                \A m, n \in DOMAIN listing' :
                    listing'[m] = result[j] /\ listing'[n] = result[k] => m < n
  <2>1. \A j \in DOMAIN result : result[j] \in Elements(result)
      BY DEF Elements
  <2>2. QED
      BY <1>3, <1>6, <1>8, <2>1 DEF ReceivedInOrder
<1>9. CASE \E i \in Item : Created(i)
    BY <1>3, <1>6, <1>8, <1>9 DEF ReceivedInOrder
<1>10. CASE \E k \in DOMAIN listing : Deleted(k)
    BY <1>3, <1>7, <1>10 DEF ReceivedInOrder
<1>11. QED
    BY <1>9, <1>10 DEF GitlabStep, Touched, History

LEMMA OrderStep == TypeInv /\ OrderInv /\ [Next]_vars => OrderInv'
<1>. SUFFICES ASSUME TypeInv, OrderInv, [Next]_vars PROVE OrderInv'
    OBVIOUS
<1>1. endpoint' = endpoint
    BY DEF Next, Call, ClientStep, ReceivePage, Transient, Refused, LimiterFails, GiveUp,
           GitlabStep, Created, Touched, Deleted, config, vars
<1>2. CASE endpoint \notin History
    BY <1>1, <1>2 DEF OrderInv, OldestFirst, History
<1>. SUFFICES ASSUME endpoint \in History PROVE OrderInv'
    BY <1>2
<1>3. CASE result' = <<>> /\ listing' = listing
  <2>1. DOMAIN result' = {} /\ Elements(result') = {}
      BY <1>3 DEF Elements
  <2>2. QED
      BY <1>1, <1>3, <2>1 DEF OrderInv, OldestFirst
<1>4. CASE ReceivePage
  <2>1. /\ ReceivedInOrder' /\ listing' = listing
        /\ outcome' = "calling" =>
             \A m \in DOMAIN listing : listing[m] \in Elements(result') => m <= page * PageSize
      BY <1>4, OrderReceive DEF ReceivePage
  <2>2. outcome' = "calling" => (page' - 1) * PageSize = page * PageSize
    <3>1. page \in Nat
        BY DEF TypeInv, TypeOK
    <3>2. outcome' = "calling" => page' = page + 1
        BY <1>4 DEF ReceivePage, AskForPage
    <3>3. (page + 1) - 1 = page
        BY <3>1
    <3>4. QED
        BY <3>2, <3>3
  <2>3. QED
      BY <1>1, <2>1, <2>2 DEF OrderInv, OldestFirst, ReceivedInOrder
<1>5. CASE UNCHANGED <<listing, page, result, outcome>>
    BY <1>1, <1>5 DEF OrderInv, OldestFirst, Elements
<1>6. CASE GitlabStep
    BY <1>6, OrderGitlab
<1>7. QED
    BY <1>3, <1>4, <1>5, <1>6
       DEF Next, Call, ClientStep, Transient, Retry, Refused, LimiterFails, GiveUp, ReturnError,
           vars, config, request

\* However many pages a history has, and whatever is appended to it or deleted
\* from it meanwhile: its events are received once each and in GitLab's order,
\* the order in which they become rows of raw_events (client.go:148-224).
THEOREM HistoriesInOrder == Spec => []OldestFirst
<1>1. Init => OrderInv
  <2>1. ASSUME listing \in Listings
        PROVE  \A m, n \in DOMAIN listing : listing[m] = listing[n] => m = n
      BY <2>1 DEF Listings
  <2>2. QED
      BY <2>1 DEF Init, OrderInv, OldestFirst
<1>2. OrderInv => OldestFirst
    BY DEF OrderInv
<1>3. QED
    BY <1>1, <1>2, TypeInvariant, OrderStep, PTL DEF Spec
=============================================================================
