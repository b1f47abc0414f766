------------------------------- MODULE CafeF --------------------------------
(***************************************************************************)
(* The search of CafeF for one ticker (internal/modules/crawler/cafef.go,  *)
(* Fetch): up to three pages of results, newest first, and the page of     *)
(* every article found. The site lists articles while the search is going  *)
(* on, pages fail to load, dates cannot be read or are less precise than   *)
(* the date the search goes back to. Searches follow one another, as in    *)
(* ArticleFetch: each goes back to the newest date found by the last.      *)
(***************************************************************************)
EXTENDS Integers, Sequences, SequencesExt, FiniteSets

CONSTANTS
    Articles,    \* links on the news site
    PageSize,    \* items on a page of results
    Pages,       \* three in the code
    Minute,      \* units of the clock in a minute ...
    Day,         \* ... and in a day
    MaxNow,      \* bound on the clock
    MaxOdd,      \* bound on the articles with a date that cannot be trusted
    MaxFaults    \* bound on the number of pages that do not load

(* What the digits in a link and the text of .pdate tell: the date down to  *)
(* the second and the minute; the day; nothing in the link or in .pdate.    *)
Stamps == {"full", "day", "noLink", "noPage"}

ASSUME SearchAssumption ==
    /\ PageSize \in Nat \ {0} /\ Pages \in Nat \ {0}
    /\ Minute \in Nat \ {0} /\ Day \in Nat \ {0}
    /\ MaxNow \in Nat /\ MaxOdd \in Nat /\ MaxFaults \in Nat

VARIABLES
    now,        \* the clock
    listing,    \* what the search has to offer, newest first
    published,  \* published[a]: date of a listed article
    stamp,      \* stamp[a]: what its link and its page tell of the date
    pc,         \* "idle", or the call the search is at
    since,      \* parameter since
    page,       \* the page visited
    items,      \* items of this page that are still to be handled
    seenLinks,  \* links handled by this search
    articles,   \* result so far
    preFetchCount,  \* its length before this page
    arrived,    \* auxiliary: articles listed since the search began,
    broken,     \* whether a page of this search did not load
    faults      \* pages that did not load so far

site == <<now, listing, published, stamp>>
search == <<since, articles, page, items, seenLinks, preFetchCount>>
vars == <<now, listing, published, stamp, pc, since, page, items, seenLinks,
          articles, preFetchCount, arrived, broken, faults>>

-----------------------------------------------------------------------------
(* Dates *)

Time == 0..MaxNow

Floor(time, unit) == time - (time % unit)

(* Date of the article, from its link: hours and less default to "00". *)
LinkDate(a) ==
    IF stamp[a] = "day" THEN Floor(published[a], Day) ELSE published[a]

(* .pdate has no seconds; a link's date stays where it cannot be read. *)
PageDate(a) ==
    IF stamp[a] = "noPage" THEN LinkDate(a) ELSE Floor(published[a], Minute)

Listed(a) == a \in ToSet(listing)

Scraped == [article : Articles, date : Time]

(* Links are only those of the site, results and pages are within bounds.   *)
TypeOK ==
    /\ now \in Time
    /\ listing \in Seq(Articles) /\ IsInjective(listing)
    /\ published \in [Articles -> Time]
    /\ stamp \in [Articles -> Stamps]
    /\ pc \in {"idle", "page", "items"}
    /\ since \in Time
    /\ page \in 1..Pages
    /\ items \in Seq(Articles) /\ Len(items) <= PageSize
    /\ seenLinks \subseteq Articles
    /\ articles \in Seq(Scraped)
    /\ preFetchCount \in 0..Len(articles)
    /\ arrived \subseteq Articles
    /\ broken \in BOOLEAN
    /\ faults \in 0..MaxFaults

-----------------------------------------------------------------------------
(* Fetch *)

(* The items of page p, as the site lists them now. *)
PageOf(p) ==
    SubSeq(listing, (p - 1) * PageSize + 1,
           IF p * PageSize < Len(listing) THEN p * PageSize ELSE Len(listing))

(* tickerUpdateMap of the job: the newest date found becomes the next since.*)
Dates == {s.date : s \in ToSet(articles)} \cup {since}

Begin ==
    /\ pc = "idle"
    /\ pc' = "page"
    /\ since' \in {date \in Dates : \A other \in Dates : other <= date}
    /\ page' = 1 /\ items' = <<>> /\ seenLinks' = {} /\ preFetchCount' = 0
    /\ articles' = <<>>
    /\ arrived' = {} /\ broken' = FALSE
    /\ UNCHANGED <<site, faults>>

(* c.Visit(searchURL): the items are those of this moment. *)
VisitPage ==
    /\ pc = "page"
    /\ pc' = "items"
    /\ items' = PageOf(page)
    /\ preFetchCount' = Len(articles)
    /\ UNCHANGED <<site, since, page, seenLinks, articles, arrived, broken, faults>>

(* The search returns its articles. *)
Finish ==
    /\ pc' = "idle"
    /\ page' = 1 /\ items' = <<>> /\ seenLinks' = {} /\ preFetchCount' = 0

(* "failed to visit search page": what was found so far is the result. *)
PageFails ==
    /\ pc = "page"
    /\ faults < MaxFaults
    /\ faults' = faults + 1
    /\ broken' = TRUE
    /\ Finish
    /\ UNCHANGED <<site, since, articles, arrived>>

(* Seeded fault: a link is not remembered. *)
RememberNothing(a) == seenLinks' = seenLinks

Remember(a) == seenLinks' = seenLinks \cup {a}

(* Seen in this search, or a link whose date says that it is too old. *)
Skipped(a) ==
    \/ a \in seenLinks
    \/ stamp[a] = "noLink"
    \/ LinkDate(a) < since

Found(a, date) ==
    articles' = IF date < since THEN articles
                ELSE Append(articles, [article |-> a, date |-> date])

(* The handler of an item, with the visit to the article's page, which may  *)
(* not load.                                                                *)
HandleItem ==
    /\ pc = "items"
    /\ items # <<>>
    /\ items' = Tail(items)
    /\ LET a == Head(items)
       IN  /\ Remember(a)
           /\ \/ Skipped(a) /\ UNCHANGED <<articles, faults>>
              \/ /\ ~Skipped(a)
                 /\ Found(a, PageDate(a))
                 /\ UNCHANGED faults
              \/ /\ ~Skipped(a)
                 /\ faults < MaxFaults
                 /\ faults' = faults + 1
                 /\ Found(a, LinkDate(a))
    /\ UNCHANGED <<site, pc, since, page, preFetchCount, arrived, broken>>

(* Seeded fault: a page with an item already seen or too old is the last.   *)
NothingNewHasty == Len(articles) < preFetchCount + PageSize

(* "no new articles on this page, stopping search" *)
NothingNew == Len(articles) = preFetchCount

(* Seeded fault: one page too many. *)
MorePagesOffByOne == page <= Pages

(* "page <= 3", after the increment *)
MorePages == page < Pages

EndPage ==
    /\ pc = "items"
    /\ items = <<>>
    /\ \/ (NothingNew \/ ~MorePages) /\ Finish
       \/ /\ ~NothingNew /\ MorePages
          /\ pc' = "page"
          /\ page' = page + 1
          /\ UNCHANGED <<items, seenLinks, preFetchCount>>
    /\ UNCHANGED <<site, since, articles, arrived, broken, faults>>

-----------------------------------------------------------------------------
(* The site *)

Odd == {a \in ToSet(listing) : stamp[a] # "full"}

List(a) ==
    /\ ~Listed(a)
    /\ listing' = <<a>> \o listing
    /\ published' = [published EXCEPT ![a] = now]
    /\ \E s \in Stamps :
          /\ s # "full" => Cardinality(Odd) < MaxOdd
          /\ stamp' = [stamp EXCEPT ![a] = s]
    /\ arrived' = arrived \cup {a}
    /\ UNCHANGED <<now, pc, search, broken, faults>>

Tick ==
    /\ now < MaxNow
    /\ now' = now + 1
    /\ UNCHANGED <<listing, published, stamp, pc, search, arrived, broken, faults>>

-----------------------------------------------------------------------------
(* The specification *)

Init ==
    /\ now = 0
    /\ listing = <<>>
    /\ published = [a \in Articles |-> 0]
    /\ stamp = [a \in Articles |-> "full"]
    /\ pc = "idle"
    /\ since = 0 /\ page = 1 /\ items = <<>> /\ seenLinks = {}
    /\ articles = <<>> /\ preFetchCount = 0
    /\ arrived = {} /\ broken = FALSE /\ faults = 0

Next ==
    \/ Begin \/ VisitPage \/ PageFails \/ HandleItem \/ EndPage
    \/ \E a \in Articles : List(a)
    \/ Tick

Spec == Init /\ [][Next]_vars

-----------------------------------------------------------------------------
(* Properties *)

(***************************************************************************)
(* An article is in the result of a search once, also when new articles    *)
(* have moved it from one page to the next between the two visits          *)
(* (cafef.go:63-70), so that its page is asked for once.                   *)
(***************************************************************************)
OncePerSearch ==
    \A i, j \in DOMAIN articles :
        articles[i].article = articles[j].article => i = j

(* Articles that the site lists before a. *)
Above(a) == {b \in ToSet(listing) : published[b] >= published[a]} \ {a}

(* Its dates do not let the search have it: the link's is missing or of the *)
(* day only, or .pdate is of the minute of a since that has seconds.        *)
Unusable(a) ==
    \/ stamp[a] = "noLink"
    \/ LinkDate(a) < since
    \/ PageDate(a) < since /\ since % Minute # 0

(***************************************************************************)
(* A search that has ended has found every article listed before it began  *)
(* with a date not before since, unless a page did not load, three pages   *)
(* were not enough, its dates are unusable, or at least as many items as   *)
(* a page has were unusable or pushed onto it by new ones, for a page      *)
(* without a new article ends the search (cafef.go:92-184).                *)
(***************************************************************************)
SearchFindsAll ==
    pc = "idle" =>
        \A a \in ToSet(listing) \ arrived :
            \/ published[a] < since
            \/ \E s \in ToSet(articles) : s.article = a
            \/ broken
            \/ Unusable(a)
            \/ Cardinality(Above(a)) >= Pages * PageSize
            \/ Cardinality({b \in Above(a) : b \in arrived \/ Unusable(b)}) >= PageSize
=============================================================================
