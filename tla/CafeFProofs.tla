----------------------------- MODULE CafeFProofs -----------------------------
(* Theorems of the specification CafeF for every page size, number of pages *)
(* and set of articles.                                                     *)
EXTENDS CafeF, SequenceTheorems, FiniteSetTheorems, TLAPS

LEMMA DateType ==
    ASSUME TypeOK, NEW a \in Articles
    PROVE  /\ LinkDate(a) \in Time
           /\ PageDate(a) \in Time
<1>1. /\ published[a] \in Nat /\ published[a] <= MaxNow
      /\ MaxNow \in Nat /\ Day \in Nat \ {0} /\ Minute \in Nat \ {0}
  BY SearchAssumption DEF TypeOK, Time
<1>2. \A unit \in Nat \ {0} : Floor(published[a], unit) \in Time
  <2>1. SUFFICES ASSUME NEW unit \in Nat \ {0}
                 PROVE  Floor(published[a], unit) \in Time
    OBVIOUS
  <2>2. published[a] % unit \in 0..published[a]
    <3>. DEFINE n == published[a]
    <3>1. n \in Nat /\ unit \in Nat /\ unit > 0
      BY <1>1
    <3>. HIDE DEF n
    <3>2. n % unit \in Nat /\ n \div unit \in Nat
      BY <3>1
    <3>3. n = (unit * (n \div unit)) + (n % unit)
      BY <3>1
    <3>4. unit * (n \div unit) \in Nat
      BY <3>1, <3>2
    <3>5. n % unit \in 0..n
      BY <3>1, <3>2, <3>3, <3>4
    <3>. QED BY <3>5 DEF n
  <2>. QED BY <1>1, <2>2 DEF Floor, Time
<1>. QED BY <1>1, <1>2 DEF LinkDate, PageDate, Time

LEMMA FoundType ==
    ASSUME TypeOK, NEW a \in Articles, NEW date \in Time, Found(a, date)
    PROVE  articles' \in Seq(Scraped) /\ Len(articles') >= Len(articles)
<1>1. [article |-> a, date |-> date] \in Scraped
  BY DEF Scraped
<1>. QED BY <1>1, AppendProperties, LenProperties DEF TypeOK, Found

LEMMA FinishType ==
    ASSUME TypeOK, Finish, articles' = articles
    PROVE  /\ pc' \in {"idle", "page", "items"}
           /\ page' \in 1..Pages
           /\ items' \in Seq(Articles) /\ Len(items') <= PageSize
           /\ seenLinks' \subseteq Articles
           /\ preFetchCount' \in 0..Len(articles')
BY SearchAssumption, EmptySeq, LenProperties DEF TypeOK, Finish

(* A page has at most PageSize of the links listed.                         *)
LEMMA PageType ==
    ASSUME TypeOK, NEW p \in 1..Pages
    PROVE  PageOf(p) \in Seq(Articles) /\ Len(PageOf(p)) <= PageSize
<1>. DEFINE m == (p - 1) * PageSize + 1
            n == IF p * PageSize < Len(listing) THEN p * PageSize ELSE Len(listing)
<1>1. /\ PageSize \in Nat \ {0} /\ p \in Nat \ {0}
      /\ Len(listing) \in Nat /\ listing \in [1..Len(listing) -> Articles]
  BY SearchAssumption, LenProperties DEF TypeOK
<1>2. /\ (p - 1) * PageSize \in Nat /\ p * PageSize \in Nat
      /\ p * PageSize = (p - 1) * PageSize + PageSize
  BY <1>1
<1>3. /\ m \in Int /\ n \in Int /\ m >= 1 /\ n <= Len(listing)
      /\ n - m + 1 <= PageSize
  BY <1>1, <1>2
<1>4. \A i \in m..n : listing[i] \in Articles
  BY <1>1, <1>3
<1>5. /\ SubSeq(listing, m, n) \in Seq(Articles)
      /\ Len(SubSeq(listing, m, n)) = IF m <= n THEN n - m + 1 ELSE 0
  BY <1>3, <1>4, SubSeqProperties
<1>. HIDE DEF m, n
<1>6. PageOf(p) = SubSeq(listing, m, n)
  BY DEF PageOf, m, n
<1>. QED BY <1>1, <1>3, <1>5, <1>6

LEMMA TypeStep ==
    ASSUME TypeOK, [Next]_vars
    PROVE  TypeOK'
<1>1. CASE Begin
  <2>1. Dates \subseteq Time
    <3>1. \A i \in DOMAIN articles : articles[i] \in Scraped
      BY ElementOfSeq, LenProperties DEF TypeOK
    <3>. QED BY <3>1 DEF TypeOK, Dates, ToSet, Scraped
  <2>2. since' \in Time /\ 1 \in 1..Pages /\ PageSize \in Nat
    BY <1>1, <2>1, SearchAssumption DEF Begin
  <2>3. /\ items' \in Seq(Articles) /\ Len(items') = 0
        /\ articles' \in Seq(Scraped) /\ Len(articles') = 0
    BY <1>1, EmptySeq DEF Begin
  <2>4. Len(items') <= PageSize /\ preFetchCount' \in 0..Len(articles')
    BY <1>1, <2>2, <2>3 DEF Begin
  <2>5. UNCHANGED <<site, faults>> /\ pc' = "page" /\ broken' = FALSE
        /\ page' = 1 /\ seenLinks' = {} /\ arrived' = {}
    BY <1>1 DEF Begin
  <2>. QED BY <2>2, <2>3, <2>4, <2>5 DEF TypeOK, site
<1>2. CASE VisitPage
  <2>1. page \in 1..Pages /\ Len(articles) \in 0..Len(articles)
    BY LenProperties DEF TypeOK
  <2>. QED BY <1>2, <2>1, PageType DEF TypeOK, VisitPage, site
<1>3. CASE PageFails
  BY <1>3, FinishType, SearchAssumption DEF TypeOK, PageFails, site
<1>4. CASE HandleItem
  <2>1. Head(items) \in Articles /\ Tail(items) \in Seq(Articles)
        /\ Len(Tail(items)) <= PageSize
    BY <1>4, HeadTailProperties, LenProperties, SearchAssumption
       DEF TypeOK, HandleItem
  <2>2. articles' \in Seq(Scraped) /\ Len(articles') >= Len(articles)
    BY <1>4, <2>1, DateType, FoundType, LenProperties DEF HandleItem, TypeOK
  <2>3. preFetchCount' \in 0..Len(articles')
    BY <1>4, <2>2, LenProperties DEF HandleItem, TypeOK
  <2>4. faults' \in 0..MaxFaults
    BY <1>4, SearchAssumption DEF HandleItem, TypeOK
  <2>. QED BY <1>4, <2>1, <2>2, <2>3, <2>4
           DEF TypeOK, HandleItem, Remember, site
<1>5. CASE EndPage
  <2>1. CASE Finish
    BY <1>5, <2>1, FinishType DEF TypeOK, EndPage, MorePages, site
  <2>2. CASE /\ page < Pages /\ pc' = "page" /\ page' = page + 1
             /\ UNCHANGED <<items, seenLinks, preFetchCount>>
    <3>1. page' \in 1..Pages
      BY <2>2, SearchAssumption DEF TypeOK
    <3>. QED BY <1>5, <2>2, <3>1 DEF TypeOK, EndPage, MorePages, site
  <2>. QED BY <1>5, <2>1, <2>2 DEF EndPage, MorePages
<1>6. ASSUME NEW a \in Articles, List(a)
      PROVE  TypeOK'
  <2>1. \A i \in 1..Len(listing) : listing[i] # a
    BY <1>6, LenProperties DEF List, Listed, ToSet, TypeOK
  <2>2. /\ <<a>> \in Seq(Articles) /\ Len(<<a>>) = 1 /\ <<a>>[1] = a
        /\ Len(listing) \in Nat
    BY LenProperties DEF TypeOK
  <2>3. /\ listing' \in Seq(Articles)
        /\ Len(listing') = Len(listing) + 1
        /\ \A i \in 1..Len(listing') :
              listing'[i] = IF i <= 1 THEN a ELSE listing[i - 1]
    BY <1>6, <2>2, ConcatProperties DEF List, TypeOK
  <2>4. DOMAIN listing' = 1..(Len(listing) + 1) /\ DOMAIN listing = 1..Len(listing)
    BY <2>3, LenProperties DEF TypeOK
  <2>5. IsInjective(listing')
    <3>1. SUFFICES ASSUME NEW i \in 1..(Len(listing) + 1),
                          NEW j \in 1..(Len(listing) + 1),
                          listing'[i] = listing'[j]
                   PROVE  i = j
      BY <2>4 DEF IsInjective
    <3>2. \A k, l \in 1..Len(listing) : listing[k] = listing[l] => k = l
      BY <2>4 DEF TypeOK, IsInjective
    <3>3. /\ i = 1 => listing'[i] = a
          /\ i # 1 => i - 1 \in 1..Len(listing) /\ listing'[i] = listing[i - 1]
      BY <2>2, <2>3
    <3>4. /\ j = 1 => listing'[j] = a
          /\ j # 1 => j - 1 \in 1..Len(listing) /\ listing'[j] = listing[j - 1]
      BY <2>2, <2>3
    <3>5. i # 1 /\ j # 1 => i - 1 = j - 1
      BY <3>1, <3>2, <3>3, <3>4
    <3>. QED BY <2>1, <3>1, <3>3, <3>4, <3>5
  <2>. QED BY <1>6, <2>3, <2>5 DEF TypeOK, List, search
<1>7. CASE Tick
  BY <1>7, SearchAssumption DEF TypeOK, Tick, Time, search
<1>8. CASE UNCHANGED vars
  BY <1>8 DEF TypeOK, vars
<1>. QED BY <1>1, <1>2, <1>3, <1>4, <1>5, <1>6, <1>7, <1>8 DEF Next

(***************************************************************************)
(* Whatever is listed while a search goes on, its variables stay within    *)
(* their bounds: the pages visited, their items and the count of results   *)
(* before a page (cafef.go:163-184).                                       *)
(***************************************************************************)
THEOREM SearchTypes == Spec => []TypeOK
<1>1. Init => TypeOK
  <2>1. /\ <<>> \in Seq(Articles) /\ <<>> \in Seq(Scraped) /\ Len(<<>>) = 0
        /\ IsInjective(<<>>)
    BY EmptySeq DEF IsInjective
  <2>2. 0 \in Time /\ 1 \in 1..Pages /\ 0 \in 0..MaxFaults /\ PageSize >= 0
    BY SearchAssumption DEF Time
  <2>3. SUFFICES ASSUME Init
                 PROVE  TypeOK
    OBVIOUS
  <2>4. /\ articles = <<>> /\ items = <<>> /\ listing = <<>>
        /\ preFetchCount = 0 /\ now = 0 /\ since = 0 /\ faults = 0 /\ page = 1
    BY <2>3 DEF Init
  <2>5. Len(items) <= PageSize /\ preFetchCount \in 0..Len(articles)
    BY <2>1, <2>2, <2>4
  <2>6. /\ published \in [Articles -> Time] /\ stamp \in [Articles -> Stamps]
        /\ pc = "idle" /\ seenLinks = {} /\ arrived = {} /\ broken = FALSE
    BY <2>2, <2>3 DEF Init, Stamps
  <2>. QED BY <2>1, <2>2, <2>4, <2>5, <2>6 DEF TypeOK
<1>2. TypeOK /\ [Next]_vars => TypeOK'
  BY TypeStep
<1>. QED BY <1>1, <1>2, PTL DEF Spec

(* What is in the result of a search that goes on was remembered.           *)
Remembered ==
    pc # "idle" =>
        \A i \in DOMAIN articles : articles[i].article \in seenLinks

LEMMA OnceStep ==
    ASSUME TypeOK, Remembered, OncePerSearch, [Next]_vars
    PROVE  Remembered' /\ OncePerSearch'
<1>1. CASE Begin
  BY <1>1, EmptySeq DEF Begin, Remembered, OncePerSearch
<1>2. CASE HandleItem
  <2>. DEFINE a == Head(items)
  <2>1. a \in Articles /\ pc = "items" /\ pc' = pc
        /\ seenLinks' = seenLinks \cup {a}
    BY <1>2, HeadTailProperties DEF HandleItem, TypeOK, Remember
  <2>2. CASE articles' = articles
    BY <2>1, <2>2 DEF Remembered, OncePerSearch
  <2>3. CASE articles' # articles
    <3>1. PICK date \in {LinkDate(a), PageDate(a)} :
             /\ a \notin seenLinks
             /\ articles' = Append(articles, [article |-> a, date |-> date])
      BY <1>2, <2>3 DEF HandleItem, Found, Skipped
    <3>. DEFINE e == [article |-> a, date |-> date]
    <3>2. e \in Scraped /\ articles \in Seq(Scraped)
      BY <2>1, <3>1, DateType DEF Scraped, TypeOK
    <3>3. /\ Len(articles) \in Nat
          /\ DOMAIN articles = 1..Len(articles)
          /\ DOMAIN articles' = 1..(Len(articles) + 1)
          /\ \A i \in 1..Len(articles) : articles'[i] = articles[i]
          /\ articles'[Len(articles) + 1] = e
      BY <3>1, <3>2, AppendProperties, LenProperties
    <3>4. \A i \in 1..Len(articles) : articles'[i].article \in seenLinks
      BY <2>1, <3>3 DEF Remembered
    <3>5. \A i \in DOMAIN articles' :
             \/ i \in DOMAIN articles /\ articles'[i].article \in seenLinks
                /\ articles'[i] = articles[i]
             \/ i = Len(articles) + 1 /\ articles'[i].article = a
      BY <3>3, <3>4
    <3>. QED BY <2>1, <3>1, <3>5 DEF Remembered, OncePerSearch
  <2>. QED BY <2>2, <2>3
<1>3. CASE VisitPage \/ PageFails \/ EndPage
  BY <1>3 DEF VisitPage, PageFails, EndPage, Finish, Remembered, OncePerSearch
<1>4. CASE (\E a \in Articles : List(a)) \/ Tick \/ UNCHANGED vars
  BY <1>4 DEF List, Tick, vars, search, Remembered, OncePerSearch
<1>. QED BY <1>1, <1>2, <1>3, <1>4 DEF Next

(***************************************************************************)
(* No search has an article twice, however many articles are listed while  *)
(* it turns the pages (cafef.go:63-70).                                    *)
(***************************************************************************)
THEOREM NeverTwice == Spec => []OncePerSearch
<1>1. Init => Remembered /\ OncePerSearch
  BY DEF Init, Remembered, OncePerSearch
<1>2. TypeOK /\ Remembered /\ OncePerSearch /\ [Next]_vars
      => Remembered' /\ OncePerSearch'
  BY OnceStep
<1>. QED BY <1>1, <1>2, SearchTypes, PTL DEF Spec

-----------------------------------------------------------------------------
(* What a search finds *)

(* The links at positions m to n of the listing.                            *)
Block(m, n) == {listing[i] : i \in m..n}

(* What this search has come across.                                        *)
Reached == seenLinks \cup ToSet(items)

(* What it would still come across, were there pages enough.                *)
Waiting == {a \in ToSet(listing) \ arrived : a \notin Reached}

(* The number of items on the pages visited.                                *)
Turned == IF pc = "items" THEN page * PageSize ELSE (page - 1) * PageSize

(* The listing is sorted by date.                                           *)
Sorted ==
    /\ \A i, j \in DOMAIN listing :
          i <= j => published[listing[i]] >= published[listing[j]]
    /\ \A i \in DOMAIN listing : published[listing[i]] <= now

(* The new articles are the first n of the listing: they have pushed the    *)
(* others down by n, those of the pages visited included.                   *)
Pushed(n) ==
    /\ arrived = Block(1, n)
    /\ pc # "idle" =>
          \A i \in DOMAIN listing :
             listing[i] \in Reached /\ i > n => i <= Turned + n

PushedInv == \E n \in 0..Len(listing) : Pushed(n)

(* Articles only move down: those not come across are below these pages.    *)
AheadInv ==
    pc # "idle" =>
        \A i \in DOMAIN listing : listing[i] \in Waiting => i > Turned

InResult(a) == \E i \in DOMAIN articles : articles[i].article = a

(* Whatever has been handled was found unless its dates forbid it.          *)
HandledInv ==
    pc # "idle" =>
        /\ pc = "page" => items = <<>>
        /\ Reached \subseteq ToSet(listing)
        /\ IsInjective(items)
        /\ \A a \in seenLinks :
              published[a] < since \/ Unusable(a) \/ InResult(a)

(***************************************************************************)
(* A page B above an article that is still to come is full. Of its items   *)
(* those handled before, Q, are not more than the new articles outside it, *)
(* which have pushed them onto it; while it has brought nothing new, the   *)
(* other ones handled are new or unusable.                                 *)
(***************************************************************************)
FullPage(B, Q) ==
    /\ Cardinality(B) = PageSize
    /\ ToSet(items) \subseteq B
    /\ ToSet(items) \cap seenLinks \subseteq Q \cup arrived
    /\ Cardinality(Q) <= Cardinality(arrived \ B)
    /\ NothingNew =>
          \A b \in B \ ToSet(items) : b \in Q \cup arrived \/ Unusable(b)

PageInv ==
    pc = "items" =>
        \A a \in Waiting :
            published[a] >= since =>
                \E B \in SUBSET Above(a) : \E Q \in SUBSET B : FullPage(B, Q)

SearchInv ==
    /\ Sorted /\ PushedInv /\ AheadInv /\ HandledInv /\ PageInv
    /\ SearchFindsAll

(* Of a set B, the members outside Q and as many others as Q has.           *)
LEMMA CountBlocked ==
    ASSUME NEW B, NEW Q \in SUBSET B, NEW A, NEW W,
           IsFiniteSet(A), IsFiniteSet(B), IsFiniteSet(W),
           B \ Q \subseteq W, A \ B \subseteq W,
           Cardinality(Q) <= Cardinality(A \ B)
    PROVE  Cardinality(W) >= Cardinality(B)
<1>1. /\ IsFiniteSet(Q) /\ IsFiniteSet(B \ Q) /\ IsFiniteSet(A \ B)
      /\ B \cap Q = Q
  BY FS_Subset, FS_Difference
<1>2. Cardinality(B \ Q) = Cardinality(B) - Cardinality(Q)
  BY <1>1, FS_Difference
<1>3. (B \ Q) \cap (A \ B) = {}
  OBVIOUS
<1>4. /\ IsFiniteSet((B \ Q) \cup (A \ B))
      /\ Cardinality((B \ Q) \cup (A \ B))
         = Cardinality(B \ Q) + Cardinality(A \ B) - Cardinality({})
  BY <1>1, <1>3, FS_Union, SMTT(20)
<1>5. Cardinality((B \ Q) \cup (A \ B)) <= Cardinality(W)
  BY FS_Subset
<1>6. /\ Cardinality(B) \in Nat /\ Cardinality(Q) \in Nat
      /\ Cardinality(A \ B) \in Nat /\ Cardinality(W) \in Nat
      /\ Cardinality({}) = 0
  BY <1>1, FS_CardinalityType, FS_EmptySet
<1>. QED BY <1>2, <1>4, <1>5, <1>6

LEMMA ListingType ==
    ASSUME TypeOK
    PROVE  /\ Len(listing) \in Nat /\ DOMAIN listing = 1..Len(listing)
           /\ \A i \in 1..Len(listing) : listing[i] \in Articles
           /\ \A i, j \in 1..Len(listing) : listing[i] = listing[j] => i = j
           /\ ToSet(listing) = Block(1, Len(listing))
           /\ ToSet(listing) \subseteq Articles
           /\ \A a \in Articles : published[a] \in Nat
           /\ now \in Nat /\ since \in Nat
<1>1. /\ Len(listing) \in Nat /\ DOMAIN listing = 1..Len(listing)
      /\ \A i \in 1..Len(listing) : listing[i] \in Articles
  BY LenProperties, ElementOfSeq DEF TypeOK
<1>2. \A i, j \in 1..Len(listing) : listing[i] = listing[j] => i = j
  BY <1>1 DEF TypeOK, IsInjective
<1>3. (\A a \in Articles : published[a] \in Nat) /\ now \in Nat /\ since \in Nat
  BY SearchAssumption DEF TypeOK, Time
<1>. QED BY <1>1, <1>2, <1>3 DEF ToSet, Block

LEMMA BlockSize ==
    ASSUME TypeOK, NEW m \in Nat \ {0}, NEW n \in Nat, n <= Len(listing)
    PROVE  /\ IsFiniteSet(Block(m, n))
           /\ Cardinality(Block(m, n)) = IF m > n THEN 0 ELSE n - m + 1
<1>. DEFINE f == [i \in m..n |-> listing[i]]
<1>1. \A i, j \in m..n : listing[i] = listing[j] => i = j
  BY ListingType
<1>2. f \in Bijection(m..n, Block(m, n))
  BY <1>1 DEF Block, Bijection, Injection, Surjection, IsInjective
<1>3. ExistsBijection(m..n, Block(m, n))
  BY <1>2 DEF ExistsBijection
<1>4. /\ IsFiniteSet(m..n)
      /\ Cardinality(m..n) = IF m > n THEN 0 ELSE n - m + 1
  BY FS_Interval
<1>. QED BY <1>3, <1>4, FS_Bijection

LEMMA ListedFinite ==
    ASSUME TypeOK
    PROVE  \A S \in SUBSET ToSet(listing) :
              /\ IsFiniteSet(S) /\ Cardinality(S) \in Nat
              /\ \A T \in SUBSET S : Cardinality(T) <= Cardinality(S)
<1>1. IsFiniteSet(ToSet(listing))
  BY ListingType, BlockSize
<1>. QED BY <1>1, FS_Subset, FS_CardinalityType

(* Who is listed before an article is above it.                             *)
LEMMA BlockAbove ==
    ASSUME TypeOK, Sorted, NEW m \in Nat \ {0}, NEW n \in Nat,
           NEW i \in DOMAIN listing, n < i
    PROVE  Block(m, n) \subseteq Above(listing[i])
<1>1. SUFFICES ASSUME NEW k \in m..n
               PROVE  listing[k] \in Above(listing[i])
  BY DEF Block
<1>2. k \in DOMAIN listing /\ k <= i /\ k # i /\ i \in 1..Len(listing)
  BY ListingType
<1>3. listing[k] # listing[i] /\ listing[k] \in ToSet(listing)
  BY <1>2, ListingType DEF ToSet
<1>. QED BY <1>2, <1>3 DEF Sorted, Above

LEMMA TurnedType ==
    ASSUME TypeOK
    PROVE  /\ PageSize \in Nat /\ PageSize > 0 /\ page \in Nat /\ page >= 1
           /\ (page - 1) * PageSize \in Nat
           /\ page * PageSize = (page - 1) * PageSize + PageSize
           /\ page > 1 => (page - 1) * PageSize >= PageSize
           /\ Turned \in Nat
<1>1. PageSize \in Nat /\ PageSize > 0 /\ page \in Nat /\ page >= 1
  BY SearchAssumption DEF TypeOK
<1>2. /\ (page - 1) * PageSize \in Nat
      /\ page * PageSize = (page - 1) * PageSize + PageSize
  BY <1>1
<1>3. ASSUME page > 1
      PROVE  (page - 1) * PageSize >= PageSize
  <2>1. page - 2 \in Nat /\ (page - 2) * PageSize \in Nat
    BY <1>1, <1>3
  <2>2. (page - 1) * PageSize = (page - 2) * PageSize + PageSize
    BY <1>1
  <2>. QED BY <1>1, <2>1, <2>2
<1>. QED BY <1>1, <1>2, <1>3 DEF Turned

(* A new article pushes every other one down by one.                        *)
LEMMA ListShift ==
    ASSUME TypeOK, NEW a \in Articles, List(a)
    PROVE  /\ a \notin ToSet(listing)
           /\ Len(listing') = Len(listing) + 1
           /\ DOMAIN listing' = 1..Len(listing')
           /\ listing'[1] = a
           /\ \A i \in DOMAIN listing' \ {1} :
                 i - 1 \in DOMAIN listing /\ listing'[i] = listing[i - 1]
           /\ \A i \in DOMAIN listing :
                 i + 1 \in DOMAIN listing' /\ listing'[i + 1] = listing[i]
           /\ ToSet(listing') = ToSet(listing) \cup {a}
           /\ published'[a] = now
           /\ \A b \in ToSet(listing) :
                 published'[b] = published[b] /\ stamp'[b] = stamp[b]
           /\ arrived' = arrived \cup {a}
<1>1. a \notin ToSet(listing)
  BY DEF List, Listed
<1>2. /\ <<a>> \in Seq(Articles) /\ Len(<<a>>) = 1 /\ <<a>>[1] = a
      /\ listing \in Seq(Articles) /\ Len(listing) \in Nat
      /\ DOMAIN listing = 1..Len(listing)
  BY LenProperties DEF TypeOK
<1>3. /\ listing' \in Seq(Articles)
      /\ Len(listing') = Len(listing) + 1
      /\ \A i \in 1..Len(listing') :
            listing'[i] = IF i <= 1 THEN a ELSE listing[i - 1]
  BY <1>2, ConcatProperties DEF List
<1>4. DOMAIN listing' = 1..Len(listing')
  BY <1>3, LenProperties
<1>5. listing'[1] = a
  BY <1>2, <1>3
<1>6. /\ \A i \in DOMAIN listing' \ {1} :
            i - 1 \in DOMAIN listing /\ listing'[i] = listing[i - 1]
      /\ \A i \in DOMAIN listing :
            i + 1 \in DOMAIN listing' /\ listing'[i + 1] = listing[i]
  BY <1>2, <1>3, <1>4
<1>7. ToSet(listing') = ToSet(listing) \cup {a}
  <2>1. ASSUME NEW x \in ToSet(listing')
        PROVE  x \in ToSet(listing) \cup {a}
    BY <1>5, <1>6, <2>1 DEF ToSet
  <2>2. ASSUME NEW x \in ToSet(listing)
        PROVE  x \in ToSet(listing')
    BY <1>6, <2>2 DEF ToSet
  <2>3. a \in ToSet(listing')
    BY <1>2, <1>3, <1>4, <1>5 DEF ToSet
  <2>. QED BY <2>1, <2>2, <2>3
<1>8. /\ published'[a] = now
      /\ \A b \in ToSet(listing) :
            published'[b] = published[b] /\ stamp'[b] = stamp[b]
  BY <1>1, ListingType DEF List, TypeOK
<1>. QED BY <1>1, <1>3, <1>4, <1>5, <1>6, <1>7, <1>8 DEF List

LEMMA SortedStep ==
    ASSUME TypeOK, Sorted, [Next]_vars
    PROVE  Sorted'
<1>1. CASE UNCHANGED site
  BY <1>1 DEF Sorted, site
<1>2. CASE Tick
  BY <1>2, ListingType DEF Tick, Sorted
<1>3. ASSUME NEW a \in Articles, List(a)
      PROVE  Sorted'
  <2>1. now' = now /\ now \in Nat
    BY <1>3, ListingType DEF List
  <2>2. \A i \in DOMAIN listing' : published'[listing'[i]] <= now
    <3>1. SUFFICES ASSUME NEW i \in DOMAIN listing', i # 1
                   PROVE  published'[listing'[i]] <= now
      BY <1>3, <2>1, ListShift
    <3>2. i - 1 \in DOMAIN listing /\ listing'[i] = listing[i - 1]
      BY <1>3, <3>1, ListShift
    <3>3. listing[i - 1] \in ToSet(listing)
      BY <3>2 DEF ToSet
    <3>. QED BY <1>3, <3>2, <3>3, ListShift DEF Sorted
  <2>3. ASSUME NEW i \in DOMAIN listing', NEW j \in DOMAIN listing', i <= j
        PROVE  published'[listing'[i]] >= published'[listing'[j]]
    <3>1. CASE i = 1
      <4>1. published'[listing'[i]] = now /\ published'[listing'[j]] <= now
        BY <1>3, <2>2, <3>1, ListShift
      <4>2. published'[listing'[j]] \in Nat
        <5>1. TypeOK'
          BY <1>3, TypeStep DEF Next
        <5>2. \A a_1 \in Articles : published'[a_1] \in Nat
          BY <5>1, SearchAssumption DEF TypeOK, Time
        <5>3. listing'[j] \in Articles
          BY <1>3, ListShift, ListingType DEF ToSet
        <5>. QED BY <5>2, <5>3
      <4>. QED BY <2>1, <4>1, <4>2
    <3>2. CASE i # 1
      <4>1. j # 1 /\ i \in Nat /\ j \in Nat
        BY <1>3, <2>3, <3>2, ListShift, ListingType
      <4>2. /\ i - 1 \in DOMAIN listing /\ listing'[i] = listing[i - 1]
            /\ j - 1 \in DOMAIN listing /\ listing'[j] = listing[j - 1]
        BY <1>3, <3>2, <4>1, ListShift
      <4>3. /\ listing[i - 1] \in ToSet(listing)
            /\ listing[j - 1] \in ToSet(listing)
        BY <4>2 DEF ToSet
      <4>4. published[listing[i - 1]] >= published[listing[j - 1]]
        BY <2>3, <4>1, <4>2 DEF Sorted
      <4>. QED BY <1>3, <4>2, <4>3, <4>4, ListShift
    <3>. QED BY <3>1, <3>2
  <2>. QED BY <2>1, <2>2, <2>3 DEF Sorted
<1>. QED
  BY <1>1, <1>2, <1>3
     DEF Next, Begin, VisitPage, PageFails, HandleItem, EndPage, vars, site

(* What an article's dates say does not change while it is listed.          *)
LEMMA UnusableKept ==
    ASSUME UNCHANGED <<published, stamp, since>>
    PROVE  \A b : Unusable(b)' <=> Unusable(b)
BY DEF Unusable, LinkDate, PageDate

LEMMA ListKeeps ==
    ASSUME TypeOK, NEW a \in Articles, List(a)
    PROVE  /\ \A b \in ToSet(listing) :
                 /\ Unusable(b)' <=> Unusable(b)
                 /\ Above(b) \subseteq Above(b)'
           /\ Waiting \subseteq ToSet(listing) /\ Waiting' = Waiting
<1>1. \A b \in ToSet(listing) :
         /\ Unusable(b)' <=> Unusable(b)
         /\ Above(b) \subseteq Above(b)'
  <2>1. /\ ToSet(listing) \subseteq ToSet(listing') /\ since' = since
        /\ \A b \in ToSet(listing) :
              published'[b] = published[b] /\ stamp'[b] = stamp[b]
    BY ListShift DEF List, search
  <2>2. ASSUME NEW b \in ToSet(listing)
        PROVE  Unusable(b)' <=> Unusable(b)
    BY <2>1 DEF Unusable, LinkDate, PageDate
  <2>3. ASSUME NEW b \in ToSet(listing)
        PROVE  Above(b) \subseteq Above(b)'
    BY <2>1 DEF Above
  <2>. QED BY <2>2, <2>3
<1>2. Waiting \subseteq ToSet(listing) /\ Waiting' = Waiting
  <2>1. Reached' = Reached
    BY DEF List, search, Reached
  <2>2. /\ ToSet(listing') = ToSet(listing) \cup {a} /\ a \notin ToSet(listing)
        /\ arrived' = arrived \cup {a}
    BY ListShift
  <2>3. ToSet(listing') \ arrived' = ToSet(listing) \ arrived
    BY <2>2
  <2>. QED BY <2>1, <2>3 DEF Waiting
<1>. QED BY <1>1, <1>2

LEMMA ArrivedListed ==
    ASSUME TypeOK, PushedInv
    PROVE  arrived \subseteq ToSet(listing)
<1>1. PICK n \in 0..Len(listing) : Pushed(n)
  BY DEF PushedInv
<1>2. Block(1, n) \subseteq Block(1, Len(listing))
  BY ListingType DEF Block
<1>. QED BY <1>1, <1>2, ListingType DEF Pushed

(***************************************************************************)
(* A new article moves every position down by one and is the first of the  *)
(* listing: nothing else of what the search knows changes.                 *)
(***************************************************************************)
LEMMA ListStep ==
    ASSUME TypeOK, SearchInv, NEW a \in Articles, List(a)
    PROVE  SearchInv'
<1>0. IsFiniteSet(ToSet(listing'))
  BY ListedFinite, ListShift, FS_AddElement
<1>1. /\ pc' = pc /\ page' = page /\ items' = items /\ since' = since
      /\ seenLinks' = seenLinks /\ articles' = articles
      /\ preFetchCount' = preFetchCount /\ broken' = broken
  BY DEF List, search
<1>2. /\ Reached' = Reached /\ Turned' = Turned /\ Turned \in Nat
      /\ (NothingNew' <=> NothingNew) /\ \A b : InResult(b)' <=> InResult(b)
  BY <1>1, TurnedType DEF Reached, Turned, NothingNew, InResult
<1>3. Sorted'
  BY SortedStep DEF SearchInv, Next
<1>4. PushedInv'
  <2>1. PICK n \in 0..Len(listing) : Pushed(n)
    BY DEF SearchInv, PushedInv
  <2>2. n + 1 \in 0..Len(listing') /\ n \in Nat
    BY ListShift, ListingType
  <2>3. arrived' = Block(1, n + 1)'
    <3>1. Block(1, n + 1)' = {listing'[i] : i \in 1..(n + 1)}
      BY DEF Block
    <3>2. \A i \in 1..n : i \in DOMAIN listing /\ i + 1 \in 1..(n + 1)
                          /\ listing'[i + 1] = listing[i]
      BY <2>2, ListShift, ListingType
    <3>3. \A i \in 1..(n + 1) :
             i # 1 => i - 1 \in 1..n /\ listing'[i] = listing[i - 1]
      <4>1. \A i \in 1..(n + 1) : i \in DOMAIN listing' /\ (i # 1 => i - 1 \in 1..n)
        BY <2>2, ListShift
      <4>. QED BY <4>1, ListShift
    <3>4. listing'[1] = a /\ arrived' = Block(1, n) \cup {a} /\ 1 \in 1..(n + 1)
      BY <2>1, <2>2, ListShift DEF Pushed
    <3>5. {listing'[i] : i \in 1..(n + 1)} = {listing[i] : i \in 1..n} \cup {a}
      <4>1. ASSUME NEW i \in 1..(n + 1)
            PROVE  listing'[i] \in {listing[k] : k \in 1..n} \cup {a}
        BY <3>3, <3>4
      <4>2. ASSUME NEW i \in 1..n
            PROVE  listing[i] \in {listing'[k] : k \in 1..(n + 1)}
        BY <3>2
      <4>3. a \in {listing'[k] : k \in 1..(n + 1)}
        BY <3>4
      <4>. QED BY <4>1, <4>2, <4>3
    <3>. QED BY <3>1, <3>4, <3>5 DEF Block
  <2>4. ASSUME pc # "idle", NEW i \in DOMAIN listing',
               listing'[i] \in Reached, i > n + 1
        PROVE  i <= Turned + n + 1
    <3>1. i \in Nat /\ i # 1
      BY <2>2, <2>4, ListShift, ListingType
    <3>2. i - 1 \in DOMAIN listing /\ listing'[i] = listing[i - 1]
      BY <3>1, ListShift
    <3>3. i - 1 <= Turned + n
      BY <2>1, <2>2, <2>4, <3>1, <3>2 DEF Pushed
    <3>. QED BY <1>2, <2>2, <3>1, <3>3
  <2>5. Pushed(n + 1)'
    BY <1>1, <1>2, <2>2, <2>3, <2>4 DEF Pushed
  <2>. QED BY <2>2, <2>5 DEF PushedInv
<1>5. AheadInv'
  <2>1. SUFFICES ASSUME pc # "idle", NEW i \in DOMAIN listing',
                        listing'[i] \in Waiting
                 PROVE  i > Turned
    BY <1>1, <1>2, ListKeeps DEF AheadInv
  <2>2. i # 1 /\ i \in Nat
    BY <2>1, ListShift, ListKeeps, ListingType
  <2>3. i - 1 \in DOMAIN listing /\ listing'[i] = listing[i - 1]
    BY <2>2, ListShift
  <2>4. i - 1 > Turned
    BY <2>1, <2>3 DEF SearchInv, AheadInv
  <2>. QED BY <1>2, <2>2, <2>4
<1>6. HandledInv'
  <2>1. SUFFICES ASSUME pc # "idle"
                 PROVE  /\ pc = "page" => items = <<>>
                        /\ Reached \subseteq ToSet(listing')
                        /\ IsInjective(items)
                        /\ \A b \in seenLinks : \/ published'[b] < since
                                                \/ Unusable(b)'
                                                \/ InResult(b)
    BY <1>1, <1>2 DEF HandledInv
  <2>2. /\ pc = "page" => items = <<>>
        /\ Reached \subseteq ToSet(listing) /\ IsInjective(items)
        /\ \A b \in seenLinks :
              published[b] < since \/ Unusable(b) \/ InResult(b)
    BY <2>1 DEF SearchInv, HandledInv
  <2>3. seenLinks \subseteq ToSet(listing)
    BY <2>2 DEF Reached
  <2>. QED BY <2>2, <2>3, ListShift, ListKeeps
<1>7. PageInv'
  <2>1. SUFFICES ASSUME pc = "items", NEW b \in Waiting, published'[b] >= since
                 PROVE  \E B \in SUBSET Above(b)' : \E Q \in SUBSET B :
                           FullPage(B, Q)'
    BY <1>1, ListKeeps DEF PageInv
  <2>2. b \in ToSet(listing) /\ published[b] >= since
    BY <2>1, ListKeeps, ListShift
  <2>3. PICK B \in SUBSET Above(b) : \E Q \in SUBSET B : FullPage(B, Q)
    BY <2>1, <2>2 DEF SearchInv, PageInv
  <2>4. PICK Q \in SUBSET B : FullPage(B, Q)
    BY <2>3
  <2>5. B \subseteq ToSet(listing)
    BY DEF Above
  <2>6. /\ arrived \subseteq arrived' /\ arrived' \subseteq ToSet(listing')
        /\ Cardinality(arrived \ B) <= Cardinality(arrived' \ B)
    <3>1. arrived \subseteq ToSet(listing)
      BY ArrivedListed DEF SearchInv
    <3>2. arrived' \ B \subseteq ToSet(listing')
      BY <3>1, ListShift
    <3>3. IsFiniteSet(arrived' \ B)
      BY <1>0, <3>2, FS_Subset
    <3>4. arrived \ B \in SUBSET (arrived' \ B)
      BY ListShift
    <3>. QED BY <3>1, <3>3, <3>4, ListShift, FS_Subset
  <2>7. /\ Cardinality(Q) \in Nat /\ Cardinality(arrived \ B) \in Nat
        /\ Cardinality(arrived' \ B) \in Nat
    <3>1. /\ IsFiniteSet(Q) /\ IsFiniteSet(arrived \ B)
          /\ IsFiniteSet(arrived' \ B)
      BY <1>0, <2>5, <2>6, ListShift, FS_Subset
    <3>. QED BY <3>1, FS_CardinalityType
  <2>8. FullPage(B, Q)'
    BY <1>1, <1>2, <2>4, <2>5, <2>6, <2>7, ListKeeps DEF FullPage
  <2>9. B \subseteq Above(b)'
    BY <2>2, ListKeeps
  <2>. QED BY <2>8, <2>9
<1>8. SearchFindsAll'
  <2>1. SUFFICES ASSUME pc = "idle", NEW b \in ToSet(listing) \ arrived
                 PROVE  \/ published'[b] < since
                        \/ \E s \in ToSet(articles) : s.article = b
                        \/ broken
                        \/ Unusable(b)'
                        \/ Cardinality(Above(b)') >= Pages * PageSize
                        \/ Cardinality({c \in Above(b)' :
                                           c \in arrived' \/ Unusable(c)'})
                           >= PageSize
    BY <1>1, ListShift DEF SearchFindsAll
  <2>. DEFINE W == {c \in Above(b) : c \in arrived \/ Unusable(c)}
              V == {c \in Above(b)' : c \in arrived' \/ Unusable(c)'}
  <2>2. /\ Above(b) \subseteq ToSet(listing) /\ Above(b)' \subseteq ToSet(listing')
        /\ Above(b) \subseteq Above(b)'
    BY ListKeeps DEF Above
  <2>3. W \subseteq V /\ V \subseteq ToSet(listing')
    BY <2>2, ListKeeps, ListShift
  <2>4. /\ Cardinality(Above(b)) <= Cardinality(Above(b)')
        /\ Cardinality(Above(b)) \in Nat /\ Cardinality(Above(b)') \in Nat
    <3>1. IsFiniteSet(Above(b)') /\ IsFiniteSet(Above(b))
      BY <1>0, <2>2, FS_Subset
    <3>. QED BY <2>2, <3>1, FS_Subset, FS_CardinalityType
  <2>5. /\ Cardinality(W) <= Cardinality(V)
        /\ Cardinality(W) \in Nat /\ Cardinality(V) \in Nat
    <3>1. IsFiniteSet(V) /\ IsFiniteSet(W)
      BY <1>0, <2>3, FS_Subset
    <3>. QED BY <2>3, <3>1, FS_Subset, FS_CardinalityType
  <2>6. \/ published[b] < since
        \/ \E s \in ToSet(articles) : s.article = b
        \/ broken
        \/ Unusable(b)
        \/ Cardinality(Above(b)) >= Pages * PageSize
        \/ Cardinality(W) >= PageSize
    BY <2>1 DEF SearchInv, SearchFindsAll
  <2>7. /\ PageSize \in Nat /\ Pages * PageSize \in Nat
        /\ published'[b] = published[b] /\ (Unusable(b)' <=> Unusable(b))
    BY ListShift, ListKeeps, SearchAssumption
  <2>. HIDE DEF W, V
  <2>8. \/ published'[b] < since
        \/ \E s \in ToSet(articles) : s.article = b
        \/ broken
        \/ Unusable(b)'
        \/ Cardinality(Above(b)') >= Pages * PageSize
        \/ Cardinality(V) >= PageSize
    BY <2>4, <2>5, <2>6, <2>7
  <2>. QED BY <2>8 DEF V
<1>. QED BY <1>3, <1>4, <1>5, <1>6, <1>7, <1>8 DEF SearchInv

LEMMA InInterval ==
    ASSUME NEW lo \in Nat, NEW hi \in Nat, NEW n \in Nat, hi <= n,
           NEW i \in (lo + 1)..hi
    PROVE  i \in 1..n
OBVIOUS

LEMMA ListingBlock ==
    ASSUME TypeOK, NEW lo \in Nat, NEW hi \in Nat, hi <= Len(listing),
           NEW s, s = SubSeq(listing, lo + 1, hi)
    PROVE  ToSet(s) = Block(lo + 1, hi) /\ IsInjective(s)
<1>1. Len(listing) \in Nat
  BY ListingType
<1>2. \A i \in (lo + 1)..hi : i \in 1..Len(listing)
  BY <1>1, InInterval
<1>3. \A i \in (lo + 1)..hi : listing[i] \in Articles
  BY <1>2, ListingType
<1>4. /\ s \in Seq(Articles)
      /\ Len(s) = IF lo + 1 <= hi THEN hi - lo ELSE 0
      /\ \A i \in 1..(hi - lo) : s[i] = listing[lo + i]
  <2>1. lo + 1 \in Int /\ hi \in Int /\ hi - (lo + 1) + 1 = hi - lo
    OBVIOUS
  <2>2. /\ s \in Seq(Articles)
        /\ Len(s) = IF lo + 1 <= hi THEN hi - (lo + 1) + 1 ELSE 0
        /\ \A i \in 1..(hi - (lo + 1) + 1) : s[i] = listing[lo + 1 + i - 1]
    BY <1>3, <2>1, SubSeqProperties
  <2>3. \A i \in 1..(hi - lo) : lo + 1 + i - 1 = lo + i
    OBVIOUS
  <2>. QED BY <2>1, <2>2, <2>3
<1>5. DOMAIN s = 1..Len(s)
  BY <1>4, LenProperties
<1>6. \A i \in DOMAIN s : i \in 1..(hi - lo) /\ lo + i \in (lo + 1)..hi
  BY <1>4, <1>5
<1>7. ToSet(s) = Block(lo + 1, hi)
  <2>1. ASSUME NEW i \in DOMAIN s
        PROVE  s[i] \in Block(lo + 1, hi)
    BY <1>4, <1>6 DEF Block
  <2>2. ASSUME NEW k \in (lo + 1)..hi
        PROVE  listing[k] \in ToSet(s)
    <3>1. k - lo \in DOMAIN s /\ k - lo \in 1..(hi - lo) /\ lo + (k - lo) = k
      BY <1>4, <1>5
    <3>. QED BY <1>4, <3>1 DEF ToSet
  <2>. QED BY <2>1, <2>2 DEF ToSet, Block
<1>8. IsInjective(s)
  <2>1. SUFFICES ASSUME NEW i \in DOMAIN s, NEW j \in DOMAIN s, s[i] = s[j]
                 PROVE  i = j
    BY DEF IsInjective
  <2>2. /\ i \in 1..(hi - lo) /\ lo + i \in (lo + 1)..hi
        /\ j \in 1..(hi - lo) /\ lo + j \in (lo + 1)..hi
    BY <1>6, <2>1
  <2>3. listing[lo + i] = listing[lo + j]
    BY <1>4, <2>1, <2>2
  <2>4. lo + i = lo + j
    BY <1>2, <2>2, <2>3, ListingType
  <2>. QED BY <2>2, <2>4
<1>. QED BY <1>7, <1>8

(* The items of a page are a block of the listing.                          *)
LEMMA PageItems ==
    ASSUME TypeOK, NEW lo, lo = (page - 1) * PageSize,
           NEW hi, hi = IF lo + PageSize < Len(listing) THEN lo + PageSize
                        ELSE Len(listing)
    PROVE  /\ lo \in Nat /\ hi \in Nat /\ hi <= Len(listing)
           /\ ToSet(PageOf(page)) = Block(lo + 1, hi)
           /\ IsInjective(PageOf(page))
<1>1. /\ lo \in Nat /\ Len(listing) \in Nat /\ PageSize \in Nat
      /\ page * PageSize = lo + PageSize
  BY TurnedType, ListingType
<1>2. lo + PageSize \in Nat
  BY <1>1
<1>3. hi = lo + PageSize \/ hi = Len(listing)
  OBVIOUS
<1>4. hi \in Nat /\ hi <= Len(listing)
  BY <1>1, <1>2, <1>3
<1>5. PageOf(page) = SubSeq(listing, lo + 1, hi)
  BY <1>1 DEF PageOf
<1>. QED BY <1>1, <1>4, <1>5, ListingBlock

(***************************************************************************)
(* The new articles outside of a full page, at positions lo + 1 to         *)
(* lo + PageSize, are as many as its items that were handled before: those *)
(* were on the pages before it, until n new articles pushed them down.     *)
(***************************************************************************)
LEMMA PushedOnPage ==
    ASSUME TypeOK, NEW n \in 0..Len(listing), NEW lo \in Nat,
           lo = (page - 1) * PageSize, lo + PageSize <= Len(listing),
           NEW Q, Q \subseteq Block(lo + 1, lo + PageSize),
           \A i \in DOMAIN listing : listing[i] \in Q => i > n /\ i <= lo + n
    PROVE  Cardinality(Q) <= Cardinality(Block(1, n) \ Block(lo + 1, lo + PageSize))
<1>. DEFINE hi == lo + PageSize
            B == Block(lo + 1, hi)
<1>1. /\ PageSize \in Nat /\ PageSize > 0 /\ n \in Nat /\ n <= Len(listing)
      /\ hi \in Nat /\ hi <= Len(listing) /\ Len(listing) \in Nat
      /\ lo = 0 \/ lo >= PageSize
  BY TurnedType, ListingType
<1>. HIDE DEF hi
<1>2. ASSUME NEW q \in Q
      PROVE  \E i \in (lo + 1)..hi : /\ i \in DOMAIN listing /\ q = listing[i]
                                     /\ i > n /\ i <= lo + n
  <2>1. PICK i \in (lo + 1)..hi : q = listing[i]
    BY DEF Block, hi
  <2>2. i \in DOMAIN listing
    BY <1>1, ListingType
  <2>. QED BY <2>1, <2>2
<1>3. IsFiniteSet(Block(1, n) \ B)
  <2>1. IsFiniteSet(Block(1, n))
    BY <1>1, BlockSize
  <2>. QED BY <2>1, FS_Difference
<1>4. CASE n <= lo
  <2>1. Q \subseteq Block(lo + 1, IF lo + n < hi THEN lo + n ELSE hi)
    <3>1. SUFFICES ASSUME NEW q \in Q
                   PROVE  q \in Block(lo + 1, IF lo + n < hi THEN lo + n ELSE hi)
      OBVIOUS
    <3>2. PICK i \in (lo + 1)..hi : q = listing[i] /\ i <= lo + n
      BY <1>2
    <3>3. i \in (lo + 1)..(IF lo + n < hi THEN lo + n ELSE hi)
      BY <1>1, <3>2
    <3>. QED BY <3>2, <3>3 DEF Block
  <2>. DEFINE m == IF lo + n < hi THEN lo + n ELSE hi
  <2>2. m \in Nat /\ m <= Len(listing) /\ m <= lo + n
    BY <1>1
  <2>. HIDE DEF m
  <2>3. /\ IsFiniteSet(Block(lo + 1, m))
        /\ Cardinality(Block(lo + 1, m)) = IF lo + 1 > m THEN 0 ELSE m - (lo + 1) + 1
    BY <2>2, BlockSize
  <2>4. Cardinality(Block(lo + 1, m)) <= n
    BY <1>1, <2>2, <2>3
  <2>5. Block(1, n) \ B = Block(1, n)
    <3>1. ASSUME NEW i \in 1..n, NEW k \in (lo + 1)..hi
          PROVE  listing[i] # listing[k]
      BY <1>1, <1>4, ListingType
    <3>. QED BY <3>1 DEF Block
  <2>6. Cardinality(Block(1, n)) = n
    <3>1. Cardinality(Block(1, n)) = IF 1 > n THEN 0 ELSE n - 1 + 1
      BY <1>1, BlockSize
    <3>. QED BY <1>1, <3>1
  <2>7. /\ Cardinality(Q) <= Cardinality(Block(lo + 1, m))
        /\ Cardinality(Q) \in Nat /\ Cardinality(Block(lo + 1, m)) \in Nat
    <3>1. IsFiniteSet(Q) /\ Cardinality(Q) <= Cardinality(Block(lo + 1, m))
      BY <2>1, <2>3, FS_Subset DEF m
    <3>. QED BY <2>3, <3>1, FS_CardinalityType
  <2>8. Cardinality(Q) <= n
    BY <1>1, <2>4, <2>7
  <2>. QED BY <2>5, <2>6, <2>8 DEF hi
<1>5. CASE n > lo
  <2>1. Q \subseteq Block(n + 1, hi)
    <3>1. SUFFICES ASSUME NEW q \in Q
                   PROVE  q \in Block(n + 1, hi)
      OBVIOUS
    <3>2. PICK i \in (lo + 1)..hi : q = listing[i] /\ i > n
      BY <1>2
    <3>3. i \in (n + 1)..hi
      BY <1>1, <3>2
    <3>. QED BY <3>2, <3>3 DEF Block
  <2>2. /\ IsFiniteSet(Block(n + 1, hi))
        /\ Cardinality(Block(n + 1, hi)) = IF n + 1 > hi THEN 0 ELSE hi - (n + 1) + 1
    <3>1. n + 1 \in Nat \ {0} /\ hi \in Nat /\ hi <= Len(listing)
      BY <1>1
    <3>. HIDE DEF B
    <3>. QED BY <3>1, BlockSize
  <2>3. Block(1, lo) \subseteq Block(1, n) \ B
    <3>1. ASSUME NEW i \in 1..lo, NEW k \in (lo + 1)..hi
          PROVE  listing[i] # listing[k]
      BY <1>1, ListingType
    <3>2. 1..lo \subseteq 1..n
      BY <1>1, <1>5
    <3>. QED BY <3>1, <3>2 DEF Block
  <2>4. /\ IsFiniteSet(Block(1, lo)) /\ Cardinality(Block(1, lo)) = lo
    <3>1. lo <= Len(listing)
      BY <1>1 DEF hi
    <3>2. /\ IsFiniteSet(Block(1, lo))
          /\ Cardinality(Block(1, lo)) = IF 1 > lo THEN 0 ELSE lo - 1 + 1
      BY <3>1, BlockSize
    <3>. QED BY <3>2
  <2>5. /\ lo <= Cardinality(Block(1, n) \ B)
        /\ Cardinality(Block(1, n) \ B) \in Nat
    <3>1. Cardinality(Block(1, lo)) <= Cardinality(Block(1, n) \ B)
      BY <1>3, <2>3, FS_Subset
    <3>. QED BY <1>3, <2>4, <3>1, FS_CardinalityType
  <2>6. /\ Cardinality(Q) <= Cardinality(Block(n + 1, hi))
        /\ Cardinality(Q) \in Nat
    <3>1. IsFiniteSet(Q) /\ Cardinality(Q) <= Cardinality(Block(n + 1, hi))
      BY <2>1, <2>2, FS_Subset
    <3>. QED BY <3>1, FS_CardinalityType
  <2>7. CASE lo = 0
    <3>1. Q = {}
      BY <1>1, <1>2, <2>7
    <3>. QED BY <2>5, <2>7, <3>1, FS_EmptySet DEF hi
  <2>8. CASE lo >= PageSize
    <3>1. Cardinality(Block(n + 1, hi)) <= lo
      BY <1>1, <1>5, <2>2, <2>8 DEF hi
    <3>. QED BY <2>2, <2>5, <2>6, <3>1, FS_CardinalityType DEF hi
  <2>. QED BY <1>1, <2>7, <2>8
<1>. QED BY <1>1, <1>4, <1>5

(* A page brings the block of the listing below those of the pages before   *)
(* it, and whoever is not on it yet is below it.                            *)
LEMMA VisitStep ==
    ASSUME TypeOK, SearchInv, VisitPage
    PROVE  SearchInv'
<1>. DEFINE lo == (page - 1) * PageSize
            hi == IF lo + PageSize < Len(listing) THEN lo + PageSize
                  ELSE Len(listing)
            B == Block(lo + 1, hi)
            Q == (B \cap seenLinks) \ arrived
<1>1. /\ pc = "page" /\ pc' = "items" /\ items = <<>>
      /\ listing' = listing /\ published' = published /\ stamp' = stamp
      /\ now' = now /\ since' = since /\ page' = page
      /\ seenLinks' = seenLinks /\ arrived' = arrived /\ broken' = broken
      /\ articles' = articles /\ items' = PageOf(page)
  BY DEF VisitPage, site, SearchInv, HandledInv
<1>2. /\ lo \in Nat /\ hi \in Nat /\ hi <= Len(listing)
      /\ ToSet(items') = B /\ IsInjective(items')
  BY <1>1, PageItems
<1>3. /\ PageSize \in Nat /\ page * PageSize = lo + PageSize
      /\ Turned = lo /\ Turned' = lo + PageSize
      /\ Len(listing) \in Nat /\ DOMAIN listing = 1..Len(listing)
  BY <1>1, TurnedType, ListingType DEF Turned
<1>4. /\ hi = lo + PageSize \/ hi = Len(listing)
      /\ hi <= lo + PageSize
  BY <1>2, <1>3
<1>5. Reached = seenLinks /\ Reached' = seenLinks \cup B
  BY <1>1, <1>2 DEF Reached, ToSet
<1>6. /\ \A b : Unusable(b)' <=> Unusable(b)
      /\ \A b : Above(b)' = Above(b)
      /\ \A b : InResult(b)' <=> InResult(b)
  BY <1>1, UnusableKept DEF Above, InResult
<1>. HIDE DEF lo, hi
<1>7. \A i \in DOMAIN listing : (listing[i] \in B) <=> (i \in (lo + 1)..hi)
  <2>1. (lo + 1)..hi \subseteq 1..Len(listing)
    BY <1>2, <1>3
  <2>. QED BY <1>3, <2>1, ListingType DEF Block
<1>. HIDE DEF B
<1>8. PushedInv'
  <2>1. PICK n \in 0..Len(listing) : Pushed(n)
    BY DEF SearchInv, PushedInv
  <2>2. n \in Nat
    BY <1>3
  <2>3. ASSUME NEW i \in DOMAIN listing, listing[i] \in seenLinks \cup B, i > n
        PROVE  i <= lo + PageSize + n
    <3>1. i \in Nat
      BY <1>3
    <3>2. CASE listing[i] \in seenLinks
      <4>1. i <= lo + n
        BY <1>1, <1>3, <1>5, <2>1, <2>3, <3>2 DEF Pushed
      <4>. QED BY <1>2, <1>3, <2>2, <3>1, <4>1
    <3>3. CASE listing[i] \in B
      <4>1. i \in (lo + 1)..hi
        BY <1>7, <3>3
      <4>2. i <= hi /\ hi <= lo + PageSize
        BY <1>4, <4>1
      <4>. QED BY <1>2, <1>3, <2>2, <3>1, <4>2
    <3>. QED BY <2>3, <3>2, <3>3
  <2>4. Pushed(n)'
    BY <1>1, <1>3, <1>5, <2>1, <2>3 DEF Pushed, Block
  <2>. QED BY <1>1, <2>1, <2>4 DEF PushedInv
<1>9. ASSUME NEW i \in DOMAIN listing, listing[i] \in Waiting'
      PROVE  /\ listing[i] \in Waiting /\ i > lo + PageSize
             /\ hi = lo + PageSize /\ hi < i
  <2>1. listing[i] \in Waiting /\ listing[i] \notin B
    BY <1>1, <1>5, <1>9 DEF Waiting
  <2>2. i > lo /\ i \in Nat /\ i <= Len(listing)
    BY <1>1, <1>3, <2>1 DEF SearchInv, AheadInv
  <2>3. i > hi
    BY <1>2, <1>7, <2>1, <2>2
  <2>4. hi # Len(listing)
    <3>1. Len(listing) \in Nat /\ hi \in Nat
      BY <1>2, <1>3
    <3>. QED BY <2>2, <2>3, <3>1
  <2>5. hi = lo + PageSize
    BY <1>4, <2>4
  <2>. QED BY <1>2, <2>1, <2>2, <2>3, <2>5
<1>10. AheadInv'
  BY <1>1, <1>3, <1>9 DEF AheadInv
<1>11. HandledInv'
  <2>1. B \subseteq ToSet(listing)
    BY <1>2, <1>3 DEF Block, ToSet, B
  <2>. QED BY <1>1, <1>2, <1>5, <1>6, <2>1 DEF SearchInv, HandledInv
<1>12. PageInv'
  <2>1. SUFFICES ASSUME NEW a \in Waiting'
                 PROVE  \E B_1 \in SUBSET Above(a)' : \E Q_1 \in SUBSET B_1 :
                           FullPage(B_1, Q_1)'
    BY <1>1 DEF PageInv
  <2>2. PICK i \in DOMAIN listing : a = listing[i]
    BY <1>1, <2>1 DEF Waiting, ToSet
  <2>3. hi = lo + PageSize /\ hi < i
    BY <1>9, <2>1, <2>2
  <2>4. B \subseteq Above(a)
    <3>1. lo + 1 \in Nat \ {0}
      BY <1>2
    <3>. QED BY <1>2, <2>2, <2>3, <3>1, BlockAbove DEF SearchInv, B
  <2>5. Cardinality(B) = PageSize
    <3>1. Cardinality(B) = IF lo + 1 > hi THEN 0 ELSE hi - (lo + 1) + 1
      BY <1>2, BlockSize DEF B
    <3>. QED BY <1>2, <1>3, <2>3, <3>1
  <2>6. Cardinality(Q) <= Cardinality(arrived \ B)
    <3>1. PICK n \in 0..Len(listing) : Pushed(n)
      BY DEF SearchInv, PushedInv
    <3>2. ASSUME NEW k \in DOMAIN listing, listing[k] \in Q
          PROVE  k > n /\ k <= lo + n
      <4>1. k \notin 1..n
        BY <3>1, <3>2 DEF Pushed, Block
      <4>2. k > n
        BY <1>3, <4>1
      <4>. QED BY <1>1, <1>3, <1>5, <3>1, <3>2, <4>2 DEF Pushed
    <3>3. Q \subseteq Block(lo + 1, lo + PageSize) /\ lo + PageSize <= Len(listing)
      BY <1>2, <2>3 DEF B
    <3>4. Cardinality(Q)
          <= Cardinality(Block(1, n) \ Block(lo + 1, lo + PageSize))
      BY <1>2, <3>2, <3>3, PushedOnPage DEF lo
    <3>. QED BY <2>3, <3>1, <3>4 DEF Pushed, B
  <2>7. PICK B_1, Q_1 : B_1 = B /\ Q_1 = Q
    OBVIOUS
  <2>8. FullPage(B_1, Q_1)'
    BY <1>1, <1>2, <2>5, <2>6, <2>7 DEF FullPage
  <2>. QED BY <1>6, <2>4, <2>7, <2>8
<1>13. Sorted' /\ SearchFindsAll'
  BY <1>1, SortedStep DEF SearchInv, Next, SearchFindsAll
<1>. QED BY <1>8, <1>10, <1>11, <1>12, <1>13 DEF SearchInv

LEMMA ItemsLeft ==
    ASSUME TypeOK, items # <<>>, IsInjective(items)
    PROVE  /\ Head(items) \in ToSet(items)
           /\ ToSet(Tail(items)) = ToSet(items) \ {Head(items)}
           /\ IsInjective(Tail(items))
<1>1. /\ items \in Seq(Articles) /\ Len(items) \in Nat \ {0}
      /\ DOMAIN items = 1..Len(items) /\ Head(items) = items[1]
      /\ Tail(items) \in Seq(Articles) /\ Len(Tail(items)) = Len(items) - 1
      /\ \A i \in 1..Len(Tail(items)) : Tail(items)[i] = items[i + 1]
  BY HeadTailProperties, EmptySeq, LenProperties DEF TypeOK
<1>2. DOMAIN Tail(items) = 1..Len(Tail(items))
  BY <1>1, LenProperties
<1>3. \A i, j \in DOMAIN items : items[i] = items[j] => i = j
  BY DEF IsInjective
<1>4. /\ 1 \in DOMAIN items
      /\ \A i \in DOMAIN Tail(items) :
            i \in Nat /\ i + 1 \in DOMAIN items /\ i + 1 # 1
            /\ Tail(items)[i] = items[i + 1]
      /\ \A i \in DOMAIN items \ {1} :
            i - 1 \in DOMAIN Tail(items) /\ Tail(items)[i - 1] = items[i]
  <2>1. \A i \in 1..(Len(items) - 1) : i \in Nat /\ i + 1 \in 1..Len(items) /\ i + 1 # 1
    BY <1>1
  <2>2. \A i \in 1..Len(items) \ {1} : i - 1 \in 1..(Len(items) - 1) /\ (i - 1) + 1 = i
    BY <1>1
  <2>3. 1 \in 1..Len(items)
    BY <1>1
  <2>. QED BY <1>1, <1>2, <2>1, <2>2, <2>3
<1>5. IsInjective(Tail(items))
  <2>1. SUFFICES ASSUME NEW i \in DOMAIN Tail(items), NEW j \in DOMAIN Tail(items),
                        Tail(items)[i] = Tail(items)[j]
                 PROVE  i = j
    BY DEF IsInjective
  <2>2. i + 1 = j + 1 /\ i \in Nat /\ j \in Nat
    BY <1>3, <1>4, <2>1
  <2>. QED BY <2>2
<1>6. ASSUME NEW x \in ToSet(Tail(items))
      PROVE  x \in ToSet(items) \ {Head(items)}
  <2>1. PICK i \in DOMAIN Tail(items) : x = Tail(items)[i]
    BY <1>6 DEF ToSet
  <2>2. i + 1 \in DOMAIN items /\ x = items[i + 1] /\ i + 1 # 1
    BY <1>4, <2>1
  <2>. QED BY <1>1, <1>3, <1>4, <2>2 DEF ToSet
<1>7. ASSUME NEW x \in ToSet(items) \ {Head(items)}
      PROVE  x \in ToSet(Tail(items))
  <2>1. PICK i \in DOMAIN items \ {1} : x = items[i]
    BY <1>1, <1>7 DEF ToSet
  <2>. QED BY <1>4, <2>1 DEF ToSet
<1>. QED BY <1>1, <1>4, <1>5, <1>6, <1>7 DEF ToSet

LEMMA QuotientAndRest ==
    ASSUME NEW unit \in Nat \ {0}, NEW k \in Nat
    PROVE  k = (unit * (k \div unit)) + (k % unit)
<1>1. unit \in Nat /\ unit > 0
  OBVIOUS
<1>. QED BY <1>1

(* A date of the minute is not before a minute that the exact one is not    *)
(* before.                                                                  *)
LEMMA FloorKeepsUnits ==
    ASSUME NEW unit \in Nat \ {0}, NEW t \in Nat, NEW u \in Nat,
           u % unit = 0, Floor(t, unit) < u
    PROVE  t < u
<1>1. /\ t % unit \in 0..(unit - 1) /\ t \div unit \in Nat /\ u \div unit \in Nat
      /\ t = (unit * (t \div unit)) + (t % unit)
      /\ u = (unit * (u \div unit)) + (u % unit)
  <2>1. \A k \in Nat : k % unit \in 0..(unit - 1) /\ k \div unit \in Nat
    OBVIOUS
  <2>2. \A k \in Nat : k = (unit * (k \div unit)) + (k % unit)
    BY QuotientAndRest
  <2>. QED BY <2>1, <2>2
<1>. DEFINE p == t \div unit
            q == u \div unit
            r == t % unit
<1>2. /\ p \in Nat /\ q \in Nat /\ r \in 0..(unit - 1)
      /\ t = unit * p + r /\ u = unit * q /\ unit * p < unit * q
  BY <1>1 DEF Floor
<1>. HIDE DEF p, q, r
<1>3. p < q
  <2>1. SUFFICES ASSUME q <= p
                 PROVE  FALSE
    BY <1>2
  <2>2. p - q \in Nat /\ unit * (p - q) \in Nat
    BY <1>2, <2>1
  <2>3. unit * p = unit * q + unit * (p - q)
    BY <1>2
  <2>. QED BY <1>2, <2>2, <2>3
<1>4. unit * q = unit * p + unit * (q - p) /\ unit * (q - p) >= unit
  <2>1. q - p - 1 \in Nat /\ unit * (q - p - 1) \in Nat
    BY <1>2, <1>3
  <2>2. unit * (q - p) = unit * (q - p - 1) + unit
    BY <1>2
  <2>3. unit * q = unit * p + unit * (q - p)
    BY <1>2
  <2>. QED BY <1>2, <2>1, <2>2, <2>3
<1>. QED BY <1>2, <1>4

(* What becomes of an item: it is found unless it was handled before or its *)
(* dates forbid it.                                                         *)
LEMMA HandleOutcome ==
    ASSUME TypeOK, HandleItem
    PROVE  /\ \/ articles' = articles
              \/ \E e \in Scraped : /\ articles' = Append(articles, e)
                                    /\ e.article = Head(items)
           /\ \/ Head(items) \in seenLinks
              \/ published[Head(items)] < since
              \/ Unusable(Head(items))
              \/ \E e \in Scraped : /\ articles' = Append(articles, e)
                                    /\ e.article = Head(items)
<1>. DEFINE a == Head(items)
            New == \E e \in Scraped : articles' = Append(articles, e) /\ e.article = a
<1>1. /\ a \in Articles /\ published[a] \in Nat /\ since \in Nat
      /\ LinkDate(a) \in Time /\ PageDate(a) \in Time
      /\ LinkDate(a) \in Nat /\ PageDate(a) \in Nat /\ Minute \in Nat \ {0}
  <2>1. a \in Articles
    BY HeadTailProperties DEF HandleItem, TypeOK
  <2>. QED BY <2>1, DateType, ListingType, SearchAssumption DEF Time
<1>. HIDE DEF a
<1>2. ASSUME NEW date \in {LinkDate(a), PageDate(a)}, Found(a, date)
      PROVE  \/ date < since /\ articles' = articles
             \/ New
  <2>1. [article |-> a, date |-> date] \in Scraped
    BY <1>1 DEF Scraped
  <2>. QED BY <1>2, <2>1 DEF Found
<1>3. CASE Skipped(a) /\ articles' = articles
  BY <1>3 DEF Skipped, Unusable, a
<1>4. CASE ~Skipped(a) /\ Found(a, LinkDate(a))
  <2>1. LinkDate(a) >= since
    BY <1>1, <1>4 DEF Skipped
  <2>2. New
    BY <1>1, <1>2, <1>4, <2>1
  <2>. QED BY <2>2 DEF a
<1>5. CASE ~Skipped(a) /\ Found(a, PageDate(a))
  <2>1. LinkDate(a) >= since
    BY <1>1, <1>5 DEF Skipped
  <2>2. CASE New
    BY <2>2 DEF a
  <2>3. CASE articles' = articles /\ PageDate(a) < since
    <3>1. CASE since % Minute # 0
      BY <2>3, <3>1 DEF Unusable, a
    <3>2. CASE since % Minute = 0
      <4>1. PageDate(a) = Floor(published[a], Minute)
        BY <1>1, <2>1, <2>3 DEF PageDate
      <4>2. published[a] < since
        BY <1>1, <2>3, <3>2, <4>1, FloorKeepsUnits
      <4>. QED BY <2>3, <4>2 DEF a
    <3>. QED BY <3>1, <3>2
  <2>. QED BY <1>2, <1>5, <2>2, <2>3
<1>. QED BY <1>3, <1>4, <1>5 DEF HandleItem, a

LEMMA HandleStep ==
    ASSUME TypeOK, SearchInv, HandleItem
    PROVE  SearchInv'
<1>0. PICK a : a = Head(items)
  OBVIOUS
<1>. DEFINE New == \E e \in Scraped : articles' = Append(articles, e) /\ e.article = a
<1>1. /\ pc = "items" /\ pc' = pc /\ items # <<>> /\ items' = Tail(items)
      /\ seenLinks' = seenLinks \cup {a}
      /\ listing' = listing /\ published' = published /\ stamp' = stamp
      /\ now' = now /\ since' = since /\ page' = page /\ arrived' = arrived
      /\ preFetchCount' = preFetchCount /\ broken' = broken
  BY <1>0 DEF HandleItem, Remember, site
<1>2. /\ a \in ToSet(items) /\ ToSet(items') = ToSet(items) \ {a}
      /\ IsInjective(items')
  BY <1>0, <1>1, ItemsLeft DEF SearchInv, HandledInv
<1>3. /\ articles' = articles \/ New
      /\ a \in seenLinks \/ published[a] < since \/ Unusable(a) \/ New
  BY <1>0, HandleOutcome
<1>4. /\ Reached' = Reached /\ Waiting' = Waiting /\ Turned' = Turned
  <2>1. Reached' = Reached
    BY <1>1, <1>2 DEF Reached
  <2>. QED BY <1>1, <2>1 DEF Waiting, Turned
<1>5. /\ \A b : Unusable(b)' <=> Unusable(b)
      /\ \A b : Above(b)' = Above(b)
  BY <1>1, UnusableKept DEF Above
<1>6. New => /\ \A b : InResult(b) => InResult(b)'
             /\ InResult(a)'
             /\ ~NothingNew'
  <2>1. SUFFICES ASSUME NEW e \in Scraped, articles' = Append(articles, e),
                        e.article = a
                 PROVE  /\ \A b : InResult(b) => InResult(b)'
                        /\ InResult(a)'
                        /\ ~NothingNew'
    OBVIOUS
  <2>2. /\ Len(articles) \in Nat /\ DOMAIN articles = 1..Len(articles)
        /\ Len(articles') = Len(articles) + 1
        /\ DOMAIN articles' = 1..(Len(articles) + 1)
        /\ \A i \in 1..Len(articles) : articles'[i] = articles[i]
        /\ articles'[Len(articles) + 1] = e
    BY <2>1, AppendProperties, LenProperties DEF TypeOK
  <2>3. /\ Len(articles) + 1 \in DOMAIN articles'
        /\ DOMAIN articles \subseteq DOMAIN articles'
    BY <2>2
  <2>4. preFetchCount \in Nat /\ preFetchCount <= Len(articles)
    BY <2>2 DEF TypeOK
  <2>5. Len(articles') # preFetchCount'
    BY <1>1, <2>2, <2>4
  <2>6. \A b : InResult(b) => InResult(b)'
    BY <2>2, <2>3 DEF InResult
  <2>7. InResult(a)'
    BY <2>1, <2>2, <2>3 DEF InResult
  <2>. QED BY <2>5, <2>6, <2>7 DEF NothingNew
<1>7. (articles' = articles) =>
         /\ \A b : InResult(b)' <=> InResult(b)
         /\ NothingNew' <=> NothingNew
  BY <1>1 DEF InResult, NothingNew
<1>8. PushedInv' /\ AheadInv'
  <2>1. PICK n \in 0..Len(listing) : Pushed(n)
    BY DEF SearchInv, PushedInv
  <2>2. Pushed(n)'
    BY <1>1, <1>4, <2>1 DEF Pushed, Block
  <2>. QED BY <1>1, <1>4, <2>2 DEF SearchInv, AheadInv, PushedInv
<1>9. HandledInv'
  <2>1. /\ Reached \subseteq ToSet(listing)
        /\ \A b \in seenLinks :
              published[b] < since \/ Unusable(b) \/ InResult(b)
    BY <1>1 DEF SearchInv, HandledInv
  <2>2. ASSUME NEW b \in seenLinks'
        PROVE  published[b] < since \/ Unusable(b) \/ InResult(b)'
    <3>1. CASE b \in seenLinks
      BY <1>3, <1>6, <1>7, <2>1, <3>1
    <3>2. CASE b = a
      BY <1>3, <1>6, <1>7, <2>1, <3>2
    <3>. QED BY <1>1, <2>2, <3>1, <3>2
  <2>. QED BY <1>1, <1>2, <1>4, <1>5, <2>1, <2>2 DEF HandledInv
<1>10. PageInv'
  <2>1. SUFFICES ASSUME NEW w \in Waiting, published[w] >= since
                 PROVE  \E B \in SUBSET Above(w) : \E Q \in SUBSET B :
                           FullPage(B, Q)'
    BY <1>1, <1>4, <1>5 DEF PageInv
  <2>2. PICK B \in SUBSET Above(w) : \E Q \in SUBSET B : FullPage(B, Q)
    BY <1>1, <2>1 DEF SearchInv, PageInv
  <2>3. PICK Q \in SUBSET B : FullPage(B, Q)
    BY <2>2
  <2>4. ASSUME NothingNew', NEW b \in B \ ToSet(items')
        PROVE  b \in Q \cup arrived \/ Unusable(b)
    <3>1. NothingNew /\ ~New
      BY <1>3, <1>6, <1>7, <2>4
    <3>2. CASE b # a
      BY <1>2, <2>3, <2>4, <3>1, <3>2 DEF FullPage
    <3>3. CASE b = a
      <4>1. published[a] >= published[w]
        BY <2>2, <3>3 DEF Above
      <4>2. ~(published[a] < since)
        <5>1. a \in Articles /\ w \in Articles
          BY <2>2, <3>3, ListingType DEF Above, Waiting
        <5>2. published[a] \in Nat /\ published[w] \in Nat /\ since \in Nat
          BY <5>1, ListingType
        <5>. QED BY <2>1, <4>1, <5>2
      <4>3. a \in seenLinks \/ Unusable(a)
        BY <1>3, <3>1, <4>2
      <4>. QED BY <1>2, <2>3, <3>3, <4>3 DEF FullPage
    <3>. QED BY <3>2, <3>3
  <2>5. /\ Cardinality(B) = PageSize
        /\ ToSet(items') \subseteq B
        /\ ToSet(items') \cap seenLinks' \subseteq Q \cup arrived
        /\ Cardinality(Q) <= Cardinality(arrived \ B)
    BY <1>1, <1>2, <2>3 DEF FullPage
  <2>6. FullPage(B, Q)'
    BY <1>1, <1>5, <2>4, <2>5 DEF FullPage
  <2>. QED BY <2>6
<1>11. Sorted' /\ SearchFindsAll'
  BY <1>1, SortedStep DEF SearchInv, Next, SearchFindsAll
<1>. QED BY <1>8, <1>9, <1>10, <1>11 DEF SearchInv

LEMMA BeginStep ==
    ASSUME TypeOK, SearchInv, Begin
    PROVE  SearchInv'
<1>1. /\ pc' = "page" /\ page' = 1 /\ items' = <<>> /\ seenLinks' = {}
      /\ articles' = <<>> /\ arrived' = {}
      /\ listing' = listing /\ published' = published
  BY DEF Begin, site
<1>2. Reached' = {} /\ Turned' = 0 /\ PageSize \in Nat
  <2>1. ToSet(items') = {} /\ 0 * PageSize = 0 /\ PageSize \in Nat
    BY <1>1, TurnedType DEF ToSet
  <2>. QED BY <1>1, <2>1 DEF Reached, Turned
<1>3. PushedInv'
  <2>1. 0 \in 0..Len(listing) /\ Block(1, 0)' = {}
    BY ListingType DEF Block
  <2>2. Pushed(0)'
    BY <1>1, <1>2, <2>1 DEF Pushed
  <2>. QED BY <1>1, <2>1, <2>2 DEF PushedInv
<1>4. AheadInv'
  BY <1>1, <1>2, ListingType DEF AheadInv
<1>5. HandledInv' /\ PageInv' /\ SearchFindsAll'
  BY <1>1, <1>2 DEF HandledInv, PageInv, SearchFindsAll, IsInjective
<1>6. Sorted'
  BY SortedStep DEF SearchInv, Next
<1>. QED BY <1>3, <1>4, <1>5, <1>6 DEF SearchInv

LEMMA FinishStep ==
    ASSUME TypeOK, SearchInv, [Next]_vars, pc' = "idle", UNCHANGED <<site, arrived>>
    PROVE  Sorted' /\ PushedInv' /\ AheadInv' /\ HandledInv' /\ PageInv'
<1>1. PICK n \in 0..Len(listing) : Pushed(n)
  BY DEF SearchInv, PushedInv
<1>2. Pushed(n)' /\ listing' = listing
  BY <1>1 DEF Pushed, Block, site
<1>. QED BY <1>1, <1>2, SortedStep
         DEF SearchInv, PushedInv, AheadInv, HandledInv, PageInv

(* An article the search has not come across when it ends is on none of     *)
(* three pages, or the last page was full of items it could not have.       *)
LEMMA Missed ==
    ASSUME TypeOK, SearchInv, pc = "items", items = <<>>,
           NothingNew \/ ~MorePages,
           NEW a \in Waiting, published[a] >= since
    PROVE  \/ Cardinality(Above(a)) >= Pages * PageSize
           \/ Cardinality({b \in Above(a) : b \in arrived \/ Unusable(b)}) >= PageSize
<1>1. PICK i \in DOMAIN listing : a = listing[i]
  BY DEF Waiting, ToSet
<1>2. /\ i \in 1..Len(listing) /\ Len(listing) \in Nat
      /\ Above(a) \subseteq ToSet(listing) /\ IsFiniteSet(Above(a))
      /\ Cardinality(Above(a)) \in Nat
  BY ListingType, ListedFinite DEF Above
<1>3. CASE ~MorePages
  <2>1. page = Pages /\ Turned = Pages * PageSize
    BY <1>3, SearchAssumption DEF MorePages, TypeOK, Turned
  <2>. DEFINE t == Turned
  <2>2. t \in Nat /\ i > t
    BY <1>1, TurnedType DEF SearchInv, AheadInv
  <2>. HIDE DEF t
  <2>3. Cardinality(Block(1, t)) = t
    <3>1. t <= Len(listing)
      BY <1>2, <2>2
    <3>2. Cardinality(Block(1, t)) = IF 1 > t THEN 0 ELSE t - 1 + 1
      BY <2>2, <3>1, BlockSize
    <3>. QED BY <2>2, <3>2
  <2>4. Block(1, t) \subseteq Above(a)
    BY <1>1, <2>2, BlockAbove DEF SearchInv
  <2>5. Cardinality(Block(1, t)) <= Cardinality(Above(a))
    BY <1>2, <2>4, FS_Subset
  <2>6. t <= Cardinality(Above(a))
    BY <2>3, <2>5
  <2>. QED BY <1>2, <2>1, <2>2, <2>6 DEF t
<1>4. CASE NothingNew
  <2>. DEFINE W == {b \in Above(a) : b \in arrived \/ Unusable(b)}
  <2>1. PICK B \in SUBSET Above(a) : \E Q \in SUBSET B : FullPage(B, Q)
    BY DEF SearchInv, PageInv
  <2>2. PICK Q \in SUBSET B : FullPage(B, Q)
    BY <2>1
  <2>3. ToSet(items) = {}
    BY DEF ToSet
  <2>4. PICK n \in 0..Len(listing) : Pushed(n)
    BY DEF SearchInv, PushedInv
  <2>5. arrived \subseteq Above(a)
    <3>1. n \in Nat /\ arrived = Block(1, n) /\ a \notin arrived
      BY <1>2, <2>4 DEF Pushed, Waiting
    <3>2. n < i
      <4>1. i \notin 1..n
        BY <1>1, <3>1 DEF Block
      <4>. QED BY <1>2, <3>1, <4>1
    <3>. QED BY <1>1, <3>1, <3>2, BlockAbove DEF SearchInv
  <2>6. B \ Q \subseteq W
    BY <1>4, <2>2, <2>3 DEF FullPage
  <2>7. arrived \ B \subseteq W
    BY <2>5
  <2>8. IsFiniteSet(B) /\ IsFiniteSet(W) /\ IsFiniteSet(arrived)
    BY <1>2, <2>5, FS_Subset
  <2>9. Cardinality(Q) <= Cardinality(arrived \ B) /\ Cardinality(B) = PageSize
    BY <2>2 DEF FullPage
  <2>. HIDE DEF W
  <2>10. Cardinality(W) >= PageSize
    BY <2>6, <2>7, <2>8, <2>9, CountBlocked
  <2>. QED BY <2>10 DEF W
<1>. QED BY <1>3, <1>4

LEMMA EndStep ==
    ASSUME TypeOK, SearchInv, EndPage
    PROVE  SearchInv'
<1>1. /\ pc = "items" /\ items = <<>> /\ UNCHANGED <<site, arrived>>
      /\ listing' = listing /\ published' = published /\ stamp' = stamp
      /\ since' = since /\ articles' = articles /\ arrived' = arrived
  BY DEF EndPage, site
<1>2. /\ \A b : Unusable(b)' <=> Unusable(b)
      /\ \A b : Above(b)' = Above(b)
      /\ \A b : InResult(b)' <=> InResult(b)
  BY <1>1, UnusableKept DEF Above, InResult
<1>3. CASE (NothingNew \/ ~MorePages) /\ Finish
  <2>1. pc' = "idle"
    BY <1>3 DEF Finish
  <2>2. Sorted' /\ PushedInv' /\ AheadInv' /\ HandledInv' /\ PageInv'
    BY <1>1, <2>1, FinishStep DEF Next
  <2>3. ASSUME NEW a \in ToSet(listing) \ arrived
        PROVE  \/ published[a] < since
               \/ \E s \in ToSet(articles) : s.article = a
               \/ Unusable(a)
               \/ Cardinality(Above(a)) >= Pages * PageSize
               \/ Cardinality({b \in Above(a) : b \in arrived \/ Unusable(b)})
                  >= PageSize
    <3>1. CASE a \in Waiting
      <4>1. published[a] \in Nat /\ since \in Nat
        BY <2>3, ListingType
      <4>2. published[a] < since \/ published[a] >= since
        BY <4>1
      <4>. QED BY <1>1, <1>3, <3>1, <4>2, Missed
    <3>2. CASE a \in Reached
      <4>1. a \in seenLinks
        BY <1>1, <3>2 DEF Reached, ToSet
      <4>2. published[a] < since \/ Unusable(a) \/ InResult(a)
        BY <1>1, <4>1 DEF SearchInv, HandledInv
      <4>. QED BY <4>2 DEF InResult, ToSet
    <3>. QED BY <2>3, <3>1, <3>2 DEF Waiting
  <2>4. SearchFindsAll'
    BY <1>1, <1>2, <2>3 DEF SearchFindsAll
  <2>. QED BY <2>2, <2>4 DEF SearchInv
<1>4. CASE /\ pc' = "page" /\ page' = page + 1
           /\ UNCHANGED <<items, seenLinks, preFetchCount>>
  <2>1. Turned' = Turned /\ Reached' = Reached /\ Waiting' = Waiting
    <3>1. page \in Nat /\ page + 1 - 1 = page
      BY TurnedType
    <3>. QED BY <1>1, <1>4, <3>1 DEF Turned, Reached, Waiting
  <2>2. PushedInv'
    <3>1. PICK n \in 0..Len(listing) : Pushed(n)
      BY DEF SearchInv, PushedInv
    <3>2. Pushed(n)'
      BY <1>1, <1>4, <2>1, <3>1 DEF Pushed, Block
    <3>. QED BY <1>1, <3>1, <3>2 DEF PushedInv
  <2>3. AheadInv'
    BY <1>1, <1>4, <2>1 DEF SearchInv, AheadInv
  <2>4. HandledInv'
    BY <1>1, <1>2, <1>4, <2>1 DEF SearchInv, HandledInv
  <2>5. PageInv' /\ SearchFindsAll' /\ Sorted'
    BY <1>4, SortedStep DEF PageInv, SearchFindsAll, SearchInv, Next
  <2>. QED BY <2>2, <2>3, <2>4, <2>5 DEF SearchInv
<1>. QED BY <1>3, <1>4 DEF EndPage

LEMMA SearchStep ==
    ASSUME TypeOK, SearchInv, [Next]_vars
    PROVE  SearchInv'
<1>1. CASE PageFails
  <2>1. pc' = "idle" /\ broken' /\ UNCHANGED <<site, arrived>>
    BY <1>1 DEF PageFails, Finish
  <2>2. Sorted' /\ PushedInv' /\ AheadInv' /\ HandledInv' /\ PageInv'
    BY <2>1, FinishStep
  <2>. QED BY <2>1, <2>2 DEF SearchInv, SearchFindsAll
<1>2. CASE Tick \/ UNCHANGED vars
  <2>1. UNCHANGED <<listing, published, stamp, pc, search, arrived, broken>>
    BY <1>2 DEF Tick, vars, search
  <2>2. Sorted'
    BY SortedStep DEF SearchInv
  <2>3. /\ Reached' = Reached /\ Waiting' = Waiting /\ Turned' = Turned
        /\ (NothingNew' <=> NothingNew)
        /\ \A b : Unusable(b)' <=> Unusable(b)
        /\ \A b : Above(b)' = Above(b)
        /\ \A b : InResult(b)' <=> InResult(b)
    BY <2>1, UnusableKept
       DEF search, Reached, Waiting, Turned, NothingNew, Above, InResult
  <2>4. PushedInv'
    BY <2>1, <2>3 DEF SearchInv, PushedInv, Pushed, Block, search
  <2>5. AheadInv' /\ HandledInv'
    BY <2>1, <2>3 DEF SearchInv, AheadInv, HandledInv, search
  <2>6. PageInv'
    BY <2>1, <2>3 DEF SearchInv, PageInv, FullPage, search
  <2>7. SearchFindsAll'
    BY <2>1, <2>3 DEF SearchInv, SearchFindsAll, search
  <2>. QED BY <2>2, <2>4, <2>5, <2>6, <2>7 DEF SearchInv
<1>. QED BY <1>1, <1>2, BeginStep, VisitStep, HandleStep, EndStep, ListStep DEF Next

LEMMA SearchInit == Init => SearchInv
<1>1. SUFFICES ASSUME Init
               PROVE  SearchInv
  OBVIOUS
<1>2. /\ listing = <<>> /\ pc = "idle" /\ arrived = {} /\ DOMAIN listing = {}
      /\ Len(listing) = 0 /\ Block(1, 0) = {} /\ ToSet(listing) = {}
  BY <1>1 DEF Init, Block, ToSet
<1>3. PushedInv
  BY <1>2 DEF PushedInv, Pushed
<1>. QED BY <1>2, <1>3 DEF SearchInv, Sorted, AheadInv, HandledInv, PageInv,
                           SearchFindsAll

(***************************************************************************)
(* Whatever the size of a page and however many pages the search visits,   *)
(* an article it does not find is broken off, beyond the last page, of an  *)
(* unusable date, or behind as many unusable or new items as fill a page   *)
(* (cafef.go:92-184).                                                      *)
(***************************************************************************)
THEOREM FindsAll == Spec => []SearchFindsAll
<1>1. TypeOK /\ SearchInv /\ [Next]_vars => SearchInv'
  BY SearchStep
<1>2. SearchInv => SearchFindsAll
  BY DEF SearchInv
<1>. QED BY SearchInit, <1>1, <1>2, SearchTypes, PTL DEF Spec

-----------------------------------------------------------------------------
(* When a search is what ArticleFetch takes it for *)

(* Every result is on the site, and its date is not before the date asked   *)
(* for nor later than the article.                                          *)
ResultInv ==
    \A i \in DOMAIN articles :
        /\ articles[i].article \in ToSet(listing)
        /\ since <= articles[i].date
        /\ articles[i].date <= published[articles[i].article]

LEMMA FloorBelow ==
    ASSUME NEW t \in Nat, NEW unit \in Nat \ {0}
    PROVE  Floor(t, unit) \in Nat /\ Floor(t, unit) <= t
<1>1. unit \in Nat /\ unit > 0
  OBVIOUS
<1>2. t % unit \in Nat /\ t \div unit \in Nat /\ t = (unit * (t \div unit)) + (t % unit)
  BY <1>1
<1>3. unit * (t \div unit) \in Nat
  BY <1>1, <1>2
<1>. DEFINE m == t % unit
            p == unit * (t \div unit)
<1>4. m \in Nat /\ p \in Nat /\ t = p + m
  BY <1>2, <1>3
<1>. HIDE DEF m, p
<1>5. t - m \in Nat /\ t - m <= t
  BY <1>4
<1>. QED BY <1>5 DEF Floor, m

LEMMA DateBelow ==
    ASSUME TypeOK, NEW a \in Articles
    PROVE  LinkDate(a) <= published[a] /\ PageDate(a) <= published[a]
<1>1. published[a] \in Nat /\ Day \in Nat \ {0} /\ Minute \in Nat \ {0}
  BY ListingType, SearchAssumption
<1>2. /\ Floor(published[a], Day) <= published[a]
      /\ Floor(published[a], Minute) <= published[a]
  BY <1>1, FloorBelow
<1>3. LinkDate(a) <= published[a]
  BY <1>1, <1>2 DEF LinkDate
<1>. QED BY <1>2, <1>3 DEF PageDate

LEMMA ResultStep ==
    ASSUME TypeOK, SearchInv, ResultInv, [Next]_vars
    PROVE  ResultInv'
<1>1. CASE Begin
  BY <1>1 DEF Begin, ResultInv
<1>2. CASE HandleItem
  <2>1. PICK a : a = Head(items)
    OBVIOUS
  <2>2. /\ a \in Articles /\ a \in ToSet(listing)
        /\ listing' = listing /\ published' = published /\ since' = since
    <3>1. a \in ToSet(items) /\ pc # "idle"
      BY <1>2, <2>1, ItemsLeft DEF HandleItem, SearchInv, HandledInv
    <3>2. a \in ToSet(listing)
      BY <3>1 DEF SearchInv, HandledInv, Reached
    <3>. QED BY <1>2, <3>2, ListingType DEF HandleItem, site
  <2>3. CASE articles' = articles
    BY <2>2, <2>3 DEF ResultInv
  <2>4. ASSUME NEW date \in {LinkDate(a), PageDate(a)}, ~(date < since),
               articles' = Append(articles, [article |-> a, date |-> date])
        PROVE  ResultInv'
    <3>. DEFINE e == [article |-> a, date |-> date]
    <3>1. date \in Nat /\ since \in Nat /\ date \in Time /\ date <= published[a]
      BY <2>2, DateType, DateBelow, ListingType DEF Time
    <3>2. e \in Scraped /\ articles \in Seq(Scraped)
      BY <2>2, <3>1 DEF Scraped, TypeOK
    <3>3. /\ DOMAIN articles = 1..Len(articles) /\ Len(articles) \in Nat
          /\ DOMAIN articles' = 1..(Len(articles) + 1)
          /\ \A i \in 1..Len(articles) : articles'[i] = articles[i]
          /\ articles'[Len(articles) + 1] = e
      BY <2>4, <3>2, AppendProperties, LenProperties
    <3>4. \A i \in DOMAIN articles' :
             \/ i \in DOMAIN articles /\ articles'[i] = articles[i]
             \/ articles'[i] = e
      BY <3>3
    <3>5. since <= date
      BY <2>4, <3>1
    <3>. QED BY <2>2, <3>1, <3>4, <3>5 DEF ResultInv
  <2>. QED BY <1>2, <2>1, <2>3, <2>4 DEF HandleItem, Found
<1>3. CASE VisitPage \/ PageFails \/ EndPage
  BY <1>3 DEF VisitPage, PageFails, EndPage, site, ResultInv
<1>4. CASE Tick \/ UNCHANGED vars
  BY <1>4 DEF Tick, vars, search, ResultInv
<1>5. ASSUME NEW a \in Articles, List(a)
      PROVE  ResultInv'
  <2>1. /\ articles' = articles /\ since' = since
        /\ ToSet(listing) \subseteq ToSet(listing')
        /\ \A b \in ToSet(listing) : published'[b] = published[b]
    BY <1>5, ListShift DEF List, search
  <2>. QED BY <2>1 DEF ResultInv
<1>. QED BY <1>1, <1>2, <1>3, <1>4, <1>5 DEF Next

Results == {s.article : s \in ToSet(articles)}

(* The listed articles with a date not before since.                        *)
Wanted == {a \in ToSet(listing) : published[a] >= since}

(* No page failed, dates are precise to what since is, and there are fewer  *)
(* new articles than a page has and fewer wanted ones than all pages have.  *)
Undisturbed ==
    /\ ~broken
    /\ Odd = {} /\ since % Minute = 0
    /\ Cardinality(arrived) < PageSize
    /\ Cardinality(Wanted) <= Pages * PageSize

Exact ==
    pc = "idle" =>
        /\ Results \subseteq Wanted
        /\ Undisturbed => Wanted \ arrived \subseteq Results

LEMMA ExactResult ==
    ASSUME TypeOK, SearchInv, ResultInv
    PROVE  Exact
<1>1. \A a \in ToSet(listing) : a \in Articles /\ published[a] \in Nat /\ since \in Nat
  BY ListingType
<1>2. Results \subseteq Wanted
  <2>1. SUFFICES ASSUME NEW i \in DOMAIN articles
                 PROVE  articles[i].article \in Wanted
    BY DEF Results, ToSet
  <2>2. articles[i] \in Scraped
    BY ElementOfSeq, LenProperties DEF TypeOK
  <2>3. /\ articles[i].article \in ToSet(listing)
        /\ since <= articles[i].date
        /\ articles[i].date <= published[articles[i].article]
        /\ articles[i].date \in Int
    BY <2>2 DEF ResultInv, Scraped, Time
  <2>. QED BY <1>1, <2>3 DEF Wanted
<1>3. ASSUME pc = "idle", Undisturbed, NEW a \in Wanted \ arrived
      PROVE  a \in Results
  <2>1. \A b \in Above(a) \cup {a} : b \in Wanted /\ ~Unusable(b)
    <3>1. SUFFICES ASSUME NEW b \in Above(a) \cup {a}
                   PROVE  b \in Wanted /\ ~Unusable(b)
      OBVIOUS
    <3>2. b \in ToSet(listing) /\ published[b] >= published[a]
      BY <1>1 DEF Above, Wanted
    <3>3. published[b] >= since /\ b \in Wanted
      BY <1>1, <3>2 DEF Wanted
    <3>4. stamp[b] = "full" /\ since % Minute = 0
      BY <1>3, <3>2 DEF Undisturbed, Odd
    <3>5. LinkDate(b) = published[b]
      BY <3>4 DEF LinkDate
    <3>. QED BY <1>1, <3>2, <3>3, <3>4, <3>5 DEF Unusable
  <2>2. Cardinality(Above(a)) < Pages * PageSize
    <3>1. /\ IsFiniteSet(Wanted) /\ Cardinality(Wanted) \in Nat
      BY ListedFinite DEF Wanted
    <3>2. Above(a) \subseteq Wanted \ {a} /\ a \in Wanted
      BY <2>1 DEF Above
    <3>3. /\ Cardinality(Wanted \ {a}) = Cardinality(Wanted) - 1
          /\ IsFiniteSet(Wanted \ {a})
      BY <3>1, <3>2, FS_RemoveElement
    <3>4. Cardinality(Above(a)) <= Cardinality(Wanted) - 1
      BY <3>2, <3>3, FS_Subset
    <3>5. Cardinality(Above(a)) \in Nat /\ Pages * PageSize \in Nat
      BY ListedFinite, SearchAssumption DEF Above
    <3>. QED BY <1>3, <3>1, <3>4, <3>5 DEF Undisturbed
  <2>3. Cardinality({b \in Above(a) : b \in arrived \/ Unusable(b)}) < PageSize
    <3>. DEFINE W == {b \in Above(a) : b \in arrived \/ Unusable(b)}
    <3>1. W \subseteq arrived
      BY <2>1
    <3>2. arrived \subseteq ToSet(listing)
      BY ArrivedListed DEF SearchInv
    <3>. HIDE DEF W
    <3>3. /\ Cardinality(W) <= Cardinality(arrived)
          /\ Cardinality(W) \in Nat /\ Cardinality(arrived) \in Nat
      BY <3>1, <3>2, ListedFinite
    <3>. QED BY <1>3, <3>3, TurnedType DEF Undisturbed, W
  <2>4. \/ published[a] < since
        \/ \E s \in ToSet(articles) : s.article = a
        \/ broken
        \/ Unusable(a)
        \/ Cardinality(Above(a)) >= Pages * PageSize
        \/ Cardinality({b \in Above(a) : b \in arrived \/ Unusable(b)}) >= PageSize
    BY <1>3 DEF SearchInv, SearchFindsAll, Wanted
  <2>5. ~(published[a] < since) /\ ~Unusable(a) /\ ~broken
    BY <1>1, <1>3, <2>1 DEF Wanted, Undisturbed
  <2>6. /\ ~(Cardinality(Above(a)) >= Pages * PageSize)
        /\ ~(Cardinality({b \in Above(a) : b \in arrived \/ Unusable(b)}) >= PageSize)
    <3>1. /\ Cardinality(Above(a)) \in Nat /\ Pages * PageSize \in Nat
          /\ Cardinality({b \in Above(a) : b \in arrived \/ Unusable(b)}) \in Nat
          /\ PageSize \in Nat
      BY ListedFinite, SearchAssumption DEF Above
    <3>. QED BY <2>2, <2>3, <3>1
  <2>. QED BY <2>4, <2>5, <2>6 DEF Results
<1>. QED BY <1>2, <1>3 DEF Exact

(***************************************************************************)
(* A search never returns but articles with a date not before since, and   *)
(* one that nothing disturbs returns them all, except for those listed     *)
(* while it went on, of which it may return some: it is the query that     *)
(* ArticleFetch.Fetch takes it for (cafef.go:60-184, article_fetch.go:     *)
(* 94-101).                                                                *)
(***************************************************************************)
THEOREM UndisturbedSearchIsExact == Spec => []Exact
<1>1. Init => SearchInv /\ ResultInv
  <2>1. Init => ResultInv
    BY DEF Init, ResultInv
  <2>. QED BY <2>1, SearchInit
<1>2. TypeOK /\ SearchInv /\ ResultInv /\ [Next]_vars => SearchInv' /\ ResultInv'
  BY SearchStep, ResultStep
<1>3. TypeOK /\ SearchInv /\ ResultInv => Exact
  BY ExactResult
<1>. QED BY <1>1, <1>2, <1>3, SearchTypes, PTL DEF Spec
=============================================================================
