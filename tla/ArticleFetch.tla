---------------------------- MODULE ArticleFetch ----------------------------
(***************************************************************************)
(* The article_fetch job (internal/worker/jobs/article_fetch.go) with the *)
(* crawler behind it (internal/modules/crawler), the keys                  *)
(* crawler:seen:<link> and lock:article_fetch in Redis and the rows of     *)
(* stock_draft_article and stock_crawler_metadata.                         *)
(*                                                                         *)
(* Several worker processes may be in Run at once: the lock has a TTL of   *)
(* two minutes and a run may take ten. A step is one call to Redis or      *)
(* PostgreSQL, or the search for one ticker.                               *)
(***************************************************************************)
EXTENDS Naturals

CONSTANTS
    Articles,      \* links on the news site
    Tickers,       \* symbols on some watchlist
    Mentions,      \* the tickers whose search lists an article
    Replicas,      \* worker processes whose scheduler runs the job
    Window,        \* 72 hours in the code, in units of the clock
    SeenTTL,       \* 7 days in the code
    FailingCalls,  \* the call sites at which an error may be returned
    MaxFaults,     \* bound on the number of injected errors
    MaxNow,        \* bound on the clock
    None           \* no result of a search

FetchErrors == {"symbols", "since", "page", "seen", "find", "insert",
                "lostInsert", "revert", "metadata", "release",
                "crash", "lockExpiry"}

(* A run takes less than a unit of the clock, so it sees at most one tick.  *)
ASSUME FetchAssumption ==
    /\ Mentions \in [Articles -> SUBSET Tickers]
    /\ Window \in Nat
    /\ SeenTTL \in Nat
    /\ SeenTTL > Window + 1
    /\ FailingCalls \subseteq FetchErrors
    /\ MaxFaults \in Nat
    /\ MaxNow \in Nat \ {0}
    /\ None \notin [article : Articles, ticker : Tickers]

VARIABLES
    now,        \* the clock, from 1
    published,  \* published[a]: date of the article, 0 while it is not on the site
    seenUntil,  \* seenUntil[a]: when the key crawler:seen:a expires, 0 without key
    row,        \* row[a]: "absent", "stored", or "digested" and deleted
    metadata,   \* metadata[t]: last_crawled_at, 0 without row (the year 2000)
    locked,     \* whether the key lock:article_fetch exists
    run,        \* run[r]: next call of r's run and its local variables
    lost,       \* articles a broken search, a failed revert or a crash left out,
    reverted,   \* those whose save failed and whose key was deleted again,
    unkeyed,    \* those saved without an answer of SETNX or of the INSERT
    faults      \* errors injected so far

rows == <<row, metadata>>
site == <<now, published>>
mishaps == <<lost, reverted, unkeyed>>   \* auxiliary, read by properties only
vars == <<now, published, seenUntil, row, metadata, locked, run,
          lost, reverted, unkeyed, faults>>

-----------------------------------------------------------------------------
(* Types *)

Time == 0..MaxNow

Scraped == [article : Articles, ticker : Tickers]

SavingLabels == {"find", "insert", "revert"}
Labels == {"symbols", "since", "crawl", "save", "release"} \cup SavingLabels

Run == [pc : Labels \cup {"idle"},
        start : Time,                   \* "now" of the run
        todo : SUBSET Tickers,          \* tickers the current loop has not visited
        since : [Tickers -> Time],      \* tickerMap
        scraped : SUBSET Scraped,       \* results not yet visited
        current : Scraped \cup {None},  \* the result being saved
        newest : [Tickers -> Time]]     \* tickerUpdateMap, 0 for no entry

NoDates == [t \in Tickers |-> 0]

NoRun == [pc |-> "idle", start |-> 0, todo |-> {}, since |-> NoDates,
          scraped |-> {}, current |-> None, newest |-> NoDates]

(***************************************************************************)
(* Dates are within the clock, a run that is saving has an article to save,*)
(* and it looks at the tickers of its map only (article_fetch.go:51-161).  *)
(***************************************************************************)
TypeOK ==
    /\ now \in 1..MaxNow
    /\ published \in [Articles -> Time]
    /\ seenUntil \in [Articles -> 0..(MaxNow + SeenTTL)]
    /\ row \in [Articles -> {"absent", "stored", "digested"}]
    /\ metadata \in [Tickers -> Time]
    /\ locked \in BOOLEAN
    /\ run \in [Replicas -> Run]
    /\ \A r \in Replicas :
          run[r].pc \in SavingLabels <=> run[r].current \in Scraped
    /\ lost \subseteq Articles /\ reverted \subseteq Articles
    /\ unkeyed \subseteq Articles
    /\ faults \in 0..MaxFaults

-----------------------------------------------------------------------------
(* The site, Redis and the tables *)

Listed(a) == published[a] > 0

(* Seeded fault: the filter drops what is as old as the newest draft. *)
NotBeforeStrict(a, since) == published[a] > since

(* "if publishedAt.Before(since) { return }" *)
NotBefore(a, since) == published[a] >= since

(* What the search for t has to offer since a date. *)
OnSite(t, since) ==
    {a \in Articles : Listed(a) /\ t \in Mentions[a] /\ NotBefore(a, since)}

(* Results come newest first: a search that breaks off has the newest.      *)
NewestOf(S) ==
    {T \in SUBSET S :
        \A a \in T, b \in S : published[b] > published[a] => b \in T}

Seen(a) == seenUntil[a] > now

(* Seeded fault: a TTL within the window of the search. *)
SetSeenShort(a) == seenUntil' = [seenUntil EXCEPT ![a] = now + Window]

SetSeen(a) == seenUntil' = [seenUntil EXCEPT ![a] = now + SeenTTL]

(* sinceThreshold: 72 hours before the run. *)
Threshold(r) == IF run[r].start > Window THEN run[r].start - Window ELSE 0

(* The later of last_crawled_at and the threshold. *)
SinceFor(r, t) ==
    IF metadata[t] < Threshold(r) THEN Threshold(r) ELSE metadata[t]

-----------------------------------------------------------------------------
(* Control *)

Fault(call) ==
    /\ call \in FailingCalls
    /\ faults < MaxFaults
    /\ faults' = faults + 1

Running(r) == run[r].pc # "idle"
Current(r) == run[r].current.article

EndRun(r) == run' = [run EXCEPT ![r] = NoRun]

(* "continue", or the end of the loop body without a new draft. *)
NextResult(r) ==
    run' = [run EXCEPT ![r].pc = "save", ![r].current = None]

(* A new draft: its date counts for the metadata of its ticker. *)
Drafted(r) ==
    LET t == run[r].current.ticker
        date == published[Current(r)]
    IN  run' = [run EXCEPT ![r].pc = "save", ![r].current = None,
                           ![r].newest[t] = IF date > @ THEN date ELSE @]

Goto(r, label) == run' = [run EXCEPT ![r].pc = label]

-----------------------------------------------------------------------------
(* ArticleFetchJob.Run *)

(* AcquireLock; a run that finds the key returns at once. *)
StartRun(r) ==
    /\ ~Running(r)
    /\ ~locked
    /\ locked' = TRUE
    /\ Goto(r, "symbols")
    /\ UNCHANGED <<site, seenUntil, rows, mishaps, faults>>

(* GetAllUniqueSymbols, and the "now" of the run. *)
ListSymbols(r) ==
    /\ run[r].pc = "symbols"
    /\ run' = [run EXCEPT ![r].pc = IF Tickers = {} THEN "release" ELSE "since",
                          ![r].todo = Tickers, ![r].start = now]
    /\ UNCHANGED <<site, seenUntil, rows, locked, mishaps, faults>>

SetSince(r, t, date) ==
    run' = [run EXCEPT
               ![r].since[t] = date,
               ![r].pc = IF run[r].todo = {t} THEN "crawl" ELSE "since",
               ![r].todo = IF run[r].todo = {t} THEN Tickers ELSE @ \ {t}]

(* GetLastCrawledAt *)
ReadMetadata(r, t) ==
    /\ run[r].pc = "since"
    /\ t \in run[r].todo
    /\ SetSince(r, t, SinceFor(r, t))
    /\ UNCHANGED <<site, seenUntil, rows, locked, mishaps, faults>>

AddResults(r, t, S) ==
    run' = [run EXCEPT
               ![r].scraped = @ \cup [article : S, ticker : {t}],
               ![r].pc = IF run[r].todo = {t} THEN "save" ELSE "crawl",
               ![r].todo = @ \ {t}]

(* One Fetch of Crawl; they run concurrently and never report an error. *)
Fetch(r, t) ==
    /\ run[r].pc = "crawl"
    /\ t \in run[r].todo
    /\ AddResults(r, t, OnSite(t, run[r].since[t]))
    /\ UNCHANGED <<site, seenUntil, rows, locked, mishaps, faults>>

(* SETNX crawler:seen:<link> *)
CheckSeen(r) ==
    /\ run[r].pc = "save"
    /\ \E s \in run[r].scraped :
          \/ /\ ~Seen(s.article)
             /\ SetSeen(s.article)
             /\ run' = [run EXCEPT ![r].pc = "find", ![r].current = s,
                                   ![r].scraped = @ \ {s}]
          \/ /\ Seen(s.article)
             /\ run' = [run EXCEPT ![r].scraped = @ \ {s}]
             /\ UNCHANGED seenUntil
    /\ UNCHANGED <<site, rows, locked, mishaps, faults>>

(* CreateDraft is FirstOrCreate: a SELECT by link ... *)
FindDraft(r) ==
    /\ run[r].pc = "find"
    /\ \/ row[Current(r)] = "stored" /\ Drafted(r)
       \/ row[Current(r)] # "stored" /\ Goto(r, "insert")
    /\ UNCHANGED <<site, seenUntil, rows, locked, mishaps, faults>>

(* ... and an INSERT, which the unique index refuses if a row came between. *)
InsertDraft(r) ==
    /\ run[r].pc = "insert"
    /\ \/ /\ row[Current(r)] # "stored"
          /\ row' = [row EXCEPT ![Current(r)] = "stored"]
          /\ Drafted(r)
       \/ /\ row[Current(r)] = "stored"
          /\ Goto(r, "revert")
          /\ UNCHANGED row
    /\ UNCHANGED <<site, seenUntil, metadata, locked, mishaps, faults>>

(* "Revert the redis key so we can retry next time" *)
RevertSeen(r) ==
    /\ run[r].pc = "revert"
    /\ seenUntil' = [seenUntil EXCEPT ![Current(r)] = 0]
    /\ NextResult(r)
    /\ reverted' = reverted \cup {Current(r)}
    /\ UNCHANGED <<site, rows, locked, lost, unkeyed, faults>>

AtMetadata(r) == run[r].pc = "save" /\ run[r].scraped = {}

(* Seeded fault: the time of the update for the date of the newest draft. *)
NewMetadataNow(r, t) == now

(* Seeded fault: the next date, to leave out what is as old as the newest. *)
NewMetadataNext(r, t) == run[r].newest[t] + 1

NewMetadata(r, t) == run[r].newest[t]

(* UpdateLastCrawledAt *)
WriteMetadata(r, t) ==
    /\ AtMetadata(r)
    /\ run[r].newest[t] > 0
    /\ metadata' = [metadata EXCEPT ![t] = NewMetadata(r, t)]
    /\ run' = [run EXCEPT ![r].newest[t] = 0]
    /\ UNCHANGED <<site, seenUntil, row, locked, mishaps, faults>>

AtRelease(r) ==
    \/ run[r].pc = "release"
    \/ AtMetadata(r) /\ run[r].newest = NoDates

(* The deferred ReleaseLock deletes the key, whoever set it. *)
FinishRun(r) ==
    /\ AtRelease(r)
    /\ locked' = FALSE
    /\ EndRun(r)
    /\ UNCHANGED <<site, seenUntil, rows, mishaps, faults>>

-----------------------------------------------------------------------------
(* Calls that fail *)

(* The first query ends the run; without metadata the window decides; a     *)
(* search that breaks off returns what it has.                              *)
ReadFails(r) ==
    /\ \/ /\ run[r].pc = "symbols"
          /\ Fault("symbols")
          /\ Goto(r, "release")
          /\ UNCHANGED lost
       \/ /\ run[r].pc = "since"
          /\ Fault("since")
          /\ \E t \in run[r].todo : SetSince(r, t, Threshold(r))
          /\ UNCHANGED lost
       \/ /\ run[r].pc = "crawl"
          /\ Fault("page")
          /\ \E t \in run[r].todo :
                \E S \in NewestOf(OnSite(t, run[r].since[t])) :
                    /\ AddResults(r, t, S)
                    /\ lost' = lost \cup (OnSite(t, run[r].since[t]) \ S)
    /\ UNCHANGED <<site, seenUntil, rows, locked, reverted, unkeyed>>

(* Without an answer of SETNX the article is saved all the same; an error   *)
(* of CreateDraft, also when only its reply is lost, reverts the key.       *)
SaveFails(r) ==
    /\ \/ /\ run[r].pc = "save"
          /\ Fault("seen")
          /\ \E s \in run[r].scraped :
                /\ run' = [run EXCEPT ![r].pc = "find", ![r].current = s,
                                      ![r].scraped = @ \ {s}]
                /\ unkeyed' = unkeyed \cup {s.article}
          /\ UNCHANGED row
       \/ /\ run[r].pc \in {"find", "insert"}
          /\ Fault(run[r].pc)
          /\ Goto(r, "revert")
          /\ UNCHANGED <<row, unkeyed>>
       \/ /\ run[r].pc = "insert"
          /\ Fault("lostInsert")
          /\ row' = [row EXCEPT ![Current(r)] = "stored"]
          /\ Goto(r, "revert")
          /\ unkeyed' = unkeyed \cup {Current(r)}
    /\ UNCHANGED <<site, seenUntil, metadata, locked, lost, reverted>>

(* Errors of the revert, of the metadata and of the release are logged or   *)
(* dropped.                                                                 *)
WriteFails(r) ==
    /\ \/ /\ run[r].pc = "revert"
          /\ Fault("revert")
          /\ NextResult(r)
          /\ lost' = lost \cup {Current(r)}
       \/ /\ AtMetadata(r)
          /\ Fault("metadata")
          /\ \E t \in Tickers :
                /\ run[r].newest[t] > 0
                /\ run' = [run EXCEPT ![r].newest[t] = 0]
          /\ UNCHANGED lost
       \/ /\ AtRelease(r)
          /\ Fault("release")
          /\ EndRun(r)
          /\ UNCHANGED lost
    /\ UNCHANGED <<site, seenUntil, rows, locked, reverted, unkeyed>>

-----------------------------------------------------------------------------
(* The environment *)

(* The process dies; its lock and its seen keys stay. *)
Crash(r) ==
    /\ Running(r)
    /\ Fault("crash")
    /\ lost' = IF run[r].pc \in SavingLabels THEN lost \cup {Current(r)} ELSE lost
    /\ EndRun(r)
    /\ UNCHANGED <<site, seenUntil, rows, locked, reverted, unkeyed>>

(* The TTL of the lock: of a lock nobody holds any more, or, as an incident,*)
(* of a run slower than two minutes.                                        *)
LockExpires ==
    /\ locked
    /\ \/ (\A r \in Replicas : ~Running(r)) /\ UNCHANGED faults
       \/ (\E r \in Replicas : Running(r)) /\ Fault("lockExpiry")
    /\ locked' = FALSE
    /\ UNCHANGED <<site, seenUntil, rows, run, mishaps>>

(* The site lists an article with its present date. *)
Publish(a) ==
    /\ ~Listed(a)
    /\ published' = [published EXCEPT ![a] = now]
    /\ UNCHANGED <<now, seenUntil, rows, locked, run, mishaps, faults>>

(* handleSynthesize has put the draft into a digest and deletes it. *)
Digest(a) ==
    /\ row[a] = "stored"
    /\ row' = [row EXCEPT ![a] = "digested"]
    /\ UNCHANGED <<site, seenUntil, metadata, locked, run, mishaps, faults>>

(* A run sees at most one tick. *)
Tick ==
    /\ now < MaxNow
    /\ \A r \in Replicas : Running(r) =>
          run[r].pc = "symbols" \/ run[r].start = now
    /\ now' = now + 1
    /\ UNCHANGED <<published, seenUntil, rows, locked, run, mishaps, faults>>

-----------------------------------------------------------------------------
(* The specification *)

Init ==
    /\ now = 1
    /\ published = [a \in Articles |-> 0]
    /\ seenUntil = [a \in Articles |-> 0]
    /\ row = [a \in Articles |-> "absent"]
    /\ metadata = NoDates
    /\ locked = FALSE
    /\ run = [r \in Replicas |-> NoRun]
    /\ lost = {} /\ reverted = {} /\ unkeyed = {}
    /\ faults = 0

RunStep(r) ==
    \/ StartRun(r) \/ ListSymbols(r) \/ CheckSeen(r) \/ FindDraft(r)
    \/ InsertDraft(r) \/ RevertSeen(r) \/ FinishRun(r)
    \/ \E t \in Tickers :
          ReadMetadata(r, t) \/ Fetch(r, t) \/ WriteMetadata(r, t)
    \/ ReadFails(r) \/ SaveFails(r) \/ WriteFails(r)

Next ==
    \/ \E r \in Replicas : RunStep(r) \/ Crash(r)
    \/ LockExpires
    \/ \E a \in Articles : Publish(a) \/ Digest(a)
    \/ Tick

Spec == Init /\ [][Next]_vars

(* Cron starts the job twice a day for ever, calls return or fail, Redis    *)
(* expires keys. Time may stand still: nothing relies on the window moving. *)
FairSpec ==
    /\ Spec
    /\ \A r \in Replicas : WF_vars(RunStep(r))
    /\ WF_vars(LockExpires)

-----------------------------------------------------------------------------
(* Properties *)

(* Too old for the window of the search. *)
Aged(a) == published[a] + Window < now

InTables(a) == row[a] # "absent"

(***************************************************************************)
(* An article that was drafted, digested and deleted is never drafted      *)
(* again: its seen key outlives the window in which a search can bring it  *)
(* up (article_fetch.go:84 and 119), through crashes, failed reverts, lost *)
(* metadata and runs that overlap after the lock expired. The exceptions   *)
(* are the articles saved without an answer of Redis about the key (line   *)
(* 120) or of PostgreSQL about the row (line 138), which have no key.      *)
(***************************************************************************)
NeverRedrafted ==
    [][\A a \in Articles :
          row[a] = "digested" /\ a \notin unkeyed => row'[a] = "digested"]_vars

Saving(a) ==
    \E r \in Replicas : run[r].pc \in SavingLabels /\ Current(r) = a

(***************************************************************************)
(* The date up to which a ticker was crawled never passes an article that  *)
(* is not in the tables: UpdateLastCrawledAt runs after the loop and with  *)
(* the dates of saved drafts only, while an overlapping run may be between *)
(* the key and the row of an older one (article_fetch.go:116-157). The     *)
(* exceptions are the articles lost to a failure or reverted.              *)
(***************************************************************************)
NothingPassedOver ==
    \A t \in Tickers, a \in Articles :
        /\ Listed(a)
        /\ t \in Mentions[a]
        /\ published[a] < metadata[t]
        /\ ~Aged(a)
        => InTables(a) \/ a \in lost \cup reverted \/ Saving(a)

(* Every ticker whose search lists the article was crawled past it.         *)
PassedBy(a) == \A t \in Mentions[a] : published[a] < metadata[t]

(***************************************************************************)
(* Every article on the site gets into the tables unless it grows too old  *)
(* first, also one listed in the same minute as the newest draft, or left  *)
(* over by a run that died between two articles, or behind an orphaned     *)
(* lock (article_fetch.go:96, cafef.go:103). A failure may lose it, but an *)
(* article whose save failed and whose key was deleted "so we can retry    *)
(* next time" (line 140) is tried again, unless a newer draft of the same  *)
(* run has moved the date of its ticker past it.                           *)
(***************************************************************************)
ListedGetsDrafted ==
    \A a \in Articles :
        Listed(a) ~> \/ InTables(a) \/ Aged(a) \/ a \in lost
                     \/ a \in reverted /\ PassedBy(a)
=============================================================================
