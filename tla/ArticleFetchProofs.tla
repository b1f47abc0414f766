------------------------- MODULE ArticleFetchProofs -------------------------
(* Theorems of the specification ArticleFetch for every set of articles,    *)
(* tickers and worker processes, every window and every number of failures. *)
EXTENDS ArticleFetch, TLAPS

Reading == {"idle", "symbols", "since", "crawl", "save", "release"}

LEMMA Labelled ==
    /\ SavingLabels \cap Reading = {}
    /\ Labels \cup {"idle"} = SavingLabels \cup Reading
    /\ None \notin Scraped
BY FetchAssumption DEF SavingLabels, Reading, Labels, Scraped

(* Local variables of a run, one at a time. *)
LEMMA RunParts ==
    ASSUME NEW w \in Run
    PROVE  /\ w.pc \in Labels \cup {"idle"}
           /\ w.start \in Time
           /\ w.todo \subseteq Tickers
           /\ w.since \in [Tickers -> Time]
           /\ w.scraped \subseteq Scraped
           /\ w.current \in Scraped \cup {None}
           /\ w.newest \in [Tickers -> Time]
BY DEF Run

LEMMA NoRunType == NoRun \in Run /\ NoRun.pc = "idle" /\ NoRun.current = None
BY FetchAssumption DEF NoRun, NoDates, Run, Time

LEMMA TimeType == Time \subseteq Nat /\ 0 \in Time /\ (1..MaxNow) \subseteq Time
BY FetchAssumption DEF Time

LEMMA StepCases ==
    ASSUME [Next]_vars
    PROVE  \/ \E r \in Replicas :
                 \/ StartRun(r) \/ ListSymbols(r) \/ CheckSeen(r) \/ FindDraft(r)
                 \/ InsertDraft(r) \/ RevertSeen(r) \/ FinishRun(r)
                 \/ \E t \in Tickers :
                       ReadMetadata(r, t) \/ Fetch(r, t) \/ WriteMetadata(r, t)
                 \/ ReadFails(r) \/ SaveFails(r) \/ WriteFails(r) \/ Crash(r)
           \/ LockExpires
           \/ \E a \in Articles : Publish(a) \/ Digest(a)
           \/ Tick
           \/ UNCHANGED vars
BY DEF Next, RunStep

Sound(w) ==
    /\ w \in Run
    /\ w.pc \in SavingLabels <=> w.current \in Scraped

LEMMA RunChanges ==
    ASSUME TypeOK, NEW r \in Replicas,
           NEW w, run' = [run EXCEPT ![r] = w], Sound(w)
    PROVE  /\ run' \in [Replicas -> Run]
           /\ \A q \in Replicas :
                 run'[q].pc \in SavingLabels <=> run'[q].current \in Scraped
BY DEF TypeOK, Sound

(* A run moves on within or outside of the body that saves a result.        *)
LEMMA Moves ==
    ASSUME NEW w \in Run, Sound(w)
    PROVE  /\ \A l \in Reading : w.pc \in Reading => Sound([w EXCEPT !.pc = l])
           /\ \A l \in SavingLabels :
                 w.pc \in SavingLabels => Sound([w EXCEPT !.pc = l])
           /\ Sound([w EXCEPT !.pc = "save", !.current = None])
           /\ \A s \in w.scraped, l \in SavingLabels :
                 Sound([w EXCEPT !.pc = l, !.current = s, !.scraped = @ \ {s}])
<1>1. /\ w.pc \in Labels \cup {"idle"} /\ w.current \in Scraped \cup {None}
      /\ w.scraped \subseteq Scraped
  BY RunParts
<1>2. ASSUME NEW l \in Reading, w.pc \in Reading
      PROVE  Sound([w EXCEPT !.pc = l])
  BY <1>1, <1>2, Labelled DEF Sound, Run
<1>3. ASSUME NEW l \in SavingLabels, w.pc \in SavingLabels
      PROVE  Sound([w EXCEPT !.pc = l])
  BY <1>1, <1>3, Labelled DEF Sound, Run
<1>4. Sound([w EXCEPT !.pc = "save", !.current = None])
  BY <1>1, Labelled DEF Sound, Run, Reading
<1>5. ASSUME NEW s \in w.scraped, NEW l \in SavingLabels
      PROVE  Sound([w EXCEPT !.pc = l, !.current = s, !.scraped = @ \ {s}])
  <2>1. s \in Scraped /\ w.scraped \ {s} \subseteq Scraped
    BY <1>1
  <2>. QED BY <2>1, <1>1, Labelled DEF Sound, Run
<1>. QED BY <1>2, <1>3, <1>4, <1>5

(* A step of a run changes this run only.                                   *)
LEMMA RunStepForm ==
    ASSUME TypeOK, NEW r \in Replicas, RunStep(r) \/ Crash(r)
    PROVE  \E v : run' = [run EXCEPT ![r] = v] /\ Sound(v)
<1>. DEFINE w == run[r]
            Goal(v) == /\ run' = [run EXCEPT ![r] = v]
                       /\ Sound(v)
<1>1. w \in Run /\ Sound(w) /\ run \in [Replicas -> Run]
  BY DEF TypeOK, Sound
<1>2. /\ now \in Time /\ 0 \in Time
      /\ \A a \in Articles : published[a] \in Time
      /\ \A t \in Tickers : metadata[t] \in Time
  BY TimeType DEF TypeOK
<1>3. Threshold(r) \in Time /\ \A t \in Tickers : SinceFor(r, t) \in Time
  BY <1>1, <1>2, FetchAssumption, RunParts DEF Threshold, SinceFor, Time
<1>4. CASE \E l \in Reading : w.pc \in Reading /\ Goto(r, l)
  BY <1>1, <1>4, Moves DEF Goto
<1>5. CASE \E l \in SavingLabels : w.pc \in SavingLabels /\ Goto(r, l)
  BY <1>1, <1>5, Moves DEF Goto
<1>6. CASE EndRun(r)
  BY <1>6, NoRunType, Labelled DEF EndRun, Sound, Reading
<1>7. CASE NextResult(r)
  BY <1>1, <1>7, Moves DEF NextResult
<1>8. CASE w.pc \in SavingLabels /\ Drafted(r)
  <2>1. w.current \in Scraped
    BY <1>1, <1>8 DEF Sound
  <2>2. /\ w.current.ticker \in Tickers /\ published[Current(r)] \in Time
    BY <1>2, <2>1 DEF Scraped, Current
  <2>. DEFINE t == w.current.ticker
              date == published[Current(r)]
              v == [w EXCEPT !.pc = "save", !.current = None,
                             !.newest[t] = IF date > @ THEN date ELSE @]
  <2>3. Sound(v)
    BY <1>1, <2>2, Labelled DEF Sound, Run, Labels, Reading
  <2>4. run' = [run EXCEPT ![r] = v]
    BY <1>1, <1>8 DEF Drafted
  <2>. QED BY <2>3, <2>4
<1>9. CASE ListSymbols(r)
  <2>. DEFINE v == [w EXCEPT !.pc = IF Tickers = {} THEN "release" ELSE "since",
                             !.todo = Tickers, !.start = now]
  <2>1. Sound(v)
    BY <1>1, <1>2, <1>9, Labelled DEF Sound, Run, Labels, Reading, ListSymbols
  <2>. QED BY <1>1, <1>9, <2>1 DEF ListSymbols
<1>10. ASSUME NEW t \in Tickers, NEW date \in Time, w.pc = "since",
              SetSince(r, t, date)
       PROVE  \E v : Goal(v)
  <2>. DEFINE v == [w EXCEPT !.since[t] = date,
                             !.pc = IF w.todo = {t} THEN "crawl" ELSE "since",
                             !.todo = IF w.todo = {t} THEN Tickers ELSE @ \ {t}]
  <2>1. Sound(v)
    BY <1>1, <1>10, Labelled DEF Sound, Run, Labels, Reading
  <2>. QED BY <1>1, <1>10, <2>1 DEF SetSince
<1>11. ASSUME NEW t \in Tickers, NEW S \in SUBSET Articles, w.pc = "crawl",
              AddResults(r, t, S)
       PROVE  \E v : Goal(v)
  <2>. DEFINE v == [w EXCEPT !.scraped = @ \cup [article : S, ticker : {t}],
                             !.pc = IF w.todo = {t} THEN "save" ELSE "crawl",
                             !.todo = @ \ {t}]
  <2>0. [article : S, ticker : {t}] \subseteq Scraped
    BY DEF Scraped
  <2>1. /\ w.scraped \cup [article : S, ticker : {t}] \subseteq Scraped
        /\ w.current \notin Scraped
        /\ {"save", "crawl"} \subseteq Reading
        /\ w.todo \ {t} \subseteq Tickers
    BY <1>1, <1>11, <2>0, RunParts, Labelled DEF Sound, Reading
  <2>2. v \in Run
    BY <1>1, <2>1, Labelled DEF Run
  <2>3. v.pc \in Reading /\ v.current = w.current
    BY <1>1, <2>1 DEF Run
  <2>4. Sound(v)
    BY <2>1, <2>2, <2>3, Labelled DEF Sound
  <2>. QED BY <1>1, <1>11, <2>4 DEF AddResults
<1>12. ASSUME NEW s \in w.scraped,
              run' = [run EXCEPT ![r].pc = "find", ![r].current = s,
                                 ![r].scraped = @ \ {s}]
       PROVE  \E v : Goal(v)
  <2>1. Sound([w EXCEPT !.pc = "find", !.current = s, !.scraped = @ \ {s}])
    BY <1>1, Moves DEF SavingLabels
  <2>. QED BY <1>1, <1>12, <2>1
<1>13. ASSUME NEW s \in w.scraped, w.pc = "save",
              run' = [run EXCEPT ![r].scraped = @ \ {s}]
       PROVE  \E v : Goal(v)
  <2>1. Sound([w EXCEPT !.scraped = @ \ {s}])
    BY <1>1, <1>13, Labelled DEF Sound, Run, Reading
  <2>. QED BY <1>1, <1>13, <2>1
<1>14. ASSUME NEW t \in Tickers, w.pc = "save",
              run' = [run EXCEPT ![r].newest[t] = 0]
       PROVE  \E v : Goal(v)
  <2>1. Sound([w EXCEPT !.newest[t] = 0])
    BY <1>1, <1>2, <1>14, Labelled DEF Sound, Run, Reading
  <2>. QED BY <1>1, <1>14, <2>1
<1>15. w.todo \subseteq Tickers
  BY <1>1, RunParts
<1>16. CASE \/ StartRun(r) \/ CheckSeen(r) \/ FindDraft(r) \/ InsertDraft(r)
            \/ RevertSeen(r) \/ FinishRun(r) \/ Crash(r)
  BY <1>4, <1>5, <1>6, <1>7, <1>8, <1>12, <1>13, <1>16
     DEF StartRun, CheckSeen, FindDraft, InsertDraft, RevertSeen, FinishRun,
         Crash, Running, Reading, SavingLabels
<1>17. CASE \E t \in Tickers :
               ReadMetadata(r, t) \/ Fetch(r, t) \/ WriteMetadata(r, t)
  BY <1>3, <1>10, <1>11, <1>14, <1>17
     DEF ReadMetadata, Fetch, WriteMetadata, OnSite, AtMetadata
<1>18. CASE ReadFails(r)
  <2>1. \A t \in Tickers :
           \A S \in NewestOf(OnSite(t, w.since[t])) : S \in SUBSET Articles
    BY DEF NewestOf, OnSite
  <2>. QED
    BY <1>3, <1>4, <1>10, <1>11, <1>15, <1>18, <2>1 DEF ReadFails, Reading
<1>19. CASE SaveFails(r)
  BY <1>5, <1>12, <1>19 DEF SaveFails, SavingLabels
<1>20. CASE WriteFails(r)
  BY <1>6, <1>7, <1>14, <1>20 DEF WriteFails, AtMetadata
<1>. QED BY <1>9, <1>16, <1>17, <1>18, <1>19, <1>20 DEF RunStep

LEMMA FaultType ==
    ASSUME TypeOK, NEW call, Fault(call)
    PROVE  faults' \in 0..MaxFaults
BY FetchAssumption DEF TypeOK, Fault

LEMMA TypeStep ==
    ASSUME TypeOK, [Next]_vars
    PROVE  TypeOK'
<1>0. /\ now \in Nat
      /\ 0 \in 0..(MaxNow + SeenTTL)
      /\ now + SeenTTL \in 0..(MaxNow + SeenTTL)
  BY FetchAssumption DEF TypeOK
<1>1. ASSUME NEW r \in Replicas, RunStep(r) \/ Crash(r)
      PROVE  TypeOK'
  <2>1. /\ run' \in [Replicas -> Run]
        /\ \A q \in Replicas :
              run'[q].pc \in SavingLabels <=> run'[q].current \in Scraped
    BY <1>1, RunStepForm, RunChanges
  <2>2. faults' \in 0..MaxFaults
    <3>1. CASE faults' = faults
      BY <3>1 DEF TypeOK
    <3>2. \/ faults' = faults
          \/ \E call \in FetchErrors : Fault(call)
      BY <1>1
         DEF RunStep, StartRun, ListSymbols, CheckSeen, FindDraft,
             InsertDraft, RevertSeen, FinishRun, ReadMetadata, Fetch,
             WriteMetadata, ReadFails, SaveFails, WriteFails, Crash,
             FetchErrors
    <3>. QED BY <3>1, <3>2, FaultType
  <2>3. /\ run[r].current \in Scraped => Current(r) \in Articles
        /\ \A s \in run[r].scraped : s.article \in Articles
        /\ \A t \in Tickers : run[r].newest[t] \in Time
    BY RunParts DEF TypeOK, Current, Scraped
  <2>4. run[r].pc \in {"find", "insert", "revert"} => Current(r) \in Articles
    BY <2>3 DEF TypeOK, SavingLabels
  <2>5. seenUntil' \in [Articles -> 0..(MaxNow + SeenTTL)]
    BY <1>0, <1>1, <2>3, <2>4
       DEF TypeOK, RunStep, StartRun, ListSymbols, CheckSeen, FindDraft,
           InsertDraft, RevertSeen, FinishRun, ReadMetadata, Fetch, SetSeen,
           WriteMetadata, ReadFails, SaveFails, WriteFails, Crash
  <2>6. row' \in [Articles -> {"absent", "stored", "digested"}]
    BY <1>1, <2>4
       DEF TypeOK, RunStep, StartRun, ListSymbols, CheckSeen, FindDraft,
           InsertDraft, RevertSeen, FinishRun, ReadMetadata, Fetch,
           WriteMetadata, ReadFails, SaveFails, WriteFails, Crash, rows
  <2>7. metadata' \in [Tickers -> Time]
    BY <1>1, <2>3
       DEF TypeOK, RunStep, StartRun, ListSymbols, CheckSeen, FindDraft,
           InsertDraft, RevertSeen, FinishRun, ReadMetadata, Fetch,
           WriteMetadata, NewMetadata, ReadFails, SaveFails, WriteFails,
           Crash, rows
  <2>8. lost' \subseteq Articles
    <3>1. \A t : OnSite(t, run[r].since[t]) \subseteq Articles
      BY DEF OnSite
    <3>. QED
      BY <1>1, <2>4, <3>1
         DEF TypeOK, RunStep, StartRun, ListSymbols, CheckSeen, FindDraft,
             InsertDraft, RevertSeen, FinishRun, ReadMetadata, Fetch,
             WriteMetadata, ReadFails, SaveFails, WriteFails, Crash,
             SavingLabels, mishaps
  <2>9. reverted' \subseteq Articles /\ unkeyed' \subseteq Articles
    BY <1>1, <2>3, <2>4
       DEF TypeOK, RunStep, StartRun, ListSymbols, CheckSeen, FindDraft,
           InsertDraft, RevertSeen, FinishRun, ReadMetadata, Fetch,
           WriteMetadata, ReadFails, SaveFails, WriteFails, Crash, mishaps
  <2>10. UNCHANGED site /\ locked' \in BOOLEAN
    BY <1>1
       DEF TypeOK, RunStep, StartRun, ListSymbols, CheckSeen, FindDraft,
           InsertDraft, RevertSeen, FinishRun, ReadMetadata, Fetch,
           WriteMetadata, ReadFails, SaveFails, WriteFails, Crash
  <2>. QED
    BY <2>1, <2>2, <2>5, <2>6, <2>7, <2>8, <2>9, <2>10 DEF TypeOK, site
<1>2. CASE LockExpires
  <2>1. faults' \in 0..MaxFaults
    BY <1>2, FaultType DEF TypeOK, LockExpires
  <2>. QED BY <1>2, <2>1 DEF TypeOK, LockExpires, site, rows, mishaps
<1>3. ASSUME NEW a \in Articles, Publish(a) \/ Digest(a)
      PROVE  TypeOK'
  BY <1>3, TimeType DEF TypeOK, Publish, Digest, site, rows, mishaps
<1>4. CASE Tick
  BY <1>4, FetchAssumption DEF TypeOK, Tick, rows, mishaps
<1>5. CASE UNCHANGED vars
  BY <1>5 DEF TypeOK, vars
<1>. QED BY <1>1, <1>2, <1>3, <1>4, <1>5 DEF Next

(***************************************************************************)
(* In every reachable state the keys, rows and dates are well formed and a *)
(* run holds a result exactly while it is saving one.                      *)
(***************************************************************************)
THEOREM TypeCorrect == Spec => []TypeOK
<1>1. Init => TypeOK
  <2>1. /\ NoRun.pc \notin SavingLabels /\ NoRun.current \notin Scraped
        /\ NoRun \in Run
    BY NoRunType, Labelled DEF Reading
  <2>2. /\ 0 \in 0..MaxFaults /\ 0 \in 0..(MaxNow + SeenTTL)
        /\ 1 \in 1..MaxNow /\ 0 \in Time
    BY FetchAssumption, TimeType
  <2>3. Init => \A r \in Replicas : run[r] = NoRun
    BY DEF Init
  <2>. QED BY <2>1, <2>2, <2>3 DEF Init, TypeOK, NoDates
<1>2. TypeOK /\ [Next]_vars => TypeOK'
  BY TypeStep
<1>. QED BY <1>1, <1>2, PTL DEF Spec

-----------------------------------------------------------------------------
(* Nothing passed over *)

(* In the tables, on the way there, or left out by a failure.               *)
Accounted(a) == InTables(a) \/ a \in lost \cup reverted \/ Saving(a)

Left(a) == Listed(a) /\ ~Aged(a) /\ ~Accounted(a)

(* The results a run has still to save or is saving, and their dates with   *)
(* that of the newest draft: what may become the date of the ticker.        *)
Results(r) == run[r].scraped \cup ({run[r].current} \cap Scraped)

(* A run looks for t far enough back to find a, and has it among its        *)
(* results or has found nothing newer.                                      *)
Covers(r, t, a) ==
    /\ run[r].since[t] <= published[a]
    /\ \/ [article |-> a, ticker |-> t] \in run[r].scraped
       \/ /\ run[r].newest[t] <= published[a]
          /\ \A s \in Results(r) :
                s.ticker = t => published[s.article] <= published[a]

RunPasses(r) ==
    /\ run[r].start <= now
    /\ \A s \in Results(r) : Listed(s.article)
    /\ \A t \in Tickers : run[r].since[t] <= now /\ run[r].newest[t] <= now
    /\ \A t \in Tickers, a \in Articles :
          Left(a) /\ t \in Mentions[a] => Covers(r, t, a)

PassInv ==
    /\ \A a \in Articles : published[a] <= now
    /\ \A a \in Articles : seenUntil[a] > 0 => Accounted(a)
    /\ \A t \in Tickers : metadata[t] <= now
    /\ \A t \in Tickers, a \in Articles :
          Left(a) /\ t \in Mentions[a] => metadata[t] <= published[a]
    /\ \A r \in Replicas : RunPasses(r)

LEMMA OthersKept ==
    ASSUME TypeOK, [Next]_vars, NEW q \in Replicas, ~RunStep(q), ~Crash(q)
    PROVE  run'[q] = run[q]
<1>1. ASSUME NEW r \in Replicas, RunStep(r) \/ Crash(r)
      PROVE  run'[q] = run[q]
  <2>1. PICK v : run' = [run EXCEPT ![r] = v]
    BY <1>1, RunStepForm
  <2>. QED BY <1>1, <2>1 DEF TypeOK
<1>2. ASSUME \/ LockExpires \/ Tick \/ UNCHANGED vars
             \/ \E a \in Articles : Publish(a) \/ Digest(a)
      PROVE  run' = run
  BY <1>2 DEF LockExpires, Tick, vars, Publish, Digest
<1>. QED BY <1>1, <1>2 DEF Next

LEMMA AccountedStep ==
    ASSUME TypeOK, [Next]_vars, NEW a \in Articles, Accounted(a)
    PROVE  Accounted(a)'
<1>0. run \in [Replicas -> Run]
  BY DEF TypeOK
<1>1. ASSUME NEW q \in Replicas, run[q].pc \in SavingLabels, Current(q) = a,
             run'[q].pc \in SavingLabels, run'[q].current = run[q].current
      PROVE  Accounted(a)'
  BY <1>1 DEF Accounted, Saving, Current
<1>2. ASSUME InTables(a)
      PROVE  InTables(a)'
  <2>1. ASSUME row' = row
        PROVE  InTables(a)'
    BY <1>2, <2>1 DEF InTables
  <2>2. ASSUME NEW b, row' = [row EXCEPT ![b] = "stored"]
        PROVE  InTables(a)'
    BY <1>2, <2>2 DEF InTables, TypeOK
  <2>3. ASSUME NEW b, row' = [row EXCEPT ![b] = "digested"]
        PROVE  InTables(a)'
    BY <1>2, <2>3 DEF InTables, TypeOK
  <2>. QED
    BY <2>1, <2>2, <2>3, StepCases
       DEF StartRun, ListSymbols, CheckSeen, FindDraft, InsertDraft,
           RevertSeen, FinishRun, ReadMetadata, Fetch, WriteMetadata,
           ReadFails, SaveFails, WriteFails, Crash, LockExpires, Publish,
           Digest, Tick, vars, rows
<1>3. ASSUME a \in lost \cup reverted
      PROVE  a \in lost' \cup reverted'
  BY ZenonT(40), <1>3, StepCases
     DEF StartRun, ListSymbols, CheckSeen, FindDraft, InsertDraft,
         RevertSeen, FinishRun, ReadMetadata, Fetch, WriteMetadata,
         ReadFails, SaveFails, WriteFails, Crash, LockExpires, Publish,
         Digest, Tick, vars, mishaps
<1>4. ASSUME NEW q \in Replicas, run[q].pc \in SavingLabels, Current(q) = a
      PROVE  Accounted(a)'
  <2>1. CASE run'[q] = run[q]
    BY <1>1, <1>4, <2>1
  <2>2. CASE run'[q] # run[q]
    <3>1. RunStep(q) \/ Crash(q)
      BY <2>2, OthersKept
    <3>2. \/ FindDraft(q) \/ InsertDraft(q) \/ RevertSeen(q)
          \/ SaveFails(q) \/ WriteFails(q) \/ Crash(q)
      BY <1>4, <3>1
         DEF RunStep, StartRun, ListSymbols, CheckSeen, FinishRun, AtRelease,
             ReadMetadata, Fetch, WriteMetadata, AtMetadata, ReadFails,
             Running, SavingLabels
    <3>3. CASE \E l \in SavingLabels : Goto(q, l)
      BY <1>0, <1>1, <1>4, <3>3 DEF Goto, Run
    <3>4. CASE row[a] = "stored" /\ row' = row
      BY <3>4 DEF Accounted, InTables
    <3>5. CASE row' = [row EXCEPT ![a] = "stored"]
      BY <3>5 DEF Accounted, InTables, TypeOK
    <3>6. CASE a \in lost' \cup reverted'
      BY <3>6 DEF Accounted
    <3>. QED
      BY <1>4, <3>2, <3>3, <3>4, <3>5, <3>6
         DEF FindDraft, InsertDraft, RevertSeen, SaveFails, WriteFails, Crash,
             SavingLabels, AtMetadata, AtRelease, rows
  <2>. QED BY <2>1, <2>2
<1>. QED BY <1>2, <1>3, <1>4 DEF Accounted, Saving

(* An article is to be saved because it was, or because it is new.          *)
LEMMA LeftStep ==
    ASSUME TypeOK, [Next]_vars, NEW a \in Articles, Left(a)'
    PROVE  \/ Left(a) /\ published'[a] = published[a]
           \/ published'[a] = now /\ now' = now
<1>1. CASE UNCHANGED site
  BY <1>1, AccountedStep DEF Left, Listed, Aged, site
<1>2. CASE Tick
  BY <1>2, AccountedStep, FetchAssumption
     DEF Left, Listed, Aged, Tick, TypeOK, Time
<1>3. ASSUME NEW b \in Articles, Publish(b)
      PROVE  \/ Left(a) /\ published'[a] = published[a]
             \/ published'[a] = now /\ now' = now
  BY <1>3, AccountedStep DEF Left, Listed, Aged, Publish, TypeOK
<1>. QED
  BY ZenonT(40), <1>1, <1>2, <1>3, StepCases
     DEF StartRun, ListSymbols, CheckSeen, FindDraft, InsertDraft,
         RevertSeen, FinishRun, ReadMetadata, Fetch, WriteMetadata,
         ReadFails, SaveFails, WriteFails, Crash, LockExpires,
         Digest, vars, site

(* The clock and the dates only move forward.                               *)
LEMMA DatesStep ==
    ASSUME TypeOK, [Next]_vars
    PROVE  /\ now <= now'
           /\ \A a \in Articles : published[a] <= now => published'[a] <= now'
           /\ \A a \in Articles :
                 Listed(a) => published'[a] = published[a] /\ Listed(a)'
<1>1. CASE UNCHANGED site
  BY <1>1 DEF site, TypeOK, Listed
<1>2. CASE Tick
  <2>1. /\ published' = published /\ now' = now + 1 /\ now \in Nat
        /\ \A a \in Articles : published[a] \in Nat
    BY <1>2, TimeType DEF Tick, TypeOK
  <2>. QED BY <2>1 DEF Listed
<1>3. ASSUME NEW b \in Articles, Publish(b)
      PROVE  /\ now <= now'
             /\ \A a \in Articles : published[a] <= now => published'[a] <= now'
             /\ \A a \in Articles :
                   Listed(a) => published'[a] = published[a] /\ Listed(a)'
  BY <1>3 DEF Publish, TypeOK, Listed
<1>. QED
  BY ZenonT(40), <1>1, <1>2, <1>3, StepCases
     DEF StartRun, ListSymbols, CheckSeen, FindDraft, InsertDraft,
         RevertSeen, FinishRun, ReadMetadata, Fetch, WriteMetadata,
         ReadFails, SaveFails, WriteFails, Crash, LockExpires,
         Digest, vars, site

(* What a step has to leave of a run; a new article is newer than all.      *)
LEMMA PassesStep ==
    ASSUME TypeOK, TypeOK', PassInv, [Next]_vars, NEW r \in Replicas,
           run'[r].start <= now',
           \A s \in Results(r)' : Listed(s.article),
           \A t \in Tickers : run'[r].since[t] <= now /\ run'[r].newest[t] <= now,
           \A t \in Tickers, a \in Articles :
              Left(a) /\ Left(a)' /\ published'[a] = published[a]
                /\ t \in Mentions[a] => Covers(r, t, a)'
    PROVE  RunPasses(r)'
<1>1. /\ now \in Nat /\ now' \in Nat /\ now <= now'
      /\ \A a \in Articles : published[a] \in Nat /\ published[a] <= now
      /\ \A t \in Tickers : run'[r].since[t] \in Nat /\ run'[r].newest[t] \in Nat
  BY TimeType, DatesStep, RunParts DEF TypeOK, PassInv
<1>2. \A s \in Results(r)' : s.article \in Articles /\ s.ticker \in Tickers
  BY RunParts DEF TypeOK, Results, Scraped
<1>3. \A s \in Results(r)' :
         /\ Listed(s.article)'
         /\ published'[s.article] = published[s.article]
  BY <1>2, DatesStep
<1>4. \A t \in Tickers : run'[r].since[t] <= now' /\ run'[r].newest[t] <= now'
  BY <1>1
<1>5. ASSUME NEW t \in Tickers, NEW a \in Articles, Left(a)', t \in Mentions[a]
      PROVE  Covers(r, t, a)'
  <2>1. CASE Left(a) /\ published'[a] = published[a]
    BY <1>5, <2>1
  <2>2. CASE published'[a] = now /\ now' = now
    BY <1>1, <1>2, <1>3, <2>2 DEF Covers
  <2>. QED BY <1>5, <2>1, <2>2, LeftStep
<1>. QED BY <1>3, <1>4, <1>5 DEF RunPasses

(* A run that finds nothing new keeps what it knows.                        *)
LEMMA PassesKept ==
    ASSUME TypeOK, TypeOK', PassInv, [Next]_vars, NEW r \in Replicas,
           run'[r].start \in {run[r].start, now},
           Results(r)' \subseteq Results(r),
           \A s \in run[r].scraped \ run'[r].scraped : Accounted(s.article)',
           run'[r].since = run[r].since,
           \A t \in Tickers : run'[r].newest[t] \in {run[r].newest[t], 0}
    PROVE  RunPasses(r)'
<1>1. RunPasses(r) /\ run[r] \in Run
  BY DEF PassInv, TypeOK
<1>2. /\ now \in Nat /\ now' \in Nat /\ now <= now'
      /\ \A a \in Articles : published[a] \in Nat
      /\ run[r].start \in Nat
      /\ \A t \in Tickers : run[r].since[t] \in Nat /\ run[r].newest[t] \in Nat
  BY <1>1, TimeType, DatesStep, RunParts DEF TypeOK
<1>3. run'[r].start <= now'
  BY <1>1, <1>2 DEF RunPasses
<1>4. \A s \in Results(r)' : Listed(s.article) /\ s.article \in Articles
  BY <1>1, RunParts DEF RunPasses, Results, Scraped
<1>5. \A t \in Tickers : run'[r].since[t] <= now /\ run'[r].newest[t] <= now
  BY <1>1, <1>2 DEF RunPasses
<1>6. \A s \in Results(r)' : published'[s.article] = published[s.article]
  BY <1>4, DatesStep
<1>7. ASSUME NEW t \in Tickers, NEW a \in Articles, Left(a), Left(a)',
             published'[a] = published[a], t \in Mentions[a]
      PROVE  Covers(r, t, a)'
  <2>1. Covers(r, t, a)
    BY <1>1, <1>7 DEF RunPasses
  <2>2. CASE [article |-> a, ticker |-> t] \in run[r].scraped
    <3>1. [article |-> a, ticker |-> t] \in run'[r].scraped
      BY <1>7, <2>2 DEF Left
    <3>. QED BY <1>7, <2>1, <3>1 DEF Covers
  <2>3. CASE /\ run[r].newest[t] <= published[a]
             /\ \A s \in Results(r) :
                   s.ticker = t => published[s.article] <= published[a]
    <3>1. run'[r].newest[t] <= published[a]
      BY <1>2, <2>3
    <3>. QED BY <1>6, <1>7, <2>1, <2>3, <3>1 DEF Covers
  <2>. QED BY <2>1, <2>2, <2>3 DEF Covers
<1>. QED BY <1>3, <1>4, <1>5, <1>7, PassesStep

LEMMA RunPassesStep ==
    ASSUME TypeOK, TypeOK', PassInv, [Next]_vars, NEW r \in Replicas
    PROVE  RunPasses(r)'
<1>. DEFINE w == run[r]
<1>1. RunPasses(r) /\ w \in Run /\ run \in [Replicas -> Run] /\ run'[r] \in Run
  BY DEF PassInv, TypeOK
<1>2. /\ now \in Nat /\ now' \in Nat /\ now <= now'
      /\ \A a \in Articles :
            /\ published[a] \in Nat /\ published[a] <= now
            /\ Listed(a) => published'[a] = published[a]
      /\ \A t \in Tickers :
            /\ metadata[t] \in Nat /\ metadata[t] <= now
            /\ w.since[t] \in Nat /\ w.since[t] <= now
            /\ w.newest[t] \in Nat /\ w.newest[t] <= now
      /\ w.start \in Nat /\ w.start <= now
  BY <1>1, TimeType, RunParts, DatesStep DEF TypeOK, PassInv, RunPasses
<1>3. /\ Results(r) \subseteq Scraped
      /\ \A s \in Results(r) :
            /\ s.article \in Articles /\ s.ticker \in Tickers
            /\ Listed(s.article)
      /\ w.scraped \subseteq Results(r)
      /\ w.pc \in SavingLabels => w.current \in Results(r)
  BY <1>1, RunParts DEF Results, Scraped, RunPasses, TypeOK
<1>4. w.pc \in Reading => /\ w.current \notin Scraped
                          /\ Results(r) = w.scraped
  BY Labelled DEF Results, TypeOK
<1>5. CASE run'[r] = w
  BY <1>5, PassesKept DEF Results
<1>6. ASSUME NEW l, Goto(r, l)
      PROVE  RunPasses(r)'
  <2>1. run'[r] = [w EXCEPT !.pc = l]
    BY <1>1, <1>6 DEF Goto
  <2>. QED BY <1>1, <2>1, PassesKept DEF Results, Run
<1>7. CASE EndRun(r)
  <2>1. run'[r] = NoRun
    BY <1>1, <1>7 DEF EndRun
  <2>2. /\ run'[r].start = 0 /\ Results(r)' = {}
        /\ \A t \in Tickers : run'[r].since[t] = 0 /\ run'[r].newest[t] = 0
    BY <2>1, Labelled DEF NoRun, NoDates, Results
  <2>. QED BY <1>2, <2>2, PassesStep DEF Covers
<1>8. ASSUME NextResult(r), w.pc \in SavingLabels
      PROVE  RunPasses(r)'
  <2>1. run'[r] = [w EXCEPT !.pc = "save", !.current = None]
    BY <1>1, <1>8 DEF NextResult
  <2>2. /\ run'[r].start = w.start /\ run'[r].since = w.since
        /\ run'[r].scraped = w.scraped /\ run'[r].current = None
        /\ run'[r].newest = w.newest
    BY <1>1, <2>1 DEF Run
  <2>3. Results(r)' \subseteq Results(r)
    BY <2>2, Labelled DEF Results
  <2>. QED BY <2>2, <2>3, PassesKept
<1>9. ASSUME Drafted(r), w.pc \in SavingLabels
      PROVE  RunPasses(r)'
  <2>. DEFINE t == w.current.ticker
              date == published[Current(r)]
  <2>1. /\ run'[r].start = w.start /\ run'[r].since = w.since
        /\ run'[r].scraped = w.scraped /\ run'[r].current = None
        /\ run'[r].newest =
              [w.newest EXCEPT ![t] = IF date > @ THEN date ELSE @]
    BY <1>1, <1>9 DEF Drafted, Run
  <2>2. w.newest \in [Tickers -> Time]
    BY <1>1, RunParts
  <2>3. /\ Current(r) \in Articles /\ w.current \in Results(r)
        /\ date \in Nat /\ date <= now
    BY <1>2, <1>3, <1>9 DEF Current
  <2>4. Results(r)' = w.scraped
    BY <2>1, Labelled DEF Results
  <2>5. \A u \in Tickers :
           \/ run'[r].newest[u] = w.newest[u]
           \/ u = t /\ run'[r].newest[u] = date
    BY <2>1, <2>2
  <2>6. ASSUME NEW u \in Tickers, NEW a \in Articles, Left(a),
               published'[a] = published[a], u \in Mentions[a]
        PROVE  Covers(r, u, a)'
    <3>1. Covers(r, u, a)
      BY <1>1, <2>6 DEF RunPasses
    <3>2. CASE [article |-> a, ticker |-> u] \in w.scraped
      BY <2>1, <2>6, <3>1, <3>2 DEF Covers
    <3>3. CASE /\ w.newest[u] <= published[a]
               /\ \A s \in Results(r) :
                     s.ticker = u => published[s.article] <= published[a]
      <4>1. run'[r].newest[u] <= published[a]
        BY <2>3, <2>5, <3>3 DEF Current
      <4>2. \A s \in Results(r)' :
               s.ticker = u => published'[s.article] <= published[a]
        BY <1>2, <1>3, <2>4, <3>3
      <4>. QED BY <2>1, <2>6, <3>1, <4>1, <4>2 DEF Covers
    <3>. QED BY <3>1, <3>2, <3>3 DEF Covers
  <2>7. /\ \A u \in Tickers : run'[r].since[u] <= now /\ run'[r].newest[u] <= now
        /\ \A s \in Results(r)' : Listed(s.article)
        /\ run'[r].start <= now'
    BY <1>2, <1>3, <2>1, <2>3, <2>4, <2>5
  <2>. QED BY <2>6, <2>7, PassesStep
<1>10. CASE ListSymbols(r)
  <2>1. /\ run'[r].start = now /\ run'[r].since = w.since
        /\ run'[r].scraped = w.scraped /\ run'[r].current = w.current
        /\ run'[r].newest = w.newest
    BY ZenonT(40), <1>1, <1>10 DEF ListSymbols, Run
  <2>. QED BY <2>1, PassesKept DEF Results
<1>11. ASSUME NEW t \in Tickers, SetSince(r, t, Threshold(r)) \/
                                 SetSince(r, t, SinceFor(r, t)),
              UNCHANGED site
       PROVE  RunPasses(r)'
  <2>1. PICK date \in {Threshold(r), SinceFor(r, t)} : SetSince(r, t, date)
    BY <1>11
  <2>2. /\ run'[r].start = w.start /\ run'[r].scraped = w.scraped
        /\ run'[r].current = w.current /\ run'[r].newest = w.newest
        /\ run'[r].since = [w.since EXCEPT ![t] = date]
    BY <1>1, <2>1 DEF SetSince, Run
  <2>3. w.since \in [Tickers -> Time] /\ Results(r)' = Results(r)
    BY <1>1, <2>2, RunParts DEF Results
  <2>4. date \in Nat /\ date <= now
    BY <1>2, FetchAssumption DEF Threshold, SinceFor
  <2>5. ASSUME NEW u \in Tickers, NEW a \in Articles, Left(a),
               published'[a] = published[a], u \in Mentions[a]
        PROVE  Covers(r, u, a)'
    <3>1. Covers(r, u, a) /\ published' = published
      BY <1>1, <1>11, <2>5 DEF RunPasses, site
    <3>2. u = t => date <= published[a]
      <4>1. metadata[u] <= published[a]
        BY <2>5 DEF PassInv
      <4>2. published[a] + Window >= now /\ Window \in Nat
        BY <1>2, <2>5, FetchAssumption DEF Left, Aged
      <4>. QED BY <1>2, <4>1, <4>2 DEF Threshold, SinceFor
    <3>. QED BY <2>2, <2>3, <3>1, <3>2 DEF Covers
  <2>6. \A u \in Tickers : run'[r].since[u] <= now /\ run'[r].newest[u] <= now
    BY <1>2, <2>2, <2>3, <2>4
  <2>7. run'[r].start <= now' /\ \A s \in Results(r)' : Listed(s.article)
    BY <1>2, <1>3, <2>2, <2>3
  <2>. QED BY <2>5, <2>6, <2>7, PassesStep
<1>12. ASSUME NEW t \in Tickers, NEW S \in SUBSET OnSite(t, w.since[t]),
              \A a \in OnSite(t, w.since[t]) \ S : Accounted(a)',
              AddResults(r, t, S), w.pc \in Reading, UNCHANGED site
       PROVE  RunPasses(r)'
  <2>1. /\ run'[r].start = w.start /\ run'[r].since = w.since
        /\ run'[r].current = w.current /\ run'[r].newest = w.newest
        /\ run'[r].scraped = w.scraped \cup [article : S, ticker : {t}]
    BY <1>1, <1>12 DEF AddResults, Run
  <2>2. Results(r)' = Results(r) \cup [article : S, ticker : {t}]
    BY <1>4, <1>12, <2>1 DEF Results
  <2>3. \A s \in Results(r)' : Listed(s.article)
    BY <1>3, <2>2 DEF OnSite
  <2>4. ASSUME NEW u \in Tickers, NEW a \in Articles, Left(a), Left(a)',
               published'[a] = published[a], u \in Mentions[a]
        PROVE  Covers(r, u, a)'
    <3>1. Covers(r, u, a) /\ published' = published
      BY <1>1, <1>12, <2>4 DEF RunPasses, site
    <3>2. CASE u = t
      <4>1. a \in OnSite(t, w.since[t])
        BY <2>4, <3>1, <3>2, <1>2 DEF OnSite, NotBefore, Covers, Left
      <4>2. a \in S
        BY <1>12, <2>4, <4>1 DEF Left
      <4>3. [article |-> a, ticker |-> u] \in run'[r].scraped
        BY <2>1, <3>2, <4>2
      <4>. QED BY <2>1, <3>1, <4>3 DEF Covers
    <3>3. CASE u # t
      BY <2>1, <2>2, <3>1, <3>3 DEF Covers
    <3>. QED BY <3>2, <3>3
  <2>. QED BY <1>2, <2>1, <2>3, <2>4, PassesStep
<1>13. ASSUME NEW s \in w.scraped, w.pc \in Reading,
              run' = [run EXCEPT ![r].pc = "find", ![r].current = s,
                                 ![r].scraped = @ \ {s}]
       PROVE  RunPasses(r)'
  <2>1. /\ run'[r].start = w.start /\ run'[r].since = w.since
        /\ run'[r].current = s /\ run'[r].newest = w.newest
        /\ run'[r].scraped = w.scraped \ {s} /\ run'[r].pc = "find"
    BY <1>1, <1>13 DEF Run
  <2>2. Results(r)' \subseteq Results(r)
    BY <1>3, <1>13, <2>1 DEF Results
  <2>3. Accounted(s.article)'
    BY <2>1 DEF Accounted, Saving, SavingLabels, Current
  <2>. QED BY <2>1, <2>2, <2>3, PassesKept
<1>14. ASSUME NEW s \in w.scraped, Seen(s.article),
              run' = [run EXCEPT ![r].scraped = @ \ {s}]
       PROVE  RunPasses(r)'
  <2>1. /\ run'[r].start = w.start /\ run'[r].since = w.since
        /\ run'[r].current = w.current /\ run'[r].newest = w.newest
        /\ run'[r].scraped = w.scraped \ {s}
    BY <1>1, <1>14 DEF Run
  <2>2. Results(r)' \subseteq Results(r)
    BY <2>1 DEF Results
  <2>3. s.article \in Articles /\ Accounted(s.article)
    BY <1>2, <1>3, <1>14 DEF Seen, PassInv, TypeOK
  <2>. QED BY <2>1, <2>2, <2>3, AccountedStep, PassesKept
<1>15. ASSUME NEW t \in Tickers, run' = [run EXCEPT ![r].newest[t] = 0]
       PROVE  RunPasses(r)'
  <2>1. /\ run'[r].start = w.start /\ run'[r].since = w.since
        /\ run'[r].current = w.current /\ run'[r].scraped = w.scraped
        /\ run'[r].newest = [w.newest EXCEPT ![t] = 0]
    BY <1>1, <1>15 DEF Run
  <2>2. \A u \in Tickers : run'[r].newest[u] \in {w.newest[u], 0}
    BY <1>1, <2>1, RunParts
  <2>. QED BY <2>1, <2>2, PassesKept DEF Results
<1>16. CASE \/ StartRun(r) \/ CheckSeen(r) \/ FindDraft(r) \/ InsertDraft(r)
            \/ RevertSeen(r) \/ FinishRun(r) \/ Crash(r)
  BY <1>6, <1>7, <1>8, <1>9, <1>13, <1>14, <1>16
     DEF StartRun, CheckSeen, FindDraft, InsertDraft, RevertSeen, FinishRun,
         Crash, Reading, SavingLabels
<1>17. CASE \E t \in Tickers :
               ReadMetadata(r, t) \/ Fetch(r, t) \/ WriteMetadata(r, t)
  BY <1>11, <1>12, <1>15, <1>17
     DEF ReadMetadata, Fetch, WriteMetadata, Reading
<1>18. CASE ReadFails(r)
  <2>1. w.todo \subseteq Tickers
    BY <1>1, RunParts
  <2>2. ASSUME NEW t \in w.todo, NEW S \in NewestOf(OnSite(t, w.since[t])),
               AddResults(r, t, S), w.pc = "crawl",
               lost' = lost \cup (OnSite(t, w.since[t]) \ S)
        PROVE  RunPasses(r)'
    BY <1>12, <1>18, <2>1, <2>2 DEF NewestOf, Accounted, Reading, ReadFails
  <2>. QED BY <1>6, <1>11, <1>18, <2>1, <2>2 DEF ReadFails
<1>19. CASE SaveFails(r)
  BY <1>6, <1>13, <1>19 DEF SaveFails, Reading
<1>20. CASE WriteFails(r)
  BY <1>7, <1>8, <1>15, <1>20 DEF WriteFails, SavingLabels
<1>21. CASE ~RunStep(r) /\ ~Crash(r)
  BY <1>5, <1>21, OthersKept
<1>. QED
  BY <1>10, <1>16, <1>17, <1>18, <1>19, <1>20, <1>21 DEF RunStep

LEMMA PassInvStep ==
    ASSUME TypeOK, TypeOK', PassInv, [Next]_vars
    PROVE  PassInv'
<1>1. \A a \in Articles : published'[a] <= now'
  BY DatesStep DEF PassInv
<1>2. ASSUME NEW a \in Articles, seenUntil'[a] > 0
      PROVE  Accounted(a)'
  <2>1. CASE seenUntil[a] > 0
    BY <1>2, <2>1, AccountedStep DEF PassInv
  <2>2. CASE ~(seenUntil[a] > 0)
    <3>1. seenUntil' # seenUntil
      BY <1>2, <2>2
    <3>2. PICK r \in Replicas : CheckSeen(r) \/ RevertSeen(r)
      BY <3>1, StepCases
         DEF StartRun, ListSymbols, FindDraft, InsertDraft, FinishRun,
             ReadMetadata, Fetch, WriteMetadata, ReadFails, SaveFails,
             WriteFails, Crash, LockExpires, Publish, Digest, Tick, vars
    <3>3. ~RevertSeen(r)
      BY <1>2, <2>2 DEF RevertSeen, TypeOK
    <3>4. PICK s \in run[r].scraped :
             /\ SetSeen(s.article)
             /\ run' = [run EXCEPT ![r].pc = "find", ![r].current = s,
                                   ![r].scraped = @ \ {s}]
      BY <3>1, <3>2, <3>3 DEF CheckSeen
    <3>5. a = s.article
      BY <1>2, <2>2, <3>4 DEF SetSeen, TypeOK
    <3>6. run'[r].pc = "find" /\ run'[r].current = s
      BY <3>4 DEF TypeOK, Run
    <3>. QED BY <3>5, <3>6 DEF Accounted, Saving, SavingLabels, Current
  <2>. QED BY <2>1, <2>2
<1>3. /\ \A t \in Tickers : metadata'[t] <= now'
      /\ \A t \in Tickers, a \in Articles :
            Left(a)' /\ t \in Mentions[a] => metadata'[t] <= published'[a]
  <2>0. /\ now \in Nat /\ now' \in Nat /\ now <= now'
        /\ \A t \in Tickers : metadata[t] \in Nat /\ metadata[t] <= now
    BY TimeType, DatesStep DEF TypeOK, PassInv
  <2>1. CASE metadata' = metadata
    BY <2>0, <2>1, LeftStep DEF PassInv
  <2>2. ASSUME NEW r \in Replicas, NEW t \in Tickers, WriteMetadata(r, t)
        PROVE  <1>3!:
    <3>1. metadata' = [metadata EXCEPT ![t] = run[r].newest[t]]
      BY <2>2 DEF WriteMetadata, NewMetadata
    <3>2. RunPasses(r) /\ run[r].newest[t] <= now /\ run[r].newest[t] \in Nat
      BY RunParts, TimeType DEF TypeOK, PassInv, RunPasses
    <3>3. \A u \in Tickers : metadata'[u] \in {metadata[u], run[r].newest[t]}
      BY <3>1 DEF TypeOK
    <3>4. \A u \in Tickers : u # t => metadata'[u] = metadata[u]
      BY <3>1 DEF TypeOK
    <3>5. \A a \in Articles : Left(a) /\ t \in Mentions[a] =>
             run[r].newest[t] <= published[a]
      BY <2>2, <3>2 DEF WriteMetadata, AtMetadata, RunPasses, Covers
    <3>6. \A u \in Tickers : metadata'[u] <= now
      BY <2>0, <3>2, <3>3
    <3>7. ASSUME NEW u \in Tickers, NEW a \in Articles, Left(a)', u \in Mentions[a]
          PROVE  metadata'[u] <= published'[a]
      <4>1. CASE published'[a] = now
        BY <3>6, <4>1
      <4>2. CASE Left(a) /\ published'[a] = published[a]
        <5>1. metadata[u] <= published[a]
          BY <3>7, <4>2 DEF PassInv
        <5>. QED BY <3>1, <3>3, <3>4, <3>5, <3>7, <4>2, <5>1
      <4>. QED BY <3>7, <4>1, <4>2, LeftStep
    <3>. QED BY <2>0, <3>2, <3>3, <3>7
  <2>. QED
    BY <2>1, <2>2, StepCases
       DEF StartRun, ListSymbols, CheckSeen, FindDraft, InsertDraft,
           RevertSeen, FinishRun, ReadMetadata, Fetch, ReadFails, SaveFails,
           WriteFails, Crash, LockExpires, Publish, Digest, Tick, vars, rows
<1>4. \A r \in Replicas : RunPasses(r)'
  BY RunPassesStep
<1>. QED BY <1>1, <1>2, <1>3, <1>4 DEF PassInv

(***************************************************************************)
(* The dates of the tickers pass no article that is neither in the tables  *)
(* nor on its way there, in whatever order the runs of several processes   *)
(* search, save and write them (article_fetch.go:79-157).                  *)
(***************************************************************************)
THEOREM PassedAreSaved == Spec => []NothingPassedOver
<1>1. Init => PassInv
  <2>1. ASSUME Init, NEW r \in Replicas
        PROVE  RunPasses(r)
    <3>1. run[r] = NoRun
      BY <2>1 DEF Init
    <3>2. Results(r) = {} /\ run[r].start = 0
      BY <3>1, Labelled DEF Results, NoRun
    <3>3. \A t \in Tickers : run[r].since[t] = 0 /\ run[r].newest[t] = 0
      BY <3>1 DEF NoRun, NoDates
    <3>. QED BY <2>1, <3>2, <3>3 DEF Init, RunPasses, Covers
  <2>2. ASSUME Init
        PROVE  /\ now = 1
               /\ \A a \in Articles : published[a] = 0 /\ seenUntil[a] = 0
               /\ \A t \in Tickers : metadata[t] = 0
    BY <2>2 DEF Init, NoDates
  <2>. QED BY <2>1, <2>2 DEF PassInv
<1>2. TypeOK /\ PassInv => NothingPassedOver
  <2>1. TypeOK => /\ \A t \in Tickers : metadata[t] \in Nat
                  /\ \A a \in Articles : published[a] \in Nat
    BY TimeType DEF TypeOK
  <2>. QED BY <2>1 DEF PassInv, NothingPassedOver, Left, Accounted
<1>3. TypeOK /\ TypeOK' /\ PassInv /\ [Next]_vars => PassInv'
  BY PassInvStep
<1>. QED BY <1>1, <1>2, <1>3, TypeCorrect, PTL DEF Spec

-----------------------------------------------------------------------------
(* Nothing is drafted twice *)

Begun == {"since", "crawl", "save"} \cup SavingLabels

(* A run is at most a tick old and its results are within its window.       *)
RunRecent(r) ==
    /\ run[r].pc \in Begun => run[r].start <= now /\ now <= run[r].start + 1
    /\ run[r].pc \notin Begun \ {"since"} => run[r].scraped = {}
    /\ \A t \in Tickers :
          \/ run[r].pc = "since" /\ t \notin run[r].todo
          \/ run[r].pc = "crawl"
          => run[r].since[t] + Window >= run[r].start
    /\ \A s \in Results(r) :
          /\ Listed(s.article)
          /\ published[s.article] + Window >= run[r].start

Keyed(a) == seenUntil[a] >= published[a] + SeenTTL

SavedBy(r, a) == run[r].pc \in SavingLabels /\ Current(r) = a

(* The key of an article outlives every run that can have it as a result,   *)
(* from before the row is inserted.                                         *)
KeyInv ==
    /\ \A r \in Replicas : RunRecent(r)
    /\ \A a \in Articles :
          /\ published[a] <= now
          /\ InTables(a) => Listed(a)
    /\ \A a \in Articles \ unkeyed :
          /\ InTables(a) => Keyed(a)
          /\ \A r \in Replicas : SavedBy(r, a) => Keyed(a) /\ ~InTables(a)
          /\ \A q, r \in Replicas : SavedBy(q, a) /\ SavedBy(r, a) => q = r

LEMMA RunStepSite ==
    ASSUME NEW r \in Replicas, RunStep(r) \/ Crash(r)
    PROVE  UNCHANGED <<now, published>>
BY DEF RunStep, StartRun, ListSymbols, CheckSeen, FindDraft, InsertDraft,
       RevertSeen, FinishRun, ReadMetadata, Fetch, WriteMetadata, ReadFails,
       SaveFails, WriteFails, Crash, site

(* After its searches a run only uses up what they found.                   *)
LEMMA RecentMove ==
    ASSUME NEW r \in Replicas, RunRecent(r), UNCHANGED <<now, published>>,
           run'[r].start = run[r].start,
           run'[r].scraped \subseteq run[r].scraped,
           Results(r)' \subseteq Results(r),
           run'[r].pc \notin {"since", "crawl"},
           run'[r].pc \in Begun => run[r].pc \in Begun \ {"since"},
           run'[r].pc \notin Begun => run[r].scraped = {}
    PROVE  RunRecent(r)'
<1>1. \A s \in Results(r)' :
         Listed(s.article)' /\ published'[s.article] + Window >= run'[r].start
  BY DEF RunRecent, Listed
<1>2. "since" \notin {"save"} \cup SavingLabels
  BY DEF SavingLabels
<1>. QED BY <1>1, <1>2 DEF RunRecent, Begun

LEMMA RecentStep ==
    ASSUME TypeOK, KeyInv, [Next]_vars, NEW r \in Replicas
    PROVE  RunRecent(r)'
<1>. DEFINE w == run[r]
<1>1. RunRecent(r) /\ w \in Run /\ run \in [Replicas -> Run]
  BY DEF KeyInv, TypeOK
<1>2. /\ now \in Nat /\ Window \in Nat /\ w.start \in Nat
      /\ \A a \in Articles : published[a] \in Nat
      /\ \A t \in Tickers : metadata[t] \in Nat
      /\ w.since \in [Tickers -> Time] /\ w.todo \subseteq Tickers
      /\ w.scraped \subseteq Scraped
  BY <1>1, TimeType, RunParts, FetchAssumption DEF TypeOK
<1>3. /\ w.pc \in SavingLabels => w.current \in Results(r)
      /\ w.pc \notin SavingLabels => Results(r) = w.scraped
  BY DEF Results, TypeOK
<1>4. /\ {"since", "crawl", "save"} \cap SavingLabels = {}
      /\ {"idle", "symbols", "release"} \cap Begun = {}
  BY DEF SavingLabels, Begun
<1>5. ASSUME ~RunStep(r), ~Crash(r)
      PROVE  RunRecent(r)'
  <2>1. run'[r] = w
    BY <1>5, OthersKept
  <2>2. Results(r)' = Results(r)
    BY <2>1 DEF Results
  <2>3. \A s \in Results(r) :
           /\ s.article \in Articles
           /\ Listed(s.article)' /\ published'[s.article] = published[s.article]
    BY <1>1, <1>2, DatesStep DEF RunRecent, Results, Scraped
  <2>4. w.pc \in Begun => w.start <= now' /\ now' <= w.start + 1
    <3>1. CASE now' = now
      BY <1>1, <3>1 DEF RunRecent
    <3>2. CASE Tick
      <4>1. w.pc \in Begun => Running(r) /\ w.pc # "symbols"
        BY <1>4 DEF Running
      <4>. QED BY <1>2, <3>2, <4>1 DEF Tick
    <3>. QED
      BY <3>1, <3>2, StepCases, RunStepSite
         DEF LockExpires, Publish, Digest, vars, site, RunStep
  <2>. QED BY <1>1, <2>1, <2>2, <2>3, <2>4 DEF RunRecent
<1>6. ASSUME RunStep(r) \/ Crash(r)
      PROVE  RunRecent(r)'
  <2>0. UNCHANGED <<now, published>>
    BY <1>6, RunStepSite
  <2>1. ASSUME NEW l \in SavingLabels, Goto(r, l), w.pc \in SavingLabels
        PROVE  RunRecent(r)'
    <3>1. run'[r] = [w EXCEPT !.pc = l]
      BY <1>1, <2>1 DEF Goto
    <3>2. /\ run'[r].start = w.start /\ run'[r].scraped = w.scraped
          /\ run'[r].pc = l /\ Results(r)' = Results(r)
      BY <1>1, <3>1 DEF Run, Results
    <3>. QED BY <1>1, <1>4, <2>0, <2>1, <3>2, RecentMove DEF Begun
  <2>2. ASSUME NEW l \in {"symbols", "release"}, Goto(r, l),
               w.pc \in {"idle", "symbols"}
        PROVE  RunRecent(r)'
    <3>1. run'[r] = [w EXCEPT !.pc = l]
      BY <1>1, <2>2 DEF Goto
    <3>2. /\ run'[r].start = w.start /\ run'[r].scraped = w.scraped
          /\ run'[r].pc = l /\ Results(r)' = Results(r)
      BY <1>1, <3>1 DEF Run, Results
    <3>3. w.pc \notin Begun /\ l \notin Begun /\ w.scraped = {}
      BY <1>1, <1>4, <2>2 DEF RunRecent
    <3>. QED BY <1>1, <1>4, <2>0, <2>2, <3>2, <3>3, RecentMove
  <2>3. CASE EndRun(r)
    <3>1. run'[r] = NoRun
      BY <1>1, <2>3 DEF EndRun
    <3>2. /\ run'[r].pc = "idle" /\ run'[r].scraped = {} /\ Results(r)' = {}
      BY <3>1, Labelled DEF NoRun, Results
    <3>. QED BY <1>4, <3>2 DEF RunRecent
  <2>4. ASSUME w.pc \in SavingLabels, NextResult(r) \/ Drafted(r)
        PROVE  RunRecent(r)'
    <3>1. /\ run'[r].start = w.start /\ run'[r].scraped = w.scraped
          /\ run'[r].pc = "save" /\ run'[r].current = None
      BY <1>1, <2>4 DEF NextResult, Drafted, Run
    <3>2. Results(r)' \subseteq Results(r)
      BY <3>1, Labelled DEF Results
    <3>. QED BY <1>1, <1>4, <2>0, <2>4, <3>1, <3>2, RecentMove DEF Begun
  <2>5. ASSUME NEW s \in w.scraped, w.pc = "save",
               run' = [run EXCEPT ![r].pc = "find", ![r].current = s,
                                  ![r].scraped = @ \ {s}]
        PROVE  RunRecent(r)'
    <3>1. /\ run'[r].start = w.start /\ run'[r].scraped = w.scraped \ {s}
          /\ run'[r].pc = "find" /\ run'[r].current = s
      BY <1>1, <2>5 DEF Run
    <3>2. Results(r)' \subseteq Results(r)
      BY <2>5, <3>1 DEF Results
    <3>. QED BY <1>1, <1>4, <2>0, <2>5, <3>1, <3>2, RecentMove
             DEF Begun, SavingLabels
  <2>6. ASSUME w.pc = "save", NEW s, NEW t \in Tickers,
               \/ run' = [run EXCEPT ![r].scraped = @ \ {s}]
               \/ run' = [run EXCEPT ![r].newest[t] = 0]
        PROVE  RunRecent(r)'
    <3>1. /\ run'[r].start = w.start /\ run'[r].scraped \subseteq w.scraped
          /\ run'[r].pc = w.pc /\ run'[r].current = w.current
      BY <1>1, <2>6 DEF Run
    <3>2. Results(r)' \subseteq Results(r)
      BY <3>1 DEF Results
    <3>. QED BY <1>1, <1>4, <2>0, <2>6, <3>1, <3>2, RecentMove DEF Begun
  <2>7. CASE ListSymbols(r)
    <3>1. /\ run'[r].start = now /\ run'[r].scraped = w.scraped
          /\ run'[r].pc \in {"release", "since"} /\ run'[r].todo = Tickers
          /\ run'[r].current = w.current
      BY <1>1, <2>7 DEF ListSymbols, Run
    <3>2. w.scraped = {} /\ Results(r)' = {}
      BY <1>1, <1>3, <1>4, <2>7, <3>1, Labelled
         DEF RunRecent, ListSymbols, Results, Reading
    <3>. QED BY <1>2, <1>4, <2>0, <3>1, <3>2 DEF RunRecent
  <2>8. ASSUME NEW t \in w.todo, w.pc = "since",
               SetSince(r, t, Threshold(r)) \/ SetSince(r, t, SinceFor(r, t))
        PROVE  RunRecent(r)'
    <3>1. PICK date \in {Threshold(r), SinceFor(r, t)} : SetSince(r, t, date)
      BY <2>8
    <3>2. /\ run'[r].start = w.start /\ run'[r].scraped = w.scraped
          /\ run'[r].current = w.current
          /\ run'[r].since = [w.since EXCEPT ![t] = date]
          /\ run'[r].pc = IF w.todo = {t} THEN "crawl" ELSE "since"
          /\ run'[r].todo = IF w.todo = {t} THEN Tickers ELSE w.todo \ {t}
      BY <1>1, <3>1 DEF SetSince, Run
    <3>3. w.scraped = {} /\ Results(r) = {} /\ Results(r)' = {}
      BY <1>1, <1>3, <1>4, <2>8, <3>2 DEF RunRecent, Results
    <3>4. date + Window >= w.start
      BY <1>2, <2>8 DEF Threshold, SinceFor
    <3>5. \A u \in Tickers :
             u \notin w.todo \ {t} => run'[r].since[u] + Window >= w.start
      BY <1>1, <1>2, <2>8, <3>2, <3>4 DEF RunRecent
    <3>. QED BY <1>1, <1>2, <2>0, <2>8, <3>2, <3>3, <3>5 DEF RunRecent, Begun
  <2>9. ASSUME NEW t \in w.todo, w.pc = "crawl",
               NEW S \in SUBSET OnSite(t, w.since[t]), AddResults(r, t, S)
        PROVE  RunRecent(r)'
    <3>1. /\ run'[r].start = w.start /\ run'[r].since = w.since
          /\ run'[r].scraped = w.scraped \cup [article : S, ticker : {t}]
          /\ run'[r].current = w.current /\ run'[r].pc \in {"save", "crawl"}
      BY <1>1, <2>9 DEF AddResults, Run
    <3>2. Results(r)' = Results(r) \cup [article : S, ticker : {t}]
      BY <1>3, <1>4, <2>9, <3>1 DEF Results, TypeOK
    <3>3. \A a \in S : Listed(a) /\ published[a] + Window >= w.start
      <4>1. w.since[t] \in Nat /\ w.since[t] + Window >= w.start
        BY <1>1, <1>2, <2>9, TimeType DEF RunRecent
      <4>2. \A a \in S : /\ Listed(a) /\ published[a] \in Nat
                          /\ published[a] >= w.since[t]
        BY <1>2 DEF OnSite, NotBefore
      <4>. QED BY <1>2, <4>1, <4>2
    <3>4. \A s \in Results(r)' :
             Listed(s.article) /\ published[s.article] + Window >= w.start
      BY <1>1, <3>2, <3>3 DEF RunRecent
    <3>. QED BY <1>1, <1>4, <2>0, <2>9, <3>1, <3>4 DEF RunRecent, Begun, Listed
  <2>10. CASE \/ StartRun(r) \/ CheckSeen(r) \/ FindDraft(r) \/ InsertDraft(r)
              \/ RevertSeen(r) \/ FinishRun(r) \/ Crash(r)
    <3>1. ASSUME NEW s, w.pc = "save", run' = [run EXCEPT ![r].scraped = @ \ {s}]
          PROVE  RunRecent(r)'
      <4>1. /\ run'[r].start = w.start /\ run'[r].scraped \subseteq w.scraped
            /\ run'[r].pc = w.pc /\ run'[r].current = w.current
        BY <1>1, <3>1 DEF Run
      <4>2. Results(r)' \subseteq Results(r)
        BY <4>1 DEF Results
      <4>. QED BY <1>1, <1>4, <2>0, <3>1, <4>1, <4>2, RecentMove DEF Begun
    <3>. QED
      BY <2>1, <2>2, <2>3, <2>4, <2>5, <2>10, <3>1
         DEF StartRun, CheckSeen, FindDraft, InsertDraft, RevertSeen,
             FinishRun, Crash, Running, SavingLabels
  <2>11. CASE \E t \in Tickers :
                 ReadMetadata(r, t) \/ Fetch(r, t) \/ WriteMetadata(r, t)
    BY <2>6, <2>8, <2>9, <2>11
       DEF ReadMetadata, Fetch, WriteMetadata, AtMetadata
  <2>12. CASE ReadFails(r)
    BY <2>2, <2>8, <2>9, <2>12 DEF ReadFails, NewestOf
  <2>13. CASE SaveFails(r)
    BY <2>1, <2>5, <2>13 DEF SaveFails, SavingLabels
  <2>14. CASE WriteFails(r)
    BY <2>3, <2>4, <2>6, <2>14 DEF WriteFails, AtMetadata, SavingLabels
  <2>. QED BY <1>6, <2>7, <2>10, <2>11, <2>12, <2>13, <2>14 DEF RunStep
<1>. QED BY <1>5, <1>6

(* A result that a run has is of an article whose key would still be there. *)
LEMMA KeyOutlives ==
    ASSUME TypeOK, KeyInv, NEW r \in Replicas, run[r].pc \in Begun,
           NEW s \in Results(r), Keyed(s.article)
    PROVE  Seen(s.article)
<1>1. s.article \in Articles
  BY RunParts DEF TypeOK, Results, Scraped
<1>2. /\ published[s.article] \in Nat /\ now \in Nat /\ run[r].start \in Nat
  BY <1>1, TimeType, RunParts DEF TypeOK
<1>4. seenUntil[s.article] \in Nat
  BY <1>1 DEF TypeOK
<1>3. /\ now <= run[r].start + 1
      /\ published[s.article] + Window >= run[r].start
  BY DEF KeyInv, RunRecent
<1>. QED BY <1>2, <1>3, <1>4, FetchAssumption DEF Keyed, Seen

(* What the steps of a run do to the articles it and the others are saving. *)
LEMMA SavedByStep ==
    ASSUME TypeOK, KeyInv, [Next]_vars, NEW q \in Replicas, NEW a \in Articles,
           SavedBy(q, a)'
    PROVE  \/ SavedBy(q, a)
           \/ /\ run[q].pc = "save" /\ row' = row
              /\ \E s \in run[q].scraped :
                    /\ s.article = a
                    /\ \/ ~Seen(a) /\ SetSeen(a) /\ UNCHANGED unkeyed
                       \/ a \in unkeyed'
<1>1. run \in [Replicas -> Run]
  BY DEF TypeOK
<1>2. CASE run'[q] = run[q]
  BY <1>2 DEF SavedBy, Current
<1>3. CASE \E l : Goto(q, l) /\ run[q].pc \in SavingLabels
  BY <1>1, <1>3 DEF Goto, SavedBy, Current, Run
<1>4. ~(run'[q].pc \in {"idle", "symbols", "since", "crawl", "save", "release"})
  BY Labelled DEF SavedBy, Reading
<1>5. CASE CheckSeen(q)
  <2>1. PICK s \in run[q].scraped :
           \/ /\ ~Seen(s.article)
              /\ SetSeen(s.article)
              /\ run' = [run EXCEPT ![q].pc = "find", ![q].current = s,
                                    ![q].scraped = @ \ {s}]
           \/ run' = [run EXCEPT ![q].scraped = @ \ {s}]
    BY <1>5 DEF CheckSeen
  <2>2. run[q].pc = "save"
    BY <1>5 DEF CheckSeen
  <2>3. ~(run' = [run EXCEPT ![q].scraped = @ \ {s}])
    BY <1>1, <1>4, <2>2 DEF Run
  <2>4. run'[q].current = s
    BY <1>1, <2>1, <2>3 DEF Run
  <2>. QED BY <1>5, <2>1, <2>2, <2>3, <2>4
           DEF SavedBy, Current, CheckSeen, mishaps, rows
<1>6. CASE SaveFails(q) /\ run[q].pc = "save"
  <2>1. PICK s \in run[q].scraped :
           /\ run' = [run EXCEPT ![q].pc = "find", ![q].current = s,
                                 ![q].scraped = @ \ {s}]
           /\ unkeyed' = unkeyed \cup {s.article}
    BY <1>6 DEF SaveFails
  <2>2. run'[q].current = s /\ row' = row
    BY <1>1, <1>6, <2>1 DEF Run, SaveFails
  <2>. QED BY <1>6, <2>1, <2>2 DEF SavedBy, Current
<1>7. CASE SaveFails(q) /\ run[q].pc # "save"
  BY <1>3, <1>7 DEF SaveFails, SavingLabels
<1>8. CASE EndRun(q)
  BY <1>1, <1>4, <1>8, NoRunType DEF EndRun
<1>9. CASE NextResult(q) \/ Drafted(q)
  BY <1>1, <1>4, <1>9 DEF NextResult, Drafted, Run
<1>10. CASE \E l \in Reading : Goto(q, l)
  BY <1>1, <1>4, <1>10 DEF Goto, Reading, Run
<1>11. CASE \E t \in Tickers : \E S : AddResults(q, t, S) \/ SetSince(q, t, S)
  <2>1. run[q] \in Run
    BY <1>1
  <2>2. ASSUME NEW t, NEW S, AddResults(q, t, S)
        PROVE  run'[q].pc \in {"save", "crawl"}
    BY <1>1, <2>1, <2>2 DEF AddResults, Run
  <2>3. ASSUME NEW t, NEW d, SetSince(q, t, d)
        PROVE  run'[q].pc \in {"since", "crawl"}
    BY <1>1, <2>1, <2>3 DEF SetSince, Run
  <2>. QED BY <1>4, <1>11, <2>2, <2>3
<1>12. CASE ListSymbols(q)
  BY <1>1, <1>4, <1>12 DEF ListSymbols, Run
<1>13. CASE run[q].pc = "save" /\ \E t : run' = [run EXCEPT ![q].newest[t] = 0]
  BY <1>1, <1>4, <1>13 DEF Run
<1>14. run[q].todo \subseteq Tickers
  BY <1>1, RunParts
<1>15. CASE StartRun(q) \/ FindDraft(q) \/ InsertDraft(q) \/ RevertSeen(q)
            \/ FinishRun(q) \/ Crash(q)
  BY <1>3, <1>8, <1>9, <1>10, <1>15
     DEF StartRun, FindDraft, InsertDraft, RevertSeen, FinishRun, Crash,
         Reading, SavingLabels
<1>16. CASE \E t \in Tickers :
               ReadMetadata(q, t) \/ Fetch(q, t) \/ WriteMetadata(q, t)
  BY <1>11, <1>13, <1>16 DEF ReadMetadata, Fetch, WriteMetadata, AtMetadata
<1>17. CASE ReadFails(q) \/ WriteFails(q)
  BY <1>8, <1>9, <1>10, <1>11, <1>13, <1>14, <1>17
     DEF ReadFails, WriteFails, AtMetadata, Reading
<1>. QED
  BY <1>2, <1>5, <1>6, <1>7, <1>12, <1>15, <1>16, <1>17, OthersKept DEF RunStep

LEMMA KeyInvStep ==
    ASSUME TypeOK, KeyInv, [Next]_vars
    PROVE  KeyInv'
<1>0. /\ SeenTTL \in Nat /\ now \in Nat
      /\ \A a \in Articles : published[a] \in Nat /\ seenUntil[a] \in Nat
      /\ run \in [Replicas -> Run]
  <2>1. \A a \in Articles : published[a] \in Nat
    BY TimeType DEF TypeOK
  <2>2. \A a \in Articles : seenUntil[a] \in Nat
    BY DEF TypeOK
  <2>. QED BY <2>1, <2>2, FetchAssumption DEF TypeOK
<1>1. \A r \in Replicas : RunRecent(r)'
  BY RecentStep
<1>2. \A a \in Articles : unkeyed \subseteq unkeyed'
  BY ZenonT(40), StepCases
     DEF StartRun, ListSymbols, CheckSeen, FindDraft, InsertDraft,
         RevertSeen, FinishRun, ReadMetadata, Fetch, WriteMetadata,
         ReadFails, SaveFails, WriteFails, Crash, LockExpires, Publish,
         Digest, Tick, vars, mishaps
<1>3. \A r \in Replicas :
         run[r].pc \in SavingLabels =>
            Current(r) \in Articles /\ Listed(Current(r))
  BY RunParts DEF TypeOK, KeyInv, RunRecent, Results, Current, Scraped
<1>4. \A a \in Articles :
         InTables(a)' /\ ~InTables(a) =>
            \E r \in Replicas :
               /\ SavedBy(r, a) /\ run'[r].pc \notin {"find", "insert"}
               /\ UNCHANGED <<seenUntil, published>>
               /\ run'[r].pc = "revert" => a \in unkeyed'
  <2>1. SUFFICES ASSUME NEW a \in Articles, InTables(a)', ~InTables(a)
                 PROVE  \E r \in Replicas :
                           /\ SavedBy(r, a) /\ run'[r].pc \notin {"find", "insert"}
                           /\ UNCHANGED <<seenUntil, published>>
                           /\ run'[r].pc = "revert" => a \in unkeyed'
    OBVIOUS
  <2>2. ~ \E b \in Articles : Digest(b)
    BY <2>1 DEF Digest, InTables, TypeOK
  <2>3. PICK r \in Replicas :
           \/ InsertDraft(r) /\ row' = [row EXCEPT ![Current(r)] = "stored"]
              /\ Drafted(r)
           \/ SaveFails(r) /\ row' = [row EXCEPT ![Current(r)] = "stored"]
              /\ run[r].pc = "insert" /\ Goto(r, "revert")
              /\ unkeyed' = unkeyed \cup {Current(r)}
    BY ZenonT(40), <2>1, <2>2, StepCases
       DEF InTables, StartRun, ListSymbols, CheckSeen, FindDraft, InsertDraft,
           RevertSeen, FinishRun, ReadMetadata, Fetch, WriteMetadata,
           ReadFails, SaveFails, WriteFails, Crash, LockExpires, Publish,
           Tick, vars, rows
  <2>4. SavedBy(r, a)
    BY <2>1, <2>3 DEF InsertDraft, SavedBy, SavingLabels, InTables, TypeOK
  <2>5. run'[r].pc \in {"save", "revert"} /\
        (run'[r].pc = "revert" => a \in unkeyed')
    <3>1. CASE Drafted(r)
      BY <1>0, <3>1 DEF Drafted, Run
    <3>2. CASE Goto(r, "revert") /\ unkeyed' = unkeyed \cup {Current(r)}
      BY <1>0, <2>4, <3>2 DEF Goto, Run, SavedBy
    <3>. QED BY <2>3, <3>1, <3>2
  <2>6. UNCHANGED <<seenUntil, published>>
    BY <2>3 DEF InsertDraft, SaveFails, site
  <2>. QED BY <2>4, <2>5, <2>6
<1>5. \A a \in Articles : published'[a] <= now' /\ (InTables(a)' => Listed(a)')
  <2>1. ASSUME NEW a \in Articles, InTables(a)'
        PROVE  Listed(a)
    BY <1>3, <1>4, <2>1 DEF KeyInv, SavedBy
  <2>. QED BY <2>1, DatesStep DEF KeyInv
<1>6. ASSUME NEW a \in Articles \ unkeyed'
      PROVE  /\ InTables(a)' => Keyed(a)'
             /\ \A r \in Replicas : SavedBy(r, a)' => Keyed(a)' /\ ~InTables(a)'
             /\ \A q, r \in Replicas : SavedBy(q, a)' /\ SavedBy(r, a)' => q = r
  <2>1. a \in Articles \ unkeyed
    BY <1>2, <1>6
  <2>2. /\ InTables(a) => Keyed(a) /\ Listed(a)
        /\ \A r \in Replicas : SavedBy(r, a) => Keyed(a) /\ ~InTables(a)
        /\ \A q, r \in Replicas : SavedBy(q, a) /\ SavedBy(r, a) => q = r
    BY <2>1 DEF KeyInv
  <2>3. ASSUME NEW q \in Replicas, ~SavedBy(q, a), SavedBy(q, a)'
        PROVE  /\ ~InTables(a) /\ row' = row
               /\ \A r \in Replicas : ~SavedBy(r, a)
               /\ Keyed(a)'
    <3>1. /\ run[q].pc = "save" /\ row' = row /\ ~Seen(a) /\ SetSeen(a)
          /\ \E s \in run[q].scraped : s.article = a
      BY <1>6, <2>3, SavedByStep
    <3>2. ~Keyed(a) /\ Listed(a)
      BY <3>1, KeyOutlives DEF Begun, Results, KeyInv, RunRecent
    <3>3. Keyed(a)'
      <4>1. published'[a] = published[a] /\ published[a] <= now
        BY <3>2, DatesStep DEF KeyInv
      <4>2. seenUntil'[a] = now + SeenTTL
        BY <3>1 DEF SetSeen, TypeOK
      <4>. QED BY <1>0, <4>1, <4>2 DEF Keyed
    <3>. QED BY <2>2, <3>1, <3>2, <3>3
  <2>4. ASSUME Keyed(a), Listed(a), ~Keyed(a)'
        PROVE  \E r \in Replicas : SavedBy(r, a) /\ run'[r].pc = "save"
                                   /\ row' = row
    <3>1. seenUntil'[a] < seenUntil[a] \/ seenUntil'[a] \notin Nat
      <4>1. published'[a] = published[a]
        BY <2>4, DatesStep
      <4>. QED BY <1>0, <2>4, <4>1 DEF Keyed
    <3>0. seenUntil' # seenUntil
      BY <1>0, <3>1
    <3>2. PICK r \in Replicas : CheckSeen(r) \/ RevertSeen(r)
      BY <3>0, StepCases
         DEF StartRun, ListSymbols, FindDraft, InsertDraft, FinishRun,
             ReadMetadata, Fetch, WriteMetadata, ReadFails, SaveFails,
             WriteFails, Crash, LockExpires, Publish, Digest, Tick, vars
    <3>3. CASE CheckSeen(r)
      <4>1. \/ seenUntil' = seenUntil
            \/ \E s \in run[r].scraped : ~Seen(s.article) /\ SetSeen(s.article)
        BY <3>3 DEF CheckSeen
      <4>2. ~Seen(a) /\ SetSeen(a)
        BY <1>0, <3>1, <4>1 DEF SetSeen, TypeOK
      <4>3. seenUntil'[a] = now + SeenTTL /\ seenUntil[a] <= now
        BY <1>0, <4>2 DEF SetSeen, Seen, TypeOK
      <4>. QED BY <1>0, <3>1, <4>3
    <3>4. CASE RevertSeen(r)
      <4>1. Current(r) = a
        BY <1>0, <3>1, <3>4 DEF RevertSeen, TypeOK
      <4>2. run'[r].pc = "save" /\ row' = row
        BY <1>0, <3>4 DEF RevertSeen, NextResult, Run, rows
      <4>. QED BY <3>4, <4>1, <4>2 DEF RevertSeen, SavedBy, SavingLabels
    <3>. QED BY <3>2, <3>3, <3>4
  <2>5. Keyed(a) /\ Listed(a) /\ ~Keyed(a)' =>
           ~InTables(a)' /\ \A r \in Replicas : ~SavedBy(r, a)'
    <3>1. SUFFICES ASSUME Keyed(a), Listed(a), ~Keyed(a)'
                   PROVE  ~InTables(a)' /\ \A r \in Replicas : ~SavedBy(r, a)'
      OBVIOUS
    <3>2. PICK q \in Replicas : SavedBy(q, a) /\ run'[q].pc = "save" /\ row' = row
      BY <2>4, <3>1
    <3>3. ~InTables(a)'
      BY <2>2, <3>2 DEF InTables
    <3>4. ASSUME NEW r \in Replicas, SavedBy(r, a)'
          PROVE  FALSE
      <4>1. SavedBy(r, a)
        BY <2>3, <3>1, <3>4
      <4>. QED BY <2>2, <3>2, <3>4, <4>1 DEF SavedBy, SavingLabels
    <3>. QED BY <3>3, <3>4
  <2>6. \A r \in Replicas : SavedBy(r, a) => Listed(a)
    BY <1>3 DEF SavedBy
  <2>7. InTables(a)' => Keyed(a)'
    BY <1>4, <2>1, <2>2, <2>5, <2>6
  <2>8. ASSUME NEW r \in Replicas, SavedBy(r, a)'
        PROVE  Keyed(a)' /\ ~InTables(a)'
    <3>1. CASE ~SavedBy(r, a)
      BY <2>3, <2>8, <3>1 DEF InTables
    <3>2. CASE SavedBy(r, a)
      <4>1. Keyed(a)'
        BY <2>2, <2>5, <2>6, <2>8, <3>2
      <4>2. ~InTables(a)'
        <5>1. SUFFICES ASSUME InTables(a)' PROVE FALSE
          OBVIOUS
        <5>2. PICK q \in Replicas : SavedBy(q, a) /\
                 run'[q].pc \notin {"find", "insert"} /\
                 (run'[q].pc = "revert" => a \in unkeyed')
          BY <1>4, <2>2, <3>2, <5>1
        <5>. QED BY <1>6, <2>2, <2>8, <3>2, <5>2 DEF SavedBy, SavingLabels
      <4>. QED BY <4>1, <4>2
    <3>. QED BY <3>1, <3>2
  <2>9. ASSUME NEW q \in Replicas, NEW r \in Replicas,
               SavedBy(q, a)', SavedBy(r, a)', q # r
        PROVE  FALSE
    <3>1. ~SavedBy(q, a) /\ ~SavedBy(r, a)
      BY <2>2, <2>3, <2>9
    <3>2. run'[q] # run[q] /\ run'[r] # run[r]
      BY <2>9, <3>1 DEF SavedBy, Current
    <3>3. RunStep(q) \/ Crash(q)
      BY <3>2, OthersKept
    <3>4. PICK v : run' = [run EXCEPT ![q] = v]
      BY <3>3, RunStepForm
    <3>. QED BY <1>0, <2>9, <3>2, <3>4
  <2>. QED BY <2>7, <2>8, <2>9
<1>. QED BY <1>1, <1>5, <1>6 DEF KeyInv

(***************************************************************************)
(* The 7 days of a key outlast the 72 hours of the window and the run: no  *)
(* digested article with a key is drafted again, in whatever order the     *)
(* runs overlap, crash or lose their calls (article_fetch.go:79-144).      *)
(***************************************************************************)
THEOREM NoSecondDraft == Spec => NeverRedrafted
<1>1. Init => KeyInv
  <2>1. ASSUME Init, NEW r \in Replicas
        PROVE  RunRecent(r) /\ \A a : ~SavedBy(r, a)
    <3>1. run[r] = NoRun
      BY <2>1 DEF Init
    <3>2. Results(r) = {} /\ run[r].pc = "idle" /\ run[r].scraped = {}
      BY <3>1, Labelled DEF Results, NoRun
    <3>. QED BY <3>2 DEF RunRecent, Begun, SavedBy, SavingLabels
  <2>2. ASSUME Init, NEW a \in Articles
        PROVE  published[a] <= now /\ ~InTables(a)
    BY <2>2 DEF Init, InTables
  <2>. QED BY <2>1, <2>2 DEF KeyInv
<1>2. TypeOK /\ KeyInv /\ [Next]_vars => KeyInv'
  BY KeyInvStep
<1>3. TypeOK /\ KeyInv /\ [Next]_vars =>
      [\A a \in Articles :
          row[a] = "digested" /\ a \notin unkeyed => row'[a] = "digested"]_vars
  <2>1. SUFFICES ASSUME TypeOK, KeyInv, [Next]_vars, NEW a \in Articles,
                        row[a] = "digested", a \notin unkeyed
                 PROVE  row'[a] = "digested"
    OBVIOUS
  <2>2. \A r \in Replicas : ~SavedBy(r, a)
    BY <2>1 DEF KeyInv, InTables
  <2>3. ASSUME NEW r \in Replicas, run[r].pc \in SavingLabels,
               row' = [row EXCEPT ![Current(r)] = "stored"]
        PROVE  row'[a] = "digested"
    BY <2>1, <2>2, <2>3 DEF SavedBy, TypeOK
  <2>4. ASSUME NEW b \in Articles, Digest(b)
        PROVE  row'[a] = "digested"
    BY <2>1, <2>4 DEF Digest, TypeOK
  <2>. QED
    BY ZenonT(40), <2>1, <2>3, <2>4, StepCases
       DEF StartRun, ListSymbols, CheckSeen, FindDraft, InsertDraft,
           RevertSeen, FinishRun, ReadMetadata, Fetch, WriteMetadata,
           ReadFails, SaveFails, WriteFails, Crash, LockExpires, Publish,
           Tick, vars, rows, SavingLabels
<1>. QED BY <1>1, <1>2, <1>3, TypeCorrect, PTL DEF Spec, NeverRedrafted
=============================================================================
