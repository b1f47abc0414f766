----------------------------- MODULE Scheduler -----------------------------
(***************************************************************************)
(* The worker processes around their jobs: start-up modes and shutdown    *)
(* (cmd/worker/main.go), cron firings, retries and the record of successes *)
(* (internal/worker/scheduler.go), the bounded pool (pool.go) and the lock *)
(* each job takes in Redis (lock.go).                                      *)
(*                                                                         *)
(* A firing is one goroutine of cron: it submits to the pool, and the      *)
(* goroutine of the pool then runs the job with its retries.               *)
(***************************************************************************)
EXTENDS Naturals, FiniteSets

CONSTANTS
    Processes,    \* worker processes
    Modes,        \* of a start: "full", "work" (-work), "job" (-job)
    Entries,      \* the JobEntry values that main registers
    Jobs,         \* names of jobs
    JobOf,        \* the job of an entry; the morning and afternoon entry share one
    LockedJobs,   \* jobs whose Run takes a lock; published_cleanup takes none
    Concurrency,  \* size of the pool, 10 in the code
    MaxRetry,     \* of an entry: 2 for the jobs with a lock, 0 for published_cleanup
    MaxOverruns,  \* bound on the runs that outlive the TTL of their lock
    None          \* no firing

Firings == Processes \X Entries

ASSUME SchedulerAssumption ==
    /\ Modes \subseteq {"full", "work", "job"}
    /\ JobOf \in [Entries -> Jobs]
    /\ LockedJobs \subseteq Jobs
    /\ Concurrency \in Nat \ {0}
    /\ MaxRetry \in [Entries -> Nat]
    /\ MaxOverruns \in Nat
    /\ None \notin Firings

VARIABLES
    main,         \* main[p]: where the main goroutine of p is
    mode,         \* mode[p]: the flags of p's last start
    registered,   \* registered[p]: entries in the cron of p and in jobEntries
    firing,       \* firing[p][e]: the goroutine of e's last firing, and its attempt
    holder,       \* holder[j]: the firing that set lock:j, None without the key
    succeeded,    \* succeeded[p]: jobs in lastJobSuccess of p, asked for by /readyz
    ran,          \* ran[p]: jobs of which a Run in p got past its lock (auxiliary)
    unanswered,   \* jobs of which a SETNX was done and its answer lost (auxiliary)
    overruns      \* locks that expired under a run

history == <<ran, unanswered, overruns>>

process == <<main, mode, registered>>

vars == <<process, firing, holder, succeeded, history>>

-----------------------------------------------------------------------------
(* Types *)

MainLabels == {"starting", "serving", "stopping", "waiting", "exited"}

Firing == [pc : {"none", "submitted", "acquire", "body", "backoff"},
           attempt : Nat]

NoFiring == [pc |-> "none", attempt |-> 0]

(***************************************************************************)
(* An entry is attempted at most MaxRetry + 1 times, and only entries that *)
(* were registered have one (scheduler.go:84-140).                         *)
(***************************************************************************)
TypeOK ==
    /\ main \in [Processes -> MainLabels]
    /\ mode \in [Processes -> Modes]
    /\ registered \in [Processes -> SUBSET Entries]
    /\ firing \in [Processes -> [Entries -> Firing]]
    /\ \A p \in Processes, e \in Entries :
          /\ firing[p][e].attempt <= MaxRetry[e] + 1
          /\ firing[p][e].pc # "none" => e \in registered[p]
    /\ holder \in [Jobs -> Firings \cup {None}]
    /\ succeeded \in [Processes -> SUBSET Jobs]
    /\ ran \in [Processes -> SUBSET Jobs]
    /\ unanswered \subseteq LockedJobs
    /\ overruns \in 0..MaxOverruns

-----------------------------------------------------------------------------
(* Operators *)

PC(p, e) == firing[p][e].pc

(* The goroutines of a process that hold a slot of its pool; a firing keeps *)
(* its slot while it backs off.                                             *)
InPool(p) == {e \in Entries : PC(p, e) \in {"acquire", "body", "backoff"}}

(* The firings whose cron goroutine is still in Submit. *)
InSubmit(p) == {e \in Entries : PC(p, e) = "submitted"}

InBody(j) == {f \in Firings : JobOf[f[2]] = j /\ PC(f[1], f[2]) = "body"}

Goto(p, e, label) == firing' = [firing EXCEPT ![p][e].pc = label]

Ends(p, e) == firing' = [firing EXCEPT ![p][e] = NoFiring]

recordSuccess(p, j) == succeeded' = [succeeded EXCEPT ![p] = @ \cup {j}]

(* Seeded fault: the last error is dropped with the firing. *)
GivesUpAsDone(p, e) == Ends(p, e) /\ recordSuccess(p, JobOf[e])

GivesUp(p, e) == Ends(p, e) /\ UNCHANGED succeeded

(* Seeded fault: the deferred release of a run that was refused the lock. *)
SkipReleases(j) == holder' = [holder EXCEPT ![j] = None]

Skip(j) == UNCHANGED holder

(* Seeded fault: the last attempt is not counted. *)
AttemptsLeftOneMore(p, e) == firing[p][e].attempt <= MaxRetry[e] + 1

AttemptsLeft(p, e) == firing[p][e].attempt < MaxRetry[e] + 1

(* Seeded fault: the loop variable is not advanced. *)
NextAttemptSame(p, e) == Goto(p, e, "acquire")

NextAttempt(p, e) ==
    firing' = [firing EXCEPT ![p][e] =
                  [pc |-> "acquire", attempt |-> @.attempt + 1]]

(* DEL lock:<job>, whoever set it. It gets the context of the run, and its   *)
(* error is dropped: once that has expired, or without Redis, the key stays. *)
ReleaseLock(j) ==
    \/ j \in LockedJobs /\ holder' = [holder EXCEPT ![j] = None]
    \/ UNCHANGED holder

-----------------------------------------------------------------------------
(* The main goroutine *)

(* An operator starts the process, with the flags he likes. *)
Boot(p) ==
    /\ main[p] = "exited"
    /\ main' = [main EXCEPT ![p] = "starting"]
    /\ \E m \in Modes : mode' = [mode EXCEPT ![p] = m]
    /\ registered' = [registered EXCEPT ![p] = {}]
    /\ succeeded' = [succeeded EXCEPT ![p] = {}]
    /\ UNCHANGED <<firing, holder, history>>

(* -job: RunJob looks the name up in jobEntries before main has registered  *)
(* any entry, finds none, and main exits with status 1.                     *)
RunJob(p) ==
    /\ main[p] = "starting"
    /\ mode[p] = "job"
    /\ registered[p] = {}
    /\ main' = [main EXCEPT ![p] = "exited"]
    /\ UNCHANGED <<mode, registered, firing, holder, succeeded, history>>

(* Register for each entry, in full mode only, then Start. *)
StartScheduler(p) ==
    /\ main[p] = "starting"
    /\ mode[p] \in {"full", "work"}
    /\ registered' = [registered EXCEPT
                         ![p] = IF mode[p] = "full" THEN Entries ELSE {}]
    /\ main' = [main EXCEPT ![p] = "serving"]
    /\ UNCHANGED <<mode, firing, holder, succeeded, history>>

(* SIGTERM: Stop asks cron to fire no more. *)
Terminate(p) ==
    /\ main[p] = "serving"
    /\ main' = [main EXCEPT ![p] = "stopping"]
    /\ UNCHANGED <<mode, registered, firing, holder, succeeded, history>>

(* Seeded fault: Stop goes on without "<-ctx.Done()". *)
CronStoppedAtOnce(p) ==
    /\ main[p] = "stopping"
    /\ main' = [main EXCEPT ![p] = "waiting"]
    /\ UNCHANGED <<mode, registered, firing, holder, succeeded, history>>

(* "<-ctx.Done()": every goroutine of cron has returned from Submit. *)
CronStopped(p) ==
    /\ main[p] = "stopping"
    /\ InSubmit(p) = {}
    /\ main' = [main EXCEPT ![p] = "waiting"]
    /\ UNCHANGED <<mode, registered, firing, holder, succeeded, history>>

(* pool.Wait, the HTTP shutdown and the return of main. *)
PoolDrained(p) ==
    /\ main[p] = "waiting"
    /\ InPool(p) = {}
    /\ main' = [main EXCEPT ![p] = "exited"]
    /\ UNCHANGED <<mode, registered, firing, holder, succeeded, history>>

-----------------------------------------------------------------------------
(* A firing *)

(* Seeded fault: cron goes on firing after Stop. *)
FireAlways(p, e) ==
    /\ main[p] \in {"serving", "stopping"}
    /\ e \in registered[p]
    /\ PC(p, e) = "none"
    /\ Goto(p, e, "submitted")
    /\ UNCHANGED <<process, holder, succeeded, history>>

(* The time of the entry has come. An entry is not fired again while it is  *)
(* still at work: hours lie between, a firing takes minutes.                *)
Fire(p, e) ==
    /\ main[p] = "serving"
    /\ e \in registered[p]
    /\ PC(p, e) = "none"
    /\ Goto(p, e, "submitted")
    /\ UNCHANGED <<process, holder, succeeded, history>>

(* Submit gets a slot of the semaphore; the first attempt begins. *)
Submit(p, e) ==
    /\ PC(p, e) = "submitted"
    /\ Cardinality(InPool(p)) < Concurrency
    /\ NextAttempt(p, e)
    /\ UNCHANGED <<process, holder, succeeded, history>>

(* Run takes the lock of its job, or needs none. *)
Acquire(p, e) ==
    /\ PC(p, e) = "acquire"
    /\ \/ /\ JobOf[e] \in LockedJobs
          /\ holder[JobOf[e]] = None
          /\ holder' = [holder EXCEPT ![JobOf[e]] = <<p, e>>]
       \/ /\ JobOf[e] \notin LockedJobs
          /\ UNCHANGED holder
    /\ ran' = [ran EXCEPT ![p] = @ \cup {JobOf[e]}]
    /\ Goto(p, e, "body")
    /\ UNCHANGED <<process, succeeded, unanswered, overruns>>

(* Redis sets the key, and its answer does not arrive: the client of the run *)
(* sends SETNX again and finds the key (Refused), or returns its error.      *)
AcquireUnanswered(p, e) ==
    /\ PC(p, e) = "acquire"
    /\ JobOf[e] \in LockedJobs
    /\ holder[JobOf[e]] = None
    /\ holder' = [holder EXCEPT ![JobOf[e]] = <<p, e>>]
    /\ unanswered' = unanswered \cup {JobOf[e]}
    /\ UNCHANGED <<process, firing, succeeded, ran, overruns>>

(* The key is there: Run returns nil, which counts as a success. *)
Refused(p, e) ==
    /\ PC(p, e) = "acquire"
    /\ JobOf[e] \in LockedJobs
    /\ holder[JobOf[e]] # None
    /\ Skip(JobOf[e])
    /\ recordSuccess(p, JobOf[e])
    /\ Ends(p, e)
    /\ UNCHANGED <<process, history>>

Succeeds(p, e) ==
    /\ PC(p, e) = "body"
    /\ ReleaseLock(JobOf[e])
    /\ recordSuccess(p, JobOf[e])
    /\ Ends(p, e)
    /\ UNCHANGED <<process, history>>

(* Run returns an error, of AcquireLock, which may have set the key, or     *)
(* after its deferred release.                                              *)
Fails(p, e) ==
    /\ \/ /\ PC(p, e) = "body"
          /\ ReleaseLock(JobOf[e])
       \/ /\ PC(p, e) = "acquire"
          /\ JobOf[e] \in LockedJobs
          /\ UNCHANGED holder
    /\ \/ AttemptsLeft(p, e) /\ Goto(p, e, "backoff") /\ UNCHANGED succeeded
       \/ ~AttemptsLeft(p, e) /\ GivesUp(p, e)
    /\ UNCHANGED <<process, history>>

(* The end of the backoff *)
Retry(p, e) ==
    /\ PC(p, e) = "backoff"
    /\ NextAttempt(p, e)
    /\ UNCHANGED <<process, holder, succeeded, history>>

-----------------------------------------------------------------------------
(* The environment *)

InLockedBody(f) == f \in Firings /\ PC(f[1], f[2]) = "body"

(* The TTL of a lock: its holder died, never knew that it had the lock or   *)
(* could not release it, or has been running for too long.                  *)
LockExpires(j) ==
    /\ holder[j] # None
    /\ \/ /\ ~InLockedBody(holder[j])
          /\ UNCHANGED overruns
       \/ /\ InLockedBody(holder[j])
          /\ overruns < MaxOverruns
          /\ overruns' = overruns + 1
    /\ holder' = [holder EXCEPT ![j] = None]
    /\ UNCHANGED <<process, firing, succeeded, ran, unanswered>>

(* SIGKILL *)
Crash(p) ==
    /\ main[p] \in {"serving", "stopping", "waiting"}
    /\ main' = [main EXCEPT ![p] = "exited"]
    /\ firing' = [firing EXCEPT ![p] = [e \in Entries |-> NoFiring]]
    /\ UNCHANGED <<mode, registered, holder, succeeded, history>>

-----------------------------------------------------------------------------
(* The specification *)

Init ==
    /\ main = [p \in Processes |-> "starting"]
    /\ mode \in [Processes -> Modes]
    /\ registered = [p \in Processes |-> {}]
    /\ firing = [p \in Processes |-> [e \in Entries |-> NoFiring]]
    /\ holder = [j \in Jobs |-> None]
    /\ succeeded = [p \in Processes |-> {}]
    /\ ran = [p \in Processes |-> {}]
    /\ unanswered = {}
    /\ overruns = 0

MainStep(p) ==
    RunJob(p) \/ StartScheduler(p) \/ CronStopped(p) \/ PoolDrained(p)

JobStep(p, e) ==
    \/ Acquire(p, e) \/ Refused(p, e) \/ Succeeds(p, e) \/ Fails(p, e)
    \/ Retry(p, e)

Next ==
    \/ \E p \in Processes :
          \/ Boot(p) \/ MainStep(p) \/ Terminate(p) \/ Crash(p)
          \/ \E e \in Entries :
                Fire(p, e) \/ Submit(p, e) \/ JobStep(p, e)
                    \/ AcquireUnanswered(p, e)
    \/ \E j \in Jobs : LockExpires(j)

Spec == Init /\ [][Next]_vars

(* Go serves the senders that wait for a channel in their order, so a       *)
(* firing gets a slot if slots keep becoming free; jobs return.             *)
FairSpec ==
    /\ Spec
    /\ \A p \in Processes : WF_vars(MainStep(p))
    /\ \A p \in Processes, e \in Entries :
          SF_vars(Submit(p, e)) /\ WF_vars(JobStep(p, e))

-----------------------------------------------------------------------------
(* Properties *)

(***************************************************************************)
(* A process that has gone through Stop leaves no firing behind, neither   *)
(* one that waits for a slot nor one in a retry: Stop waits for cron and   *)
(* then for the pool, in this order (scheduler.go:186-190).                *)
(***************************************************************************)
StopIsClean ==
    \A p \in Processes : main[p] = "exited" => InSubmit(p) \cup InPool(p) = {}

(***************************************************************************)
(* The lock keeps the runs of a job apart, over all processes, retries and *)
(* crashes, up to one more run at a time for each lock that expired under  *)
(* its run. The run that outlived its lock deletes that of the next, which *)
(* lets a third one in: by then it is over itself (lock.go:10-17,          *)
(* article_fetch.go:54-62).                                                *)
(***************************************************************************)
OneMorePerOverrun ==
    \A j \in LockedJobs : Cardinality(InBody(j)) <= 1 + overruns

(***************************************************************************)
(* What /readyz counts as a success of a job was run by somebody, in this  *)
(* process or in the one that refused it the lock, unless Redis set the    *)
(* key and nobody was told: then the next attempt is refused by the key of *)
(* its own firing, and a success is recorded for a job that nobody ran     *)
(* (article_fetch.go:54-61, scheduler.go:129-139, 168). No other failure,  *)
(* crash, expiry or deleted lock does that.                                *)
(***************************************************************************)
SuccessMeansRun ==
    \A p \in Processes :
        succeeded[p] \subseteq (UNION {ran[q] : q \in Processes}) \cup unanswered

(***************************************************************************)
(* Every firing comes to an end though all slots may be taken when it      *)
(* fires, the jobs before it fail, back off and are fired again, and the   *)
(* process is told to stop meanwhile: the goroutine of an entry is always  *)
(* done again (scheduler.go:86-92, 123-140, pool.go:17-24).                *)
(***************************************************************************)
FiringEnds ==
    \A p \in Processes, e \in Entries : []<>(PC(p, e) = "none")

(***************************************************************************)
(* A process does not stay in its shutdown: nothing new is fired and what  *)
(* is at work runs out of attempts (scheduler.go:186-190).                 *)
(***************************************************************************)
StopReturns ==
    \A p \in Processes : []<>(main[p] \notin {"stopping", "waiting"})

-----------------------------------------------------------------------------
(* What the documentation says and the code does not do *)

(***************************************************************************)
(* README.md:108: -job "runs a specific job (e.g., ai_synthesis or         *)
(* article_fetch) immediately once and then exits". So a process of that   *)
(* mode has run a job when it exits.                                       *)
(***************************************************************************)
ManualJobRuns ==
    \A p \in Processes :
        mode[p] = "job" /\ main[p] = "exited" => ran[p] # {}
=============================================================================
