------------------------------ MODULE Pipeline ------------------------------
(***************************************************************************)
(* The news pipeline between the draft table and the published digests:   *)
(* the ai_synthesis producer job (internal/worker/jobs/                    *)
(* ai_synthesis_job.go), the Redis task queue (internal/worker/            *)
(* task_queue.go), the queue workers (internal/worker/queue_worker.go) and *)
(* the rows they read and write (internal/modules/article/repository.go).  *)
(*                                                                         *)
(* A step is one call to PostgreSQL, Redis or Gemini with the local code   *)
(* up to the next call; everything else interleaves between two calls.     *)
(***************************************************************************)
EXTENDS Naturals, Sequences

CONSTANTS
    Drafts,          \* primary keys of stock_draft_article; a key is never reused
    Tickers,         \* stock symbols
    TickerOf,        \* the ticker each draft was crawled for
    Replicas,        \* worker processes, each with one queue worker
    FullReplicas,    \* those started without -work: cron runs the producer there
    RetryLimit,      \* 3 in the code (queue_worker.go, "task.Retry < 3")
    FailingCalls,    \* the call sites at which an error may be returned
    MaxFaults,       \* bound on the number of injected errors
    QueueCap,        \* bound: cron starts no run while the queue is this long
    None             \* no task, no draft

(* What the body of the worker does with an error of a call: return it to   *)
(* Start, which retries the task ...                                        *)
ReturnedErrors == {"getDraft", "extractFact", "saveFacts", "count", "trigger",
                   "getExtracted", "synthesizeFacts", "createPublished"}
(* ... or log or drop it and carry on.                                      *)
IgnoredErrors == {"requeue", "markFailed", "checkCount", "checkTrigger",
                  "emit", "cleanup"}
(* The call sites of the producer job.                                      *)
JobErrors == {"listPending", "enqueue", "mark", "listReady", "rescue",
              "release"}
(* A reply of BRPOP or of a write lost on the way, a process killed between *)
(* two calls, a run that outlives the TTL of its lock, clear_redis.         *)
Incidents == {"dequeue", "lostReply", "crash", "lockExpiry", "clear"}

ASSUME PipelineAssumption ==
    /\ TickerOf \in [Drafts -> Tickers]
    /\ FullReplicas \subseteq Replicas
    /\ RetryLimit \in Nat
    /\ FailingCalls \subseteq
           ReturnedErrors \cup IgnoredErrors \cup JobErrors \cup Incidents
    /\ MaxFaults \in Nat
    /\ QueueCap \in Nat
    /\ None \notin Drafts

VARIABLES
    draft,    \* draft[d]: ai_status of the row, or "absent" / "deleted"
    digests,  \* stock_published_article, in the order of insertion
    events,   \* messages published on "article.published"
    queue,    \* the Redis list verix:task_queue, oldest task first
    locked,   \* whether the Redis key lock:ai_synthesis exists
    worker,   \* worker[r]: next call of r's queue worker, its task, the drafts read
    job,      \* job[r]: next call of r's ai_synthesis run and its local variables
    faults    \* errors injected so far

tables == <<draft, digests, events>>
redis == <<queue, locked>>
vars == <<draft, digests, events, queue, locked, worker, job, faults>>

-----------------------------------------------------------------------------
(* Types *)

Statuses == {"pending", "extraction_queued", "extracted", "failed"}

ExtractTask == [type : {"extract"}, ticker : Tickers, article : Drafts,
                retry : 0..RetryLimit]
SynthesizeTask == [type : {"synthesize"}, ticker : Tickers, article : {None},
                   retry : 0..RetryLimit]
Task == ExtractTask \cup SynthesizeTask

Digest == [by : Replicas, ticker : Tickers, sources : SUBSET Drafts]

ExtractLabels == {"getDraft", "extractFact", "saveFacts", "count", "trigger",
                  "markFailed", "checkCount", "checkTrigger"}
SynthesizeLabels == {"getExtracted", "synthesizeFacts", "createPublished",
                     "emit", "cleanup"}
BusyLabels == ExtractLabels \cup SynthesizeLabels \cup {"requeue"}

(* A label goes with a task of the type it belongs to. *)
Worker == {w \in [pc : BusyLabels \cup {"idle"},
                  task : Task \cup {None}, batch : SUBSET Drafts] :
             /\ w.pc \in ExtractLabels => w.task \in ExtractTask
             /\ w.pc \in SynthesizeLabels => w.task \in SynthesizeTask
             /\ w.pc = "requeue" => w.task \in Task /\ w.task.retry < RetryLimit}

JobLabels == {"listPending", "enqueue", "mark", "rescue", "release"}

Job == {j \in [pc : JobLabels \cup {"idle"},
               todo : SUBSET Drafts,            \* drafts not yet enqueued
               current : Drafts \cup {None},    \* the draft enqueued last
               ready : SUBSET Tickers] :        \* tickers not yet rescued
          j.pc = "mark" => j.current \in Drafts}

Free == [pc |-> "idle", task |-> None, batch |-> {}]
NoRun == [pc |-> "idle", todo |-> {}, current |-> None, ready |-> {}]

TaskOf(r) == worker[r].task

(***************************************************************************)
(* Rows are in a known status, tasks are well formed with their retry      *)
(* counter within the limit of queue_worker.go:64, and every label of a    *)
(* worker goes with a task of the type that label belongs to.              *)
(***************************************************************************)
TypeOK ==
    /\ draft \in [Drafts -> Statuses \cup {"absent", "deleted"}]
    /\ digests \in Seq(Digest)
    /\ events \in Seq(Digest)
    /\ queue \in Seq(Task)
    /\ locked \in BOOLEAN
    /\ worker \in [Replicas -> Worker]
    /\ job \in [Replicas -> Job]
    /\ faults \in 0..MaxFaults

-----------------------------------------------------------------------------
(* The draft table (repository.go) *)

Stored(d) == draft[d] \in Statuses

IncompleteOf(t) ==
    {d \in Drafts : /\ TickerOf[d] = t
                    /\ draft[d] \in {"pending", "extraction_queued"}}

ExtractedOf(t) == {d \in Drafts : TickerOf[d] = t /\ draft[d] = "extracted"}

(* Seeded fault: the query stops at one row. *)
ReadForSynthesisLimited(t) ==
    IF ExtractedOf(t) = {} THEN {} ELSE {CHOOSE d \in ExtractedOf(t) : TRUE}

(* GetExtractedDraftsByTicker *)
ReadForSynthesis(t) == ExtractedOf(t)

(* The two HAVING clauses of GetTickersReadyForSynthesis. *)
ReadyForSynthesis(t) == IncompleteOf(t) = {} /\ ExtractedOf(t) # {}

(* Seeded fault: "> 0" taken for "> 1". *)
TickersReadyPlural ==
    {t \in Tickers : /\ ReadyForSynthesis(t)
                     /\ \E d, e \in ExtractedOf(t) : d # e}

TickersReady == {t \in Tickers : ReadyForSynthesis(t)}

(* UPDATE ... WHERE id = ?: no row, no effect and no error; the previous    *)
(* status is not looked at.                                                 *)
UpdateDraftAI(d, status) ==
    draft' = [draft EXCEPT ![d] = IF Stored(d) THEN status ELSE @]

(* Seeded fault: cleanup through the unused ClearProcessedDrafts, which     *)
(* deletes by a status no row ever gets.                                    *)
DeleteNothing(t) == draft' = draft

(* DELETE ... WHERE ticker = ?: every row of the ticker, in any status. *)
DeleteDraftsByTicker(t) ==
    draft' = [d \in Drafts |-> IF TickerOf[d] = t /\ Stored(d)
                               THEN "deleted" ELSE draft[d]]

-----------------------------------------------------------------------------
(* The task queue (task_queue.go) *)

Synthesis(t) == [type |-> "synthesize", ticker |-> t, article |-> None,
                 retry |-> 0]
Extraction(d) == [type |-> "extract", ticker |-> TickerOf[d], article |-> d,
                  retry |-> 0]

Enqueue(k) == queue' = Append(queue, k)

-----------------------------------------------------------------------------
(* Control of the workers and injected errors *)

Goto(r, label) == worker' = [worker EXCEPT ![r].pc = label]

(* Back to BRPOP: the task is out of the worker's hands. *)
Await(r) == worker' = [worker EXCEPT ![r] = Free]

Fault(site) ==
    /\ site \in FailingCalls
    /\ faults < MaxFaults
    /\ faults' = faults + 1

(* Seeded fault: one retry too many. *)
RetriesLeftOffByOne(k) == k.retry <= RetryLimit

RetriesLeft(k) == k.retry < RetryLimit

(* What Start does with an error of processTask. *)
HandleError(r) ==
    \/ /\ RetriesLeft(TaskOf(r))
       /\ worker' = [worker EXCEPT ![r].pc = "requeue", ![r].batch = {}]
    \/ /\ ~RetriesLeft(TaskOf(r))
       /\ TaskOf(r).type = "extract"
       /\ Goto(r, "markFailed")
    \/ /\ ~RetriesLeft(TaskOf(r))
       /\ TaskOf(r).type = "synthesize"
       /\ Await(r)

-----------------------------------------------------------------------------
(* The loop of the queue worker: Start, checkAndTriggerSynthesis *)

Dequeue(r) ==
    /\ worker[r].pc = "idle"
    /\ queue # <<>>
    /\ queue' = Tail(queue)
    /\ worker' = [worker EXCEPT
                     ![r].task = Head(queue),
                     ![r].pc = IF Head(queue).type = "extract"
                               THEN "getDraft" ELSE "getExtracted"]
    /\ UNCHANGED <<tables, locked, job, faults>>

(* Redis has popped the task and the reply does not arrive: Dequeue returns *)
(* an error and Start sleeps and goes on.                                   *)
DequeueLost(r) ==
    /\ worker[r].pc = "idle"
    /\ queue # <<>>
    /\ Fault("dequeue")
    /\ queue' = Tail(queue)
    /\ UNCHANGED <<tables, locked, worker, job>>

(* Seeded fault: the retry counter is not advanced. *)
RetriedUncounted(k) == k

Retried(k) == [k EXCEPT !.retry = @ + 1]

Requeue(r) ==
    /\ worker[r].pc = "requeue"
    /\ Enqueue(Retried(TaskOf(r)))
    /\ Await(r)
    /\ UNCHANGED <<tables, locked, job, faults>>

(* Seeded fault: terminal failure without the check of the batch. *)
MarkFailedUnchecked(r) ==
    /\ worker[r].pc = "markFailed"
    /\ UpdateDraftAI(TaskOf(r).article, "failed")
    /\ Await(r)
    /\ UNCHANGED <<digests, events, redis, job, faults>>

(* Retries exhausted: whatever the status was, it becomes "failed". *)
MarkFailed(r) ==
    /\ worker[r].pc = "markFailed"
    /\ UpdateDraftAI(TaskOf(r).article, "failed")
    /\ Goto(r, "checkCount")
    /\ UNCHANGED <<digests, events, redis, job, faults>>

(* CountIncompleteDraftsByTicker, in handleExtract ("count") and in         *)
(* checkAndTriggerSynthesis ("checkCount").                                 *)
CountIncomplete(r) ==
    /\ worker[r].pc \in {"count", "checkCount"}
    /\ \/ /\ IncompleteOf(TaskOf(r).ticker) = {}
          /\ Goto(r, IF worker[r].pc = "count" THEN "trigger"
                                               ELSE "checkTrigger")
       \/ /\ IncompleteOf(TaskOf(r).ticker) # {}
          /\ Await(r)
    /\ UNCHANGED <<tables, redis, job, faults>>

TriggerSynthesis(r) ==
    /\ worker[r].pc \in {"trigger", "checkTrigger"}
    /\ Enqueue(Synthesis(TaskOf(r).ticker))
    /\ Await(r)
    /\ UNCHANGED <<tables, locked, job, faults>>

-----------------------------------------------------------------------------
(* handleExtract *)

GetDraftByID(r) ==
    /\ worker[r].pc = "getDraft"
    /\ \/ Stored(TaskOf(r).article) /\ Goto(r, "extractFact")
       \/ ~Stored(TaskOf(r).article) /\ HandleError(r)   \* ErrRecordNotFound
    /\ UNCHANGED <<tables, redis, job, faults>>

ExtractFact(r) ==
    /\ worker[r].pc = "extractFact"
    /\ Goto(r, "saveFacts")
    /\ UNCHANGED <<tables, redis, job, faults>>

SaveFacts(r) ==
    /\ worker[r].pc = "saveFacts"
    /\ UpdateDraftAI(TaskOf(r).article, "extracted")
    /\ Goto(r, "count")
    /\ UNCHANGED <<digests, events, redis, job, faults>>

-----------------------------------------------------------------------------
(* handleSynthesize *)

GetExtracted(r) ==
    /\ worker[r].pc = "getExtracted"
    /\ \/ /\ ReadForSynthesis(TaskOf(r).ticker) = {}
          /\ Await(r)
       \/ /\ ReadForSynthesis(TaskOf(r).ticker) # {}
          /\ worker' = [worker EXCEPT
                           ![r].batch = ReadForSynthesis(TaskOf(r).ticker),
                           ![r].pc = "synthesizeFacts"]
    /\ UNCHANGED <<tables, redis, job, faults>>

SynthesizeFromFacts(r) ==
    /\ worker[r].pc = "synthesizeFacts"
    /\ Goto(r, "createPublished")
    /\ UNCHANGED <<tables, redis, job, faults>>

DigestOf(r) ==
    [by |-> r, ticker |-> TaskOf(r).ticker, sources |-> worker[r].batch]

(* Seeded fault: the drafts are cleaned up without the alert. *)
CreatePublishedSilently(r) ==
    /\ worker[r].pc = "createPublished"
    /\ digests' = Append(digests, DigestOf(r))
    /\ Goto(r, "cleanup")
    /\ UNCHANGED <<draft, events, redis, job, faults>>

CreatePublished(r) ==
    /\ worker[r].pc = "createPublished"
    /\ digests' = Append(digests, DigestOf(r))
    /\ Goto(r, "emit")
    /\ UNCHANGED <<draft, events, redis, job, faults>>

(* Seeded fault: the event is about what is extracted by now. *)
EmitReread(r) ==
    /\ worker[r].pc = "emit"
    /\ events' = Append(events, [DigestOf(r) EXCEPT
                                    !.sources = ReadForSynthesis(TaskOf(r).ticker)])
    /\ Goto(r, "cleanup")
    /\ UNCHANGED <<draft, digests, redis, job, faults>>

EmitPublished(r) ==
    /\ worker[r].pc = "emit"
    /\ events' = Append(events, DigestOf(r))
    /\ Goto(r, "cleanup")
    /\ UNCHANGED <<draft, digests, redis, job, faults>>

Cleanup(r) ==
    /\ worker[r].pc = "cleanup"
    /\ DeleteDraftsByTicker(TaskOf(r).ticker)
    /\ Await(r)
    /\ UNCHANGED <<digests, events, redis, job, faults>>

-----------------------------------------------------------------------------
(* Calls of the worker that fail *)

(* handleExtract and handleSynthesize: "if err != nil { return err }". *)
CallFails(r) ==
    /\ worker[r].pc \in ReturnedErrors
    /\ Fault(worker[r].pc)
    /\ HandleError(r)
    /\ UNCHANGED <<tables, redis, job>>

(* Errors that are logged or assigned to _: a lost re-enqueue loses the     *)
(* task, a failed count or trigger leaves the batch unannounced.            *)
IgnoredCallFails(r) ==
    /\ worker[r].pc \in IgnoredErrors
    /\ Fault(worker[r].pc)
    /\ \/ worker[r].pc = "markFailed" /\ Goto(r, "checkCount")
       \/ worker[r].pc = "emit" /\ Goto(r, "cleanup")
       \/ worker[r].pc \notin {"markFailed", "emit"} /\ Await(r)
    /\ UNCHANGED <<tables, redis, job>>

(* The write is done and its reply lost: an error for the worker. *)
LostReply(r) ==
    /\ Fault("lostReply")
    /\ \/ /\ worker[r].pc = "saveFacts"
          /\ UpdateDraftAI(TaskOf(r).article, "extracted")
          /\ UNCHANGED <<digests, queue>>
       \/ /\ worker[r].pc = "trigger"
          /\ Enqueue(Synthesis(TaskOf(r).ticker))
          /\ UNCHANGED <<draft, digests>>
       \/ /\ worker[r].pc = "createPublished"
          /\ digests' = Append(digests, DigestOf(r))
          /\ UNCHANGED <<draft, queue>>
    /\ HandleError(r)
    /\ UNCHANGED <<events, locked, job>>

-----------------------------------------------------------------------------
(* The producer: AISynthesisJob.Run *)

EndRun(r) == job' = [job EXCEPT ![r] = NoRun]

(* AcquireLock succeeds; on the key of another run Run returns at once. *)
StartRun(r) ==
    /\ r \in FullReplicas
    /\ job[r].pc = "idle"
    /\ Len(queue) < QueueCap
    /\ ~locked
    /\ locked' = TRUE
    /\ job' = [job EXCEPT ![r].pc = "listPending"]
    /\ UNCHANGED <<tables, queue, worker, faults>>

(* GetPendingDraftsGroupedByTicker *)
ListPending(r) ==
    /\ job[r].pc = "listPending"
    /\ job' = [job EXCEPT ![r].pc = "enqueue",
                          ![r].todo = {d \in Drafts : draft[d] = "pending"}]
    /\ UNCHANGED <<tables, redis, worker, faults>>

(* The drafts of a ticker are visited together, the tickers in any order. *)
LikeCurrent(r, d) ==
    job[r].current # None /\ TickerOf[d] = TickerOf[job[r].current]

NextDraft(r, d) ==
    /\ d \in job[r].todo
    /\ \/ LikeCurrent(r, d)
       \/ \A e \in job[r].todo : ~LikeCurrent(r, e)

EnqueueExtraction(r) ==
    /\ job[r].pc = "enqueue"
    /\ \E d \in Drafts :
          /\ NextDraft(r, d)
          /\ Enqueue(Extraction(d))
          /\ job' = [job EXCEPT ![r].pc = "mark", ![r].current = d]
    /\ UNCHANGED <<tables, locked, worker, faults>>

Enqueued(r) ==
    job' = [job EXCEPT ![r].pc = "enqueue", ![r].todo = @ \ {job[r].current}]

(* After the task is in the queue, and whatever a worker did since. *)
MarkQueued(r) ==
    /\ job[r].pc = "mark"
    /\ UpdateDraftAI(job[r].current, "extraction_queued")
    /\ Enqueued(r)
    /\ UNCHANGED <<digests, events, redis, worker, faults>>

(* GetTickersReadyForSynthesis *)
ListReady(r) ==
    /\ job[r].pc = "enqueue"
    /\ job[r].todo = {}
    /\ job' = [job EXCEPT ![r].pc = "rescue", ![r].ready = TickersReady]
    /\ UNCHANGED <<tables, redis, worker, faults>>

RescueTicker(r) ==
    /\ job[r].pc = "rescue"
    /\ \E t \in job[r].ready :
          /\ Enqueue(Synthesis(t))
          /\ job' = [job EXCEPT ![r].ready = @ \ {t}]
    /\ UNCHANGED <<tables, locked, worker, faults>>

AtRelease(r) ==
    \/ job[r].pc = "release"
    \/ job[r].pc = "rescue" /\ job[r].ready = {}

(* The deferred ReleaseLock deletes the key, whoever set it. *)
FinishRun(r) ==
    /\ AtRelease(r)
    /\ locked' = FALSE
    /\ EndRun(r)
    /\ UNCHANGED <<tables, queue, worker, faults>>

(* The calls of Run that fail. Only the first query ends the run; an        *)
(* unreleased lock waits for its TTL.                                       *)
JobCallFails(r) ==
    /\ \/ /\ job[r].pc = "listPending"
          /\ Fault("listPending")
          /\ job' = [job EXCEPT ![r].pc = "release"]
       \/ /\ job[r].pc = "enqueue"
          /\ Fault("enqueue")
          /\ \E d \in Drafts :
                /\ NextDraft(r, d)
                /\ job' = [job EXCEPT ![r].current = d,
                                      ![r].todo = @ \ {d}]
       \/ /\ job[r].pc = "mark"
          /\ Fault("mark")
          /\ Enqueued(r)
       \/ /\ job[r].pc = "enqueue"
          /\ job[r].todo = {}
          /\ Fault("listReady")
          /\ job' = [job EXCEPT ![r].pc = "release"]
       \/ /\ job[r].pc = "rescue"
          /\ Fault("rescue")
          /\ \E t \in job[r].ready :
                job' = [job EXCEPT ![r].ready = @ \ {t}]
       \/ /\ AtRelease(r)
          /\ Fault("release")
          /\ EndRun(r)
    /\ UNCHANGED <<tables, redis, worker>>

-----------------------------------------------------------------------------
(* The environment *)

Running(r) == job[r].pc # "idle"

(* The TTL of lock:ai_synthesis runs out: of a lock nobody holds any more,  *)
(* or, as an incident, of a run slower than 5 minutes.                      *)
LockExpires ==
    /\ locked
    /\ \/ (\A r \in Replicas : ~Running(r)) /\ UNCHANGED faults
       \/ (\E r \in Replicas : Running(r)) /\ Fault("lockExpiry")
    /\ locked' = FALSE
    /\ UNCHANGED <<tables, queue, worker, job>>

(* The tool clear_redis deletes the list; the rows stay as they are. *)
ClearQueue ==
    /\ queue # <<>>
    /\ Fault("clear")
    /\ queue' = <<>>
    /\ UNCHANGED <<tables, locked, worker, job>>

(* article_fetch stores a new draft. *)
CreateDraft(d) ==
    /\ draft[d] = "absent"
    /\ draft' = [draft EXCEPT ![d] = "pending"]
    /\ UNCHANGED <<digests, events, redis, worker, job, faults>>

(* The process dies, or is stopped by SIGTERM or at the end of a -job run,  *)
(* with whatever its worker has popped, and may be started again; its lock  *)
(* stays in Redis.                                                          *)
Crash(r) ==
    /\ worker[r].pc \in BusyLabels \/ Running(r)
    /\ Fault("crash")
    /\ Await(r)
    /\ EndRun(r)
    /\ UNCHANGED <<tables, redis>>

-----------------------------------------------------------------------------
(* The specification *)

Init ==
    /\ draft = [d \in Drafts |-> "absent"]
    /\ digests = <<>>
    /\ events = <<>>
    /\ queue = <<>>
    /\ locked = FALSE
    /\ worker = [r \in Replicas |-> Free]
    /\ job = [r \in Replicas |-> NoRun]
    /\ faults = 0

ExtractStep(r) == GetDraftByID(r) \/ ExtractFact(r) \/ SaveFacts(r)

SynthesizeStep(r) ==
    \/ GetExtracted(r) \/ SynthesizeFromFacts(r) \/ CreatePublished(r)
    \/ EmitPublished(r) \/ Cleanup(r)

LoopStep(r) ==
    \/ Dequeue(r) \/ DequeueLost(r) \/ Requeue(r) \/ MarkFailed(r)
    \/ CountIncomplete(r) \/ TriggerSynthesis(r)

WorkerStep(r) ==
    \/ LoopStep(r) \/ ExtractStep(r) \/ SynthesizeStep(r)
    \/ CallFails(r) \/ IgnoredCallFails(r) \/ LostReply(r)

JobStep(r) ==
    \/ StartRun(r) \/ ListPending(r) \/ EnqueueExtraction(r)
    \/ MarkQueued(r) \/ ListReady(r) \/ RescueTicker(r) \/ FinishRun(r)
    \/ JobCallFails(r)

Next ==
    \/ \E r \in Replicas : WorkerStep(r) \/ JobStep(r) \/ Crash(r)
    \/ LockExpires \/ ClearQueue
    \/ \E d \in Drafts : CreateDraft(d)

Spec == Init /\ [][Next]_vars

(* Start loops for ever, a call returns or fails, cron keeps firing and     *)
(* Redis expires keys. Nothing owes a crash or an arrival.                  *)
FairSpec ==
    /\ Spec
    /\ \A r \in Replicas : WF_vars(WorkerStep(r)) /\ WF_vars(JobStep(r))
    /\ WF_vars(LockExpires)

-----------------------------------------------------------------------------
(* Properties *)

(* A task of the ticker is in the queue or in a worker's hands. *)
Attended(t) ==
    \/ \E i \in DOMAIN queue : queue[i].ticker = t
    \/ \E r \in Replicas :
          worker[r].pc \in BusyLabels /\ TaskOf(r).ticker = t

(***************************************************************************)
(* The last extraction of a batch always hands over to synthesis: a ticker *)
(* whose drafts are all settled, one of them extracted, has a task in the  *)
(* queue or in a worker's hands, however the workers that finish its last  *)
(* drafts interleave between their UPDATE and their COUNT, and whether the *)
(* last draft succeeds or exhausts its retries (queue_worker.go:69-76,     *)
(* 123-141).                                                               *)
(***************************************************************************)
NoStrandedTicker == \A t \in Tickers : ReadyForSynthesis(t) => Attended(t)

Digested == UNION {digests[i].sources : i \in DOMAIN digests}
Announced == UNION {events[i].sources : i \in DOMAIN events}

(***************************************************************************)
(* A worker never puts an article in two of its digests, however often the *)
(* synthesis of a ticker is triggered, rescued or retried: handleSynthesize*)
(* deletes what it published before it takes another task                  *)
(* (queue_worker.go:207-220).                                              *)
(***************************************************************************)
NoSelfDuplicate ==
    \A i, j \in DOMAIN digests :
        i # j /\ digests[i].by = digests[j].by =>
            digests[i].sources \cap digests[j].sources = {}

(***************************************************************************)
(* With one worker process no extracted article is deleted unpublished,    *)
(* through every failure, crash and retry: the DELETE by ticker            *)
(* (queue_worker.go:218) removes extracted rows only of the batch          *)
(* handleSynthesize read (line 151) and stored (line 207).                 *)
(***************************************************************************)
ExtractedNeverLost ==
    [][\A d \in Drafts :
          draft[d] = "extracted" /\ draft'[d] = "deleted" => d \in Digested]_vars

(***************************************************************************)
(* No process dying, the drafts of a digest are gone only when it was      *)
(* announced or its worker is just about to announce it, also when another *)
(* worker of the ticker deletes them first (queue_worker.go:207-220).      *)
(***************************************************************************)
AlertBeforeCleanup ==
    \A d \in Drafts :
        draft[d] = "deleted" /\ d \in Digested =>
            \/ d \in Announced
            \/ \E r \in Replicas :
                  worker[r].pc = "emit" /\ d \in worker[r].batch

(***************************************************************************)
(* The retry limit stops the feedback of tasks into the queue: when no new *)
(* article arrives the queue runs empty and stays empty, tasks of deleted  *)
(* drafts, duplicate triggers and rescues included (queue_worker.go:60-79).*)
(***************************************************************************)
QueueDrains == <>[](queue = <<>>)

(***************************************************************************)
(* Whatever loses the synthesis task of a settled ticker - a crash, a lost *)
(* reply, exhausted retries, a failed cleanup, a failed trigger - some     *)
(* later run of the producer enqueues it again, also from behind an        *)
(* orphaned lock (ai_synthesis_job.go:75-90).                              *)
(***************************************************************************)
RescueReachesReady ==
    \A t \in Tickers :
        ReadyForSynthesis(t) ~> (Attended(t) \/ ~ReadyForSynthesis(t))

PhaseOf(status) ==
    IF status \in {"pending", "extraction_queued", "failed"}
    THEN "waiting" ELSE status

Ledger == INSTANCE DigestLedger
             WITH phase <- [d \in Drafts |-> PhaseOf(draft[d])],
                  ledger <- digests,
                  alerts <- events

(***************************************************************************)
(* One worker process implements the ledger of digests, through every      *)
(* failure, crash and retry: it stores a digest only with all that is      *)
(* extracted of its ticker, announces only the newest one and deletes a    *)
(* ticker only after the digest that covers it (handleSynthesize,          *)
(* queue_worker.go:145-222).                                               *)
(***************************************************************************)
ImplementsLedger == Ledger!Spec

StageOf(pc) ==
    CASE pc \in {"synthesizeFacts", "createPublished"} -> "read"
      [] pc = "emit" -> "stored"
      [] pc = "cleanup" -> "told"
      [] OTHER -> "idle"

HandOf(r) ==
    IF StageOf(worker[r].pc) = "idle" THEN [stage |-> "idle"]
    ELSE [stage |-> StageOf(worker[r].pc), ticker |-> TaskOf(r).ticker,
          sources |-> worker[r].batch]

Team == INSTANCE DigestWriters
           WITH Writers <- Replicas,
                phase <- [d \in Drafts |-> PhaseOf(draft[d])],
                ledger <- digests,
                alerts <- events,
                hand <- [r \in Replicas |-> HandOf(r)]

(***************************************************************************)
(* Any number of worker processes that take each other's tasks and delete  *)
(* each other's drafts implement the writers: a digest holds just what one *)
(* query found, is announced once at most, by who stored it, and a ticker  *)
(* is cleared only by a worker with a stored digest of it in its hands     *)
(* (handleSynthesize, queue_worker.go:145-222).                            *)
(***************************************************************************)
ImplementsWriters == Team!Spec

-----------------------------------------------------------------------------
(* What the documentation says and the code does not do *)

(***************************************************************************)
(* README.md:116: the drafts of a ticker are read, put into one published  *)
(* article with their source links, then deleted. So an article that is    *)
(* still to be extracted and in no digest yet is not deleted.              *)
(***************************************************************************)
UnreadNeverDeleted ==
    [][\A d \in Drafts :
          draft[d] \in {"pending", "extraction_queued"} /\ d \notin Digested =>
              draft'[d] # "deleted"]_vars

(***************************************************************************)
(* README.md:28 and IDEA.md:12: the articles of a session go into a single *)
(* digest. So no article is in two digests.                                *)
(***************************************************************************)
SingleDigest ==
    \A i, j \in DOMAIN digests :
        i # j => digests[i].sources \cap digests[j].sources = {}

(***************************************************************************)
(* ai_synthesis_job.go:75: abandoned tickers "like MBB with 36 extracted   *)
(* but no synthesis" are rescued. So extracted articles are never left     *)
(* with neither a task nor a rescue to come.                               *)
(***************************************************************************)
AbandonedTickerRescued ==
    \A t \in Tickers :
        ExtractedOf(t) # {} ~> (Attended(t) \/ ExtractedOf(t) = {})
=============================================================================
