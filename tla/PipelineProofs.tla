--------------------------- MODULE PipelineProofs ---------------------------
(* Theorems of the specification Pipeline for every set of drafts, tickers  *)
(* and worker processes, every retry limit and every number of failures.    *)
EXTENDS Pipeline, SequenceTheorems, TLAPS

(* A worker keeps its type when it moves on to a label of the same task. *)
LEMMA MoveInExtract ==
    ASSUME NEW w \in Worker, w.task \in ExtractTask,
           NEW label \in ExtractLabels
    PROVE  [w EXCEPT !.pc = label] \in Worker
BY DEF Worker, ExtractLabels, SynthesizeLabels, BusyLabels

LEMMA MoveInSynthesize ==
    ASSUME NEW w \in Worker, w.task \in SynthesizeTask,
           NEW label \in SynthesizeLabels, NEW b \in SUBSET Drafts
    PROVE  /\ [w EXCEPT !.pc = label] \in Worker
           /\ [w EXCEPT !.batch = b, !.pc = label] \in Worker
BY DEF Worker, ExtractLabels, SynthesizeLabels, BusyLabels

LEMMA FreeIsWorker == Free \in Worker
BY DEF Worker, Free, ExtractLabels, SynthesizeLabels, BusyLabels

LEMMA BusyHasTask ==
    ASSUME NEW w \in Worker, w.pc \in BusyLabels
    PROVE  /\ w.task \in Task
           /\ w.task.retry \in 0..RetryLimit
           /\ w.task.ticker \in Tickers
           /\ w.task.type \in {"extract", "synthesize"}
           /\ w.task.type = "extract" <=> w.task \in ExtractTask
           /\ w.task.type = "synthesize" <=> w.task \in SynthesizeTask
BY DEF Worker, Task, ExtractTask, SynthesizeTask, BusyLabels

LEMMA HandleErrorType ==
    ASSUME TypeOK, NEW r \in Replicas, HandleError(r),
           worker[r].pc \in ReturnedErrors
    PROVE  worker' \in [Replicas -> Worker]
<1> DEFINE w == worker[r]
<1>1. w \in Worker /\ w.pc \in BusyLabels
  BY DEF TypeOK, ReturnedErrors, BusyLabels, ExtractLabels, SynthesizeLabels
<1>2. CASE RetriesLeft(TaskOf(r)) /\ worker' = [worker EXCEPT ![r].pc = "requeue", ![r].batch = {}]
  <2>1. [w EXCEPT !.pc = "requeue", !.batch = {}] \in Worker
    BY <1>1, <1>2, BusyHasTask
       DEF Worker, RetriesLeft, TaskOf, BusyLabels, ExtractLabels,
           SynthesizeLabels
  <2>2. worker' = [worker EXCEPT ![r] = [w EXCEPT !.pc = "requeue", !.batch = {}]]
    BY <1>2
  <2>. QED BY <2>1, <2>2 DEF TypeOK
<1>3. CASE TaskOf(r).type = "extract" /\ Goto(r, "markFailed")
  <2>1. [w EXCEPT !.pc = "markFailed"] \in Worker
    BY <1>1, <1>3, BusyHasTask, MoveInExtract DEF TaskOf, ExtractLabels
  <2>. QED BY <1>3, <2>1 DEF TypeOK, Goto
<1>4. CASE Await(r)
  BY <1>4, FreeIsWorker DEF TypeOK, Await
<1>. QED BY <1>2, <1>3, <1>4 DEF HandleError

LEMMA UpdateDraftType ==
    ASSUME TypeOK, NEW d \in Drafts, NEW status \in Statuses,
           UpdateDraftAI(d, status)
    PROVE  draft' \in [Drafts -> Statuses \cup {"absent", "deleted"}]
BY DEF TypeOK, UpdateDraftAI

LEMMA EnqueueType ==
    ASSUME TypeOK, NEW k \in Task, Enqueue(k)
    PROVE  queue' \in Seq(Task)
BY DEF TypeOK, Enqueue

LEMMA NewTasks ==
    /\ \A t \in Tickers : Synthesis(t) \in SynthesizeTask
    /\ \A d \in Drafts : Extraction(d) \in ExtractTask
    /\ \A t \in Tickers : Synthesis(t) \in Task
    /\ \A d \in Drafts : Extraction(d) \in Task
BY PipelineAssumption
   DEF Synthesis, Extraction, Task, ExtractTask, SynthesizeTask

LEMMA LoopType ==
    ASSUME TypeOK, NEW r \in Replicas, LoopStep(r)
    PROVE  TypeOK'
<1> DEFINE w == worker[r]
<1>1. w \in Worker BY DEF TypeOK
<1>2. CASE Dequeue(r)
  <2>1. Head(queue) \in Task /\ Tail(queue) \in Seq(Task)
    BY <1>2 DEF TypeOK, Dequeue
  <2>2. CASE Head(queue).type = "extract"
    <3>1. Head(queue) \in ExtractTask
      BY <2>1, <2>2 DEF Task, SynthesizeTask
    <3>2. [w EXCEPT !.task = Head(queue), !.pc = "getDraft"] \in Worker
      BY <1>1, <2>1, <3>1
         DEF Worker, ExtractLabels, SynthesizeLabels, BusyLabels
    <3>. QED BY <1>2, <2>1, <2>2, <3>2 DEF TypeOK, Dequeue, tables
  <2>3. CASE Head(queue).type # "extract"
    <3>1. Head(queue) \in SynthesizeTask
      BY <2>1, <2>3 DEF Task, ExtractTask
    <3>2. [w EXCEPT !.task = Head(queue), !.pc = "getExtracted"] \in Worker
      BY <1>1, <2>1, <3>1
         DEF Worker, ExtractLabels, SynthesizeLabels, BusyLabels
    <3>. QED BY <1>2, <2>1, <2>3, <3>2 DEF TypeOK, Dequeue, tables
  <2>. QED BY <2>2, <2>3
<1>3. CASE DequeueLost(r)
  <2>1. Tail(queue) \in Seq(Task)
    BY <1>3 DEF TypeOK, DequeueLost
  <2>2. faults' \in 0..MaxFaults
    BY <1>3, PipelineAssumption DEF TypeOK, DequeueLost, Fault
  <2>. QED BY <1>3, <2>1, <2>2 DEF TypeOK, DequeueLost, tables
<1>4. CASE Requeue(r)
  <2>1. TaskOf(r) \in Task /\ TaskOf(r).retry < RetryLimit
    BY <1>1, <1>4 DEF Worker, Requeue, TaskOf
  <2>2. Retried(TaskOf(r)) \in Task
    BY <2>1, PipelineAssumption
       DEF Retried, Task, ExtractTask, SynthesizeTask
  <2>. QED BY <1>4, <2>2, EnqueueType, FreeIsWorker
           DEF TypeOK, Requeue, Await, tables
<1>5. CASE MarkFailed(r)
  <2>1. w.task \in ExtractTask
    BY <1>1, <1>5 DEF MarkFailed, Worker, ExtractLabels
  <2>2. [w EXCEPT !.pc = "checkCount"] \in Worker
    BY <1>1, <2>1, MoveInExtract DEF ExtractLabels
  <2>3. draft' \in [Drafts -> Statuses \cup {"absent", "deleted"}]
    BY <2>1, <1>5, UpdateDraftType
       DEF MarkFailed, TaskOf, ExtractTask, Statuses
  <2>. QED BY <1>5, <2>2, <2>3 DEF TypeOK, MarkFailed, Goto, redis
<1>6. CASE CountIncomplete(r)
  <2>1. w.task \in ExtractTask
    BY <1>1, <1>6 DEF CountIncomplete, Worker, ExtractLabels
  <2>2. /\ [w EXCEPT !.pc = "trigger"] \in Worker
        /\ [w EXCEPT !.pc = "checkTrigger"] \in Worker
    BY <1>1, <2>1, MoveInExtract DEF ExtractLabels
  <2>3. worker' \in [Replicas -> Worker]
    BY <1>6, <2>2, FreeIsWorker DEF TypeOK, CountIncomplete, Goto, Await
  <2>. QED BY <1>6, <2>3 DEF TypeOK, CountIncomplete, tables, redis
<1>7. CASE TriggerSynthesis(r)
  <2>1. TaskOf(r).ticker \in Tickers
    BY <1>1, <1>7
       DEF TriggerSynthesis, Worker, ExtractLabels, ExtractTask, TaskOf
  <2>. QED BY <1>7, <2>1, NewTasks, EnqueueType, FreeIsWorker
           DEF TypeOK, TriggerSynthesis, Await, tables
<1>. QED BY <1>2, <1>3, <1>4, <1>5, <1>6, <1>7 DEF LoopStep

LEMMA ExtractType ==
    ASSUME TypeOK, NEW r \in Replicas, ExtractStep(r)
    PROVE  TypeOK'
<1> DEFINE w == worker[r]
<1>1. w \in Worker BY DEF TypeOK
<1>2. w.task \in ExtractTask
  BY <1>1 DEF ExtractStep, GetDraftByID, ExtractFact, SaveFacts, Worker,
              ExtractLabels
<1>3. /\ [w EXCEPT !.pc = "extractFact"] \in Worker
      /\ [w EXCEPT !.pc = "saveFacts"] \in Worker
      /\ [w EXCEPT !.pc = "count"] \in Worker
  BY <1>1, <1>2, MoveInExtract DEF ExtractLabels
<1>4. CASE GetDraftByID(r)
  <2>1. worker' \in [Replicas -> Worker]
    BY <1>3, <1>4, HandleErrorType
       DEF TypeOK, GetDraftByID, Goto, ReturnedErrors
  <2>. QED BY <1>4, <2>1 DEF TypeOK, GetDraftByID, tables, redis
<1>5. CASE ExtractFact(r)
  BY <1>3, <1>5 DEF TypeOK, ExtractFact, Goto, tables, redis
<1>6. CASE SaveFacts(r)
  <2>1. draft' \in [Drafts -> Statuses \cup {"absent", "deleted"}]
    BY <1>2, <1>6, UpdateDraftType
       DEF SaveFacts, TaskOf, ExtractTask, Statuses
  <2>. QED BY <1>3, <1>6, <2>1 DEF TypeOK, SaveFacts, Goto, redis
<1>. QED BY <1>4, <1>5, <1>6 DEF ExtractStep

LEMMA SynthesizeType ==
    ASSUME TypeOK, NEW r \in Replicas, SynthesizeStep(r)
    PROVE  TypeOK'
<1> DEFINE w == worker[r]
<1>1. w \in Worker BY DEF TypeOK
<1>2. w.task \in SynthesizeTask
  BY <1>1 DEF SynthesizeStep, GetExtracted, SynthesizeFromFacts,
              CreatePublished, EmitPublished, Cleanup, Worker,
              SynthesizeLabels
<1>3. DigestOf(r) \in Digest
  BY <1>1, <1>2 DEF DigestOf, Digest, TaskOf, SynthesizeTask, Worker
<1>4. CASE GetExtracted(r)
  <2>1. [w EXCEPT !.batch = ReadForSynthesis(TaskOf(r).ticker),
                  !.pc = "synthesizeFacts"] \in Worker
    BY <1>1, <1>2, MoveInSynthesize
       DEF ReadForSynthesis, ExtractedOf, SynthesizeLabels
  <2>2. worker' \in [Replicas -> Worker]
    BY <1>4, <2>1, FreeIsWorker DEF TypeOK, GetExtracted, Await
  <2>. QED BY <1>4, <2>2 DEF TypeOK, GetExtracted, tables, redis
<1>5. CASE SynthesizeFromFacts(r)
  <2>1. [w EXCEPT !.pc = "createPublished"] \in Worker
    BY <1>1, <1>2, MoveInSynthesize DEF SynthesizeLabels
  <2>. QED BY <1>5, <2>1
           DEF TypeOK, SynthesizeFromFacts, Goto, tables, redis
<1>6. CASE CreatePublished(r)
  <2>1. [w EXCEPT !.pc = "emit"] \in Worker
    BY <1>1, <1>2, MoveInSynthesize DEF SynthesizeLabels
  <2>. QED BY <1>3, <1>6, <2>1 DEF TypeOK, CreatePublished, Goto, redis
<1>7. CASE EmitPublished(r)
  <2>1. [w EXCEPT !.pc = "cleanup"] \in Worker
    BY <1>1, <1>2, MoveInSynthesize DEF SynthesizeLabels
  <2>. QED BY <1>3, <1>7, <2>1 DEF TypeOK, EmitPublished, Goto, redis
<1>8. CASE Cleanup(r)
  BY <1>8, FreeIsWorker
     DEF TypeOK, Cleanup, DeleteDraftsByTicker, Await, redis
<1>. QED BY <1>4, <1>5, <1>6, <1>7, <1>8 DEF SynthesizeStep

LEMMA FailureType ==
    ASSUME TypeOK, NEW r \in Replicas,
           CallFails(r) \/ IgnoredCallFails(r) \/ LostReply(r)
    PROVE  TypeOK'
<1> DEFINE w == worker[r]
<1>1. w \in Worker /\ faults' \in 0..MaxFaults
  BY PipelineAssumption
     DEF TypeOK, CallFails, IgnoredCallFails, LostReply, Fault
<1>2. CASE CallFails(r)
  BY <1>1, <1>2, HandleErrorType DEF TypeOK, CallFails, tables, redis
<1>3. CASE IgnoredCallFails(r)
  <2>1. w.pc = "markFailed" => [w EXCEPT !.pc = "checkCount"] \in Worker
    BY <1>1, MoveInExtract DEF Worker, ExtractLabels
  <2>2. w.pc = "emit" => [w EXCEPT !.pc = "cleanup"] \in Worker
    BY <1>1, MoveInSynthesize DEF Worker, SynthesizeLabels
  <2>3. worker' \in [Replicas -> Worker]
    BY <1>3, <2>1, <2>2, FreeIsWorker
       DEF TypeOK, IgnoredCallFails, Goto, Await
  <2>. QED BY <1>1, <1>3, <2>3 DEF TypeOK, IgnoredCallFails, tables, redis
<1>4. CASE LostReply(r)
  <2>1. worker' \in [Replicas -> Worker]
    BY <1>4, HandleErrorType DEF LostReply, ReturnedErrors
  <2>2. CASE /\ w.pc = "saveFacts"
             /\ UpdateDraftAI(TaskOf(r).article, "extracted")
             /\ UNCHANGED <<digests, queue>>
    <3>1. draft' \in [Drafts -> Statuses \cup {"absent", "deleted"}]
      BY <1>1, <2>2, UpdateDraftType
         DEF Worker, ExtractLabels, ExtractTask, TaskOf, Statuses
    <3>. QED BY <1>1, <1>4, <2>1, <2>2, <3>1 DEF TypeOK, LostReply
  <2>3. CASE /\ w.pc = "trigger"
             /\ Enqueue(Synthesis(TaskOf(r).ticker))
             /\ UNCHANGED <<draft, digests>>
    <3>1. TaskOf(r).ticker \in Tickers
      BY <1>1, <2>3 DEF Worker, ExtractLabels, ExtractTask, TaskOf
    <3>. QED BY <1>1, <1>4, <2>1, <2>3, <3>1, NewTasks, EnqueueType
             DEF TypeOK, LostReply
  <2>4. CASE /\ w.pc = "createPublished"
             /\ digests' = Append(digests, DigestOf(r))
             /\ UNCHANGED <<draft, queue>>
    <3>1. DigestOf(r) \in Digest
      BY <1>1, <2>4
         DEF DigestOf, Digest, TaskOf, SynthesizeTask, SynthesizeLabels,
             Worker
    <3>. QED BY <1>1, <1>4, <2>1, <2>4, <3>1 DEF TypeOK, LostReply
  <2>. QED BY <1>4, <2>2, <2>3, <2>4 DEF LostReply
<1>. QED BY <1>2, <1>3, <1>4

LEMMA WorkerType ==
    ASSUME TypeOK, NEW r \in Replicas, WorkerStep(r)
    PROVE  TypeOK'
BY LoopType, ExtractType, SynthesizeType, FailureType DEF WorkerStep

LEMMA JobType ==
    ASSUME TypeOK, NEW r \in Replicas, JobStep(r)
    PROVE  TypeOK'
<1> DEFINE j == job[r]
<1>1. j \in Job /\ NoRun \in Job
  BY DEF TypeOK, Job, NoRun, JobLabels
<1>2. CASE StartRun(r)
  <2>1. [j EXCEPT !.pc = "listPending"] \in Job
    BY <1>1 DEF Job, JobLabels
  <2>. QED BY <1>2, <2>1 DEF TypeOK, StartRun, tables
<1>3. CASE ListPending(r)
  <2>1. [j EXCEPT !.pc = "enqueue",
                  !.todo = {d \in Drafts : draft[d] = "pending"}] \in Job
    BY <1>1 DEF Job, JobLabels
  <2>. QED BY <1>3, <2>1 DEF TypeOK, ListPending, tables, redis
<1>4. CASE EnqueueExtraction(r)
  <2>1. PICK d \in Drafts :
           /\ Enqueue(Extraction(d))
           /\ job' = [job EXCEPT ![r].pc = "mark", ![r].current = d]
    BY <1>4 DEF EnqueueExtraction
  <2>2. [j EXCEPT !.pc = "mark", !.current = d] \in Job
    BY <1>1 DEF Job, JobLabels
  <2>. QED BY <1>4, <2>1, <2>2, NewTasks, EnqueueType
           DEF TypeOK, EnqueueExtraction, tables
<1>5. CASE MarkQueued(r)
  <2>1. [j EXCEPT !.pc = "enqueue", !.todo = @ \ {j.current}] \in Job
    BY <1>1 DEF Job, JobLabels
  <2>2. draft' \in [Drafts -> Statuses \cup {"absent", "deleted"}]
    BY <1>1, <1>5, UpdateDraftType DEF MarkQueued, Job, Statuses
  <2>. QED BY <1>5, <2>1, <2>2 DEF TypeOK, MarkQueued, Enqueued, redis
<1>6. CASE ListReady(r)
  <2>1. [j EXCEPT !.pc = "rescue", !.ready = TickersReady] \in Job
    BY <1>1 DEF Job, JobLabels, TickersReady
  <2>. QED BY <1>6, <2>1 DEF TypeOK, ListReady, tables, redis
<1>7. CASE RescueTicker(r)
  <2>1. PICK t \in j.ready :
           /\ Enqueue(Synthesis(t))
           /\ job' = [job EXCEPT ![r].ready = @ \ {t}]
    BY <1>7 DEF RescueTicker
  <2>2. t \in Tickers /\ [j EXCEPT !.ready = @ \ {t}] \in Job
    BY <1>1, <1>7, <2>1 DEF Job, RescueTicker
  <2>. QED BY <1>7, <2>1, <2>2, NewTasks, EnqueueType
           DEF TypeOK, RescueTicker, tables
<1>8. CASE FinishRun(r)
  BY <1>1, <1>8 DEF TypeOK, FinishRun, EndRun, tables
<1>9. CASE JobCallFails(r)
  <2>1. /\ [j EXCEPT !.pc = "release"] \in Job
        /\ [j EXCEPT !.pc = "enqueue", !.todo = @ \ {j.current}] \in Job
        /\ \A t \in j.ready : [j EXCEPT !.ready = @ \ {t}] \in Job
    BY <1>1 DEF Job, JobLabels
  <2>2. \A d \in Drafts :
           j.pc = "enqueue" =>
              [j EXCEPT !.current = d, !.todo = @ \ {d}] \in Job
    BY <1>1 DEF Job, JobLabels
  <2>3. job' \in [Replicas -> Job]
    BY <1>1, <1>9, <2>1, <2>2 DEF TypeOK, JobCallFails, Enqueued, EndRun
  <2>4. faults' \in 0..MaxFaults
    BY <1>9, PipelineAssumption DEF TypeOK, JobCallFails, Fault
  <2>. QED BY <1>9, <2>3, <2>4 DEF TypeOK, JobCallFails, tables, redis
<1>. QED BY <1>2, <1>3, <1>4, <1>5, <1>6, <1>7, <1>8, <1>9 DEF JobStep

LEMMA EnvironmentType ==
    ASSUME TypeOK,
           \/ \E r \in Replicas : Crash(r)
           \/ LockExpires \/ ClearQueue
           \/ \E d \in Drafts : CreateDraft(d)
    PROVE  TypeOK'
<1>1. NoRun \in Job BY DEF Job, NoRun, JobLabels
<1>2. CASE \E r \in Replicas : Crash(r)
  BY <1>1, <1>2, FreeIsWorker, PipelineAssumption
     DEF TypeOK, Crash, Await, EndRun, Fault, tables, redis
<1>4. CASE LockExpires
  <2>1. faults' \in 0..MaxFaults
    BY <1>4, PipelineAssumption DEF TypeOK, LockExpires, Fault
  <2>. QED BY <1>4, <2>1 DEF TypeOK, LockExpires, tables
<1>6. CASE ClearQueue
  <2>1. faults' \in 0..MaxFaults
    BY <1>6, PipelineAssumption DEF TypeOK, ClearQueue, Fault
  <2>. QED BY <1>6, <2>1 DEF TypeOK, ClearQueue, tables
<1>5. CASE \E d \in Drafts : CreateDraft(d)
  BY <1>5 DEF TypeOK, CreateDraft, Statuses, redis
<1>. QED BY <1>2, <1>4, <1>5, <1>6

(***************************************************************************)
(* In every reachable state every row has a known status, every task in    *)
(* the queue or in a worker's hands is well formed with a retry counter    *)
(* within the limit, and every worker holds a task of the type its next    *)
(* call needs.                                                             *)
(***************************************************************************)
THEOREM TypeCorrect == Spec => []TypeOK
<1>1. Init => TypeOK
  <2>1. NoRun \in Job
    BY DEF NoRun, Job, JobLabels
  <2>2. Init => /\ digests \in Seq(Digest)
                /\ events \in Seq(Digest)
                /\ queue \in Seq(Task)
    BY DEF Init
  <2>3. Init => faults \in 0..MaxFaults
    BY PipelineAssumption DEF Init
  <2>. QED BY <2>1, <2>2, <2>3, FreeIsWorker DEF Init, TypeOK
<1>2. TypeOK /\ [Next]_vars => TypeOK'
  <2>1. CASE UNCHANGED vars
    BY <2>1 DEF vars, TypeOK
  <2>. QED BY <2>1, WorkerType, JobType, EnvironmentType DEF Next
<1>. QED BY <1>1, <1>2, PTL DEF Spec

-----------------------------------------------------------------------------
(* The handover to synthesis *)

(* The failures NoStrandedTicker does not survive: those that take a task   *)
(* out of the system unfinished or lose the trigger of a batch.             *)
LosingCalls == {"requeue", "checkCount", "checkTrigger", "getExtracted",
                "synthesizeFacts", "createPublished", "cleanup", "dequeue",
                "lostReply", "crash", "clear"}

Targeted(k) == k.type = "extract" => k.ticker = TickerOf[k.article]

(* An extraction carries the ticker its draft is filed under. *)
WellTargeted ==
    /\ \A i \in DOMAIN queue : Targeted(queue[i])
    /\ \A r \in Replicas :
          worker[r].pc \in BusyLabels => Targeted(TaskOf(r))

LEMMA EnqueueKeepsTasks ==
    ASSUME TypeOK, NEW k \in Task, Enqueue(k)
    PROVE  /\ \A i \in DOMAIN queue :
                 i \in DOMAIN queue' /\ queue'[i] = queue[i]
           /\ \E i \in DOMAIN queue' : queue'[i] = k
           /\ \A i \in DOMAIN queue' :
                 queue'[i] = k \/ \E n \in DOMAIN queue : queue'[i] = queue[n]
<1>1. /\ Len(queue) \in Nat
      /\ DOMAIN queue = 1..Len(queue)
      /\ Len(queue') = Len(queue) + 1
      /\ DOMAIN queue' = 1..(Len(queue) + 1)
      /\ \A i \in 1..Len(queue) : queue'[i] = queue[i]
      /\ queue'[Len(queue) + 1] = k
  BY AppendProperties, EnqueueType, LenProperties DEF TypeOK, Enqueue
<1>. QED BY <1>1

LEMMA TailKeepsTasks ==
    ASSUME TypeOK, queue # <<>>
    PROVE  /\ \A i \in DOMAIN queue :
                 \/ queue[i] = Head(queue)
                 \/ \E n \in DOMAIN Tail(queue) : Tail(queue)[n] = queue[i]
           /\ \A i \in DOMAIN Tail(queue) :
                 \E n \in DOMAIN queue : Tail(queue)[i] = queue[n]
           /\ \E i \in DOMAIN queue : queue[i] = Head(queue)
           /\ Head(queue) \in Task
<1>1. /\ Len(queue) \in Nat \ {0}
      /\ DOMAIN queue = 1..Len(queue)
      /\ Tail(queue) \in Seq(Task)
      /\ Len(Tail(queue)) = Len(queue) - 1
      /\ DOMAIN Tail(queue) = 1..(Len(queue) - 1)
      /\ \A i \in 1..(Len(queue) - 1) : Tail(queue)[i] = queue[i + 1]
      /\ Head(queue) = queue[1]
      /\ Head(queue) \in Task
  BY HeadTailProperties, LenProperties, EmptySeq DEF TypeOK
<1>2. ASSUME NEW i \in DOMAIN queue, queue[i] # Head(queue)
      PROVE  \E n \in DOMAIN Tail(queue) : Tail(queue)[n] = queue[i]
  <2>1. i - 1 \in DOMAIN Tail(queue) /\ Tail(queue)[i - 1] = queue[i]
    BY <1>1, <1>2
  <2>. QED BY <2>1
<1>. QED BY <1>1, <1>2

(* Only Dequeue puts a task into a worker's hands. *)
LEMMA HandsOnlyFromQueue ==
    ASSUME TypeOK, [Next]_vars, NEW s \in Replicas, ~Dequeue(s),
           worker'[s].pc \in BusyLabels
    PROVE  worker[s].pc \in BusyLabels /\ worker'[s].task = worker[s].task
<1>. USE DEF BusyLabels, ExtractLabels, SynthesizeLabels
<1>0. worker \in [Replicas -> Worker] BY DEF TypeOK
<1>1. ASSUME NEW r \in Replicas, HandleError(r), worker[r].pc \in ReturnedErrors
      PROVE  worker[s].pc \in BusyLabels /\ worker'[s].task = worker[s].task
  BY <1>0, <1>1 DEF HandleError, Goto, Await, Free, Worker, ReturnedErrors
<1>2. ASSUME NEW r \in Replicas, LoopStep(r)
      PROVE  worker[s].pc \in BusyLabels /\ worker'[s].task = worker[s].task
  <2>1. CASE r = s
    BY <1>0, <1>2, <2>1
       DEF LoopStep, DequeueLost, Requeue, MarkFailed, CountIncomplete,
           TriggerSynthesis, Goto, Await, Free, Worker
  <2>2. CASE r # s
    BY <1>0, <1>2, <2>2
       DEF LoopStep, Dequeue, DequeueLost, Requeue, MarkFailed,
           CountIncomplete, TriggerSynthesis, Goto, Await
  <2>. QED BY <2>1, <2>2
<1>3. ASSUME NEW r \in Replicas, ExtractStep(r)
      PROVE  worker[s].pc \in BusyLabels /\ worker'[s].task = worker[s].task
  BY <1>0, <1>1, <1>3
     DEF ExtractStep, GetDraftByID, ExtractFact, SaveFacts, Goto, Worker,
         ReturnedErrors
<1>4. ASSUME NEW r \in Replicas, SynthesizeStep(r)
      PROVE  worker[s].pc \in BusyLabels /\ worker'[s].task = worker[s].task
  BY <1>0, <1>4
     DEF SynthesizeStep, GetExtracted, SynthesizeFromFacts, CreatePublished,
         EmitPublished, Cleanup, Goto, Await, Free, Worker
<1>5. ASSUME NEW r \in Replicas,
             CallFails(r) \/ IgnoredCallFails(r) \/ LostReply(r)
      PROVE  worker[s].pc \in BusyLabels /\ worker'[s].task = worker[s].task
  BY <1>0, <1>1, <1>5
     DEF CallFails, IgnoredCallFails, LostReply, Goto, Await, Free, Worker,
         ReturnedErrors, IgnoredErrors
<1>6. ASSUME NEW r \in Replicas, JobStep(r)
      PROVE  worker' = worker
  BY <1>6
     DEF JobStep, StartRun, ListPending, EnqueueExtraction, MarkQueued,
         ListReady, RescueTicker, FinishRun, JobCallFails
<1>7. ASSUME NEW r \in Replicas, Crash(r)
      PROVE  worker[s].pc \in BusyLabels /\ worker'[s].task = worker[s].task
  BY <1>0, <1>7 DEF Crash, Await, Free
<1>8. ASSUME LockExpires \/ ClearQueue \/ (\E d \in Drafts : CreateDraft(d)) \/ UNCHANGED vars
      PROVE  worker' = worker
  BY <1>8 DEF LockExpires, ClearQueue, CreateDraft, vars
<1>. QED BY <1>2, <1>3, <1>4, <1>5, <1>6, <1>7, <1>8 DEF Next, WorkerStep

(* The queue is cleared or loses its head, or gains one task that knows its *)
(* ticker.                                                                  *)
LEMMA QueueSteps ==
    ASSUME TypeOK, [Next]_vars
    PROVE  \/ queue' = queue
           \/ /\ queue # <<>> /\ queue' = Tail(queue)
              /\ \E r \in Replicas : Dequeue(r) \/ DequeueLost(r)
           \/ ClearQueue
           \/ \E r \in Replicas :
                 worker[r].pc = "requeue" /\ Enqueue(Retried(TaskOf(r)))
           \/ \E t \in Tickers : Enqueue(Synthesis(t))
           \/ \E d \in Drafts : Enqueue(Extraction(d))
<1>1. ASSUME NEW r \in Replicas,
             worker[r].pc \in {"trigger", "checkTrigger"}
      PROVE  TaskOf(r).ticker \in Tickers
  BY <1>1 DEF TypeOK, Worker, ExtractLabels, ExtractTask, TaskOf
<1>2. ASSUME NEW r \in Replicas, WorkerStep(r)
      PROVE  \/ queue' = queue
             \/ /\ queue # <<>> /\ queue' = Tail(queue)
                /\ Dequeue(r) \/ DequeueLost(r)
             \/ worker[r].pc = "requeue" /\ Enqueue(Retried(TaskOf(r)))
             \/ \E t \in Tickers : Enqueue(Synthesis(t))
  BY <1>1, <1>2
     DEF WorkerStep, LoopStep, ExtractStep, SynthesizeStep, Dequeue,
         DequeueLost, Requeue, MarkFailed, CountIncomplete, TriggerSynthesis,
         GetDraftByID, ExtractFact, SaveFacts, GetExtracted,
         SynthesizeFromFacts, CreatePublished, EmitPublished, Cleanup,
         CallFails, IgnoredCallFails, LostReply, redis
<1>3. ASSUME NEW r \in Replicas, JobStep(r)
      PROVE  \/ queue' = queue
             \/ \E t \in Tickers : Enqueue(Synthesis(t))
             \/ \E d \in Drafts : Enqueue(Extraction(d))
  <2>1. job[r].ready \subseteq Tickers
    BY DEF TypeOK, Job
  <2>. QED
    BY <1>3, <2>1
       DEF JobStep, StartRun, ListPending, EnqueueExtraction, MarkQueued,
           ListReady, RescueTicker, FinishRun, JobCallFails, redis
<1>4. ASSUME \/ \E r \in Replicas : Crash(r)
             \/ LockExpires
             \/ \E d \in Drafts : CreateDraft(d)
             \/ UNCHANGED vars
      PROVE  queue' = queue
  BY <1>4 DEF Crash, LockExpires, CreateDraft, redis, vars
<1>. QED BY <1>2, <1>3, <1>4 DEF Next

LEMMA TargetedStep ==
    ASSUME TypeOK, WellTargeted, [Next]_vars
    PROVE  WellTargeted'
<1>1. \A i \in DOMAIN queue' : Targeted(queue'[i])
  <2>1. CASE queue' = queue
    BY <2>1 DEF WellTargeted
  <2>2. CASE queue # <<>> /\ queue' = Tail(queue)
    BY <2>2, TailKeepsTasks DEF WellTargeted
  <2>3. ASSUME NEW r \in Replicas, worker[r].pc = "requeue",
               Enqueue(Retried(TaskOf(r)))
        PROVE  \A i \in DOMAIN queue' : Targeted(queue'[i])
    <3>1. TaskOf(r) \in Task /\ TaskOf(r).retry < RetryLimit
      BY <2>3 DEF TypeOK, Worker, TaskOf
    <3>2. Retried(TaskOf(r)) \in Task
      BY <3>1, PipelineAssumption
         DEF Retried, Task, ExtractTask, SynthesizeTask
    <3>3. Targeted(Retried(TaskOf(r)))
      BY <2>3, <3>1
         DEF WellTargeted, BusyLabels, Retried, Targeted, Task, ExtractTask,
             SynthesizeTask
    <3>. QED BY <2>3, <3>2, <3>3, EnqueueKeepsTasks DEF WellTargeted
  <2>4. ASSUME NEW k \in Task, Targeted(k), Enqueue(k)
        PROVE  \A i \in DOMAIN queue' : Targeted(queue'[i])
    BY <2>4, EnqueueKeepsTasks DEF WellTargeted
  <2>5. /\ \A t \in Tickers : Targeted(Synthesis(t))
        /\ \A d \in Drafts : Targeted(Extraction(d))
    BY DEF Targeted, Synthesis, Extraction
  <2>6. CASE ClearQueue
    BY <2>6 DEF ClearQueue
  <2>. QED BY <2>1, <2>2, <2>3, <2>4, <2>5, <2>6, NewTasks, QueueSteps
<1>2. ASSUME NEW s \in Replicas, worker'[s].pc \in BusyLabels
      PROVE  Targeted(worker'[s].task)
  <2>1. CASE Dequeue(s)
    BY <2>1, TailKeepsTasks DEF Dequeue, TypeOK, WellTargeted, Worker
  <2>2. CASE ~Dequeue(s)
    BY <1>2, <2>2, HandsOnlyFromQueue DEF WellTargeted, TaskOf
  <2>. QED BY <2>1, <2>2
<1>. QED BY <1>1, <1>2 DEF WellTargeted, Targeted, TaskOf

LEMMA GotoKeepsTask ==
    ASSUME worker \in [Replicas -> Worker], NEW r \in Replicas, NEW label,
           Goto(r, label)
    PROVE  worker'[r].pc = label /\ worker'[r].task = worker[r].task
BY DEF Goto, Worker

LEMMA WorkerStepCases ==
    ASSUME NEW r, WorkerStep(r)
    PROVE  \/ Dequeue(r) \/ DequeueLost(r) \/ Requeue(r) \/ MarkFailed(r)
           \/ CountIncomplete(r) \/ TriggerSynthesis(r) \/ GetDraftByID(r)
           \/ ExtractFact(r) \/ SaveFacts(r) \/ GetExtracted(r)
           \/ SynthesizeFromFacts(r) \/ CreatePublished(r)
           \/ EmitPublished(r) \/ Cleanup(r) \/ CallFails(r)
           \/ IgnoredCallFails(r) \/ LostReply(r)
BY DEF WorkerStep, LoopStep, ExtractStep, SynthesizeStep

(* A worker lets go of a task only when the ticker needs no more of it, or  *)
(* by putting another one into the queue.                                   *)
LEMMA HandsStep ==
    ASSUME TypeOK, LosingCalls \cap FailingCalls = {}, NEW r \in Replicas,
           WorkerStep(r), worker[r].pc \in BusyLabels,
           NEW t \in Tickers, TaskOf(r).ticker = t
    PROVE  \/ worker'[r].pc \in BusyLabels /\ worker'[r].task = TaskOf(r)
           \/ \E k \in Task : k.ticker = t /\ Enqueue(k)
           \/ ~ReadyForSynthesis(t)'
<1>. USE DEF BusyLabels, ExtractLabels, SynthesizeLabels
<1>0. worker \in [Replicas -> Worker] /\ TaskOf(r) \in Task
  BY BusyHasTask DEF TypeOK, TaskOf
<1>1. ~Dequeue(r) /\ ~DequeueLost(r) /\ ~LostReply(r)
  BY DEF Dequeue, DequeueLost, LostReply, Fault, LosingCalls
<1>2. CASE Requeue(r)
  <2>1. TaskOf(r).retry < RetryLimit
    BY <1>0, <1>2 DEF Requeue, Worker, TaskOf
  <2>2. Retried(TaskOf(r)) \in Task /\ Retried(TaskOf(r)).ticker = t
    BY <1>0, <2>1, PipelineAssumption
       DEF Retried, Task, ExtractTask, SynthesizeTask
  <2>. QED BY <1>2, <2>2 DEF Requeue
<1>3. CASE TriggerSynthesis(r)
  <2>1. Synthesis(t).ticker = t
    BY DEF Synthesis
  <2>. QED BY <1>0, <1>3, <2>1, NewTasks DEF TriggerSynthesis
<1>4. CASE CountIncomplete(r)
  <2>1. CASE IncompleteOf(t) = {}
    BY <1>0, <1>4, <2>1, GotoKeepsTask DEF CountIncomplete, TaskOf
  <2>2. CASE IncompleteOf(t) # {}
    BY <1>4, <2>2
       DEF CountIncomplete, ReadyForSynthesis, IncompleteOf, tables
  <2>. QED BY <2>1, <2>2
<1>5. CASE GetExtracted(r)
  <2>1. CASE ExtractedOf(t) = {}
    BY <1>5, <2>1 DEF GetExtracted, ReadyForSynthesis, ExtractedOf, tables
  <2>2. CASE ExtractedOf(t) # {}
    BY <1>0, <1>5, <2>2
       DEF GetExtracted, ReadForSynthesis, TaskOf, Worker
  <2>. QED BY <2>1, <2>2
<1>6. CASE Cleanup(r)
  BY <1>0, <1>6
     DEF Cleanup, DeleteDraftsByTicker, ReadyForSynthesis, ExtractedOf, Stored,
         Statuses
<1>7. ASSUME HandleError(r), worker[r].pc \in ExtractLabels
      PROVE  worker'[r].pc \in BusyLabels /\ worker'[r].task = TaskOf(r)
  BY <1>0, <1>7
     DEF HandleError, Goto, TaskOf, Worker, ExtractTask
<1>8. CASE GetDraftByID(r)
  BY <1>0, <1>7, <1>8, GotoKeepsTask DEF GetDraftByID, TaskOf
<1>9. CASE CallFails(r)
  <2>1. worker[r].pc \in ExtractLabels
    BY <1>9 DEF CallFails, ReturnedErrors, Fault, LosingCalls
  <2>. QED BY <1>7, <1>9, <2>1 DEF CallFails
<1>10. CASE IgnoredCallFails(r)
  <2>1. worker[r].pc \in {"markFailed", "emit"}
    BY <1>10 DEF IgnoredCallFails, IgnoredErrors, Fault, LosingCalls
  <2>. QED BY <1>0, <1>10, <2>1, GotoKeepsTask DEF IgnoredCallFails, TaskOf
<1>11. CASE \/ MarkFailed(r) \/ ExtractFact(r) \/ SaveFacts(r)
            \/ SynthesizeFromFacts(r) \/ CreatePublished(r)
            \/ EmitPublished(r)
  BY <1>0, <1>11, GotoKeepsTask
     DEF MarkFailed, ExtractFact, SaveFacts, SynthesizeFromFacts,
         CreatePublished, EmitPublished, TaskOf
<1>. QED
  BY <1>1, <1>2, <1>3, <1>4, <1>5, <1>6, <1>8, <1>9, <1>10, <1>11,
     WorkerStepCases

(* No process touches the state of another one's worker. *)
LEMMA WorkerKept ==
    ASSUME TypeOK, [Next]_vars, NEW s \in Replicas,
           ~WorkerStep(s), ~Crash(s)
    PROVE  worker'[s] = worker[s]
<1>1. ASSUME NEW r \in Replicas, WorkerStep(r), r # s
      PROVE  worker'[s] = worker[s]
  BY ZenonT(40), <1>1, WorkerStepCases
     DEF TypeOK, Dequeue, DequeueLost, Requeue, MarkFailed, CountIncomplete,
         TriggerSynthesis, GetDraftByID, ExtractFact, SaveFacts, GetExtracted,
         SynthesizeFromFacts, CreatePublished, EmitPublished, Cleanup,
         CallFails, IgnoredCallFails, LostReply, HandleError, Goto, Await
<1>2. ASSUME NEW r \in Replicas, JobStep(r)
      PROVE  worker' = worker
  BY <1>2
     DEF JobStep, StartRun, ListPending, EnqueueExtraction, MarkQueued,
         ListReady, RescueTicker, FinishRun, JobCallFails
<1>3. ASSUME NEW r \in Replicas, Crash(r), r # s
      PROVE  worker'[s] = worker[s]
  BY <1>3 DEF TypeOK, Crash, Await
<1>4. ASSUME LockExpires \/ ClearQueue \/ (\E d \in Drafts : CreateDraft(d)) \/ UNCHANGED vars
      PROVE  worker' = worker
  BY <1>4 DEF LockExpires, ClearQueue, CreateDraft, vars
<1>. QED BY <1>1, <1>2, <1>3, <1>4 DEF Next

LEMMA AttendedStep ==
    ASSUME TypeOK, LosingCalls \cap FailingCalls = {},
           [Next]_vars, NEW t \in Tickers, Attended(t), ReadyForSynthesis(t)'
    PROVE  Attended(t)'
<1>. DEFINE QueuedTask == \E i \in DOMAIN queue : queue[i].ticker = t
<1>1. CASE \E r \in Replicas : Dequeue(r)
  <2>1. PICK r \in Replicas : Dequeue(r)
    BY <1>1
  <2>2. /\ worker'[r].pc \in BusyLabels /\ worker'[r].task = Head(queue)
        /\ \A s \in Replicas : worker[s].pc \in BusyLabels =>
                                   worker'[s] = worker[s]
    BY <2>1
       DEF Dequeue, TypeOK, Worker, BusyLabels, ExtractLabels, SynthesizeLabels
  <2>3. CASE QueuedTask
    BY <2>1, <2>2, <2>3, TailKeepsTasks DEF Dequeue, Attended, TaskOf
  <2>4. CASE ~QueuedTask
    BY <2>2, <2>4 DEF Attended, TaskOf
  <2>. QED BY <2>3, <2>4
<1>2. CASE ~\E r \in Replicas : Dequeue(r)
  <2>1. \A i \in DOMAIN queue : i \in DOMAIN queue' /\ queue'[i] = queue[i]
    <3>1. ~ClearQueue /\ ~\E r \in Replicas : DequeueLost(r)
      BY DEF ClearQueue, DequeueLost, Fault, LosingCalls
    <3>2. ASSUME NEW r \in Replicas, worker[r].pc = "requeue"
          PROVE  Retried(TaskOf(r)) \in Task
      <4>1. TaskOf(r) \in Task /\ TaskOf(r).retry < RetryLimit
        BY <3>2 DEF TypeOK, Worker, TaskOf
      <4>. QED BY <4>1, PipelineAssumption
               DEF Retried, Task, ExtractTask, SynthesizeTask
    <3>. QED BY <1>2, <3>1, <3>2, QueueSteps, EnqueueKeepsTasks, NewTasks
  <2>2. CASE QueuedTask
    BY <2>1, <2>2 DEF Attended
  <2>3. CASE ~QueuedTask
    <3>1. PICK s \in Replicas : worker[s].pc \in BusyLabels /\ TaskOf(s).ticker = t
      BY <2>3 DEF Attended
    <3>2. CASE WorkerStep(s)
      <4>1. CASE \E k \in Task : k.ticker = t /\ Enqueue(k)
        BY <4>1, EnqueueKeepsTasks DEF Attended
      <4>2. CASE worker'[s].pc \in BusyLabels /\ worker'[s].task = TaskOf(s)
        BY <3>1, <4>2 DEF Attended, TaskOf
      <4>. QED BY <3>1, <3>2, <4>1, <4>2, HandsStep
    <3>3. CASE ~WorkerStep(s)
      <4>1. worker'[s] = worker[s]
        BY <3>3, WorkerKept DEF Crash, Fault, LosingCalls
      <4>. QED BY <3>1, <4>1 DEF Attended, TaskOf
    <3>. QED BY <3>2, <3>3
  <2>. QED BY <2>2, <2>3
<1>. QED BY <1>1, <1>2

(* Only the worker that settles the last draft of a ticker makes it ready.  *)
LEMMA NewlyReady ==
    ASSUME TypeOK, WellTargeted, LosingCalls \cap FailingCalls = {},
           [Next]_vars, NEW t \in Tickers,
           ~ReadyForSynthesis(t), ReadyForSynthesis(t)'
    PROVE  Attended(t)'
<1>1. ASSUME NEW r \in Replicas, worker[r].pc \in {"saveFacts", "markFailed"},
             NEW label \in BusyLabels, Goto(r, label),
             NEW status, UpdateDraftAI(TaskOf(r).article, status)
      PROVE  Attended(t)'
  <2>1. TaskOf(r) \in ExtractTask
    BY <1>1 DEF TypeOK, Worker, ExtractLabels, TaskOf
  <2>2. TickerOf[TaskOf(r).article] = TaskOf(r).ticker
    BY <1>1, <2>1
       DEF WellTargeted, Targeted, BusyLabels, ExtractLabels, ExtractTask
  <2>3. TaskOf(r).ticker = t
    BY <1>1, <2>1, <2>2
       DEF ReadyForSynthesis, IncompleteOf, ExtractedOf, UpdateDraftAI,
           TypeOK, ExtractTask
  <2>. QED BY <1>1, <2>3, GotoKeepsTask DEF Attended, TaskOf, TypeOK
<1>2. ASSUME draft' = draft
      PROVE  FALSE
  BY <1>2 DEF ReadyForSynthesis, IncompleteOf, ExtractedOf
<1>3. ASSUME NEW r \in Replicas, Cleanup(r)
      PROVE  FALSE
  BY <1>3
     DEF Cleanup, DeleteDraftsByTicker, ReadyForSynthesis, IncompleteOf,
         ExtractedOf, Stored, Statuses, TypeOK
<1>4. ASSUME NEW r \in Replicas, MarkQueued(r)
      PROVE  FALSE
  <2>1. job[r].current \in Drafts
    BY <1>4 DEF TypeOK, Job, MarkQueued
  <2>. QED
    BY <1>4, <2>1
       DEF MarkQueued, UpdateDraftAI, ReadyForSynthesis, IncompleteOf,
           ExtractedOf, Stored, Statuses, TypeOK
<1>5. ASSUME NEW d \in Drafts, CreateDraft(d)
      PROVE  FALSE
  BY <1>5
     DEF CreateDraft, ReadyForSynthesis, IncompleteOf, ExtractedOf, TypeOK
<1>6. ASSUME NEW r \in Replicas, WorkerStep(r)
      PROVE  Attended(t)'
  <2>1. CASE SaveFacts(r)
    BY <1>1, <2>1 DEF SaveFacts, BusyLabels, ExtractLabels
  <2>2. CASE MarkFailed(r)
    BY <1>1, <2>2 DEF MarkFailed, BusyLabels, ExtractLabels
  <2>3. CASE ~SaveFacts(r) /\ ~MarkFailed(r) /\ ~Cleanup(r)
    <3>1. draft' = draft
      BY <1>6, <2>3, WorkerStepCases
         DEF Dequeue, DequeueLost, Requeue, CountIncomplete,
             TriggerSynthesis, GetDraftByID, ExtractFact, GetExtracted,
             SynthesizeFromFacts, CreatePublished, EmitPublished, CallFails,
             IgnoredCallFails, LostReply, Fault, LosingCalls, tables
    <3>. QED BY <1>2, <3>1
  <2>. QED BY <1>3, <2>1, <2>2, <2>3
<1>7. ASSUME \/ \E r \in Replicas : Crash(r)
             \/ \E r \in Replicas : JobStep(r) /\ ~MarkQueued(r)
             \/ LockExpires \/ ClearQueue
             \/ UNCHANGED vars
      PROVE  FALSE
  <2>1. draft' = draft
    BY <1>7
       DEF Crash, LockExpires, ClearQueue, JobStep, StartRun, ListPending,
           EnqueueExtraction, ListReady, RescueTicker, FinishRun,
           JobCallFails, tables, vars
  <2>. QED BY <1>2, <2>1
<1>. QED BY <1>4, <1>5, <1>6, <1>7 DEF Next

(***************************************************************************)
(* However many workers share the queue, a ticker whose drafts are settled *)
(* is always on its way to synthesis, as long as no process dies and no    *)
(* call fails that would take its task out of the system: extractions may  *)
(* fail, tasks may be duplicated, the producer may fail at every step, and *)
(* the runs of two full processes may overlap.                             *)
(***************************************************************************)
THEOREM Handover ==
    ASSUME LosingCalls \cap FailingCalls = {}
    PROVE  Spec => []NoStrandedTicker
<1>1. Init => WellTargeted /\ NoStrandedTicker
  BY DEF Init, WellTargeted, NoStrandedTicker, ReadyForSynthesis,
         ExtractedOf, Free, BusyLabels, ExtractLabels, SynthesizeLabels
<1>2. TypeOK /\ WellTargeted /\ NoStrandedTicker /\ [Next]_vars
         => WellTargeted' /\ NoStrandedTicker'
  <2>. SUFFICES ASSUME TypeOK, WellTargeted, NoStrandedTicker, [Next]_vars
                PROVE  WellTargeted' /\ NoStrandedTicker'
    OBVIOUS
  <2>1. ASSUME NEW t \in Tickers, ReadyForSynthesis(t)'
        PROVE  Attended(t)'
    BY <2>1, AttendedStep, NewlyReady DEF NoStrandedTicker
  <2>. QED BY <2>1, TargetedStep DEF NoStrandedTicker
<1>. QED BY <1>1, <1>2, TypeCorrect, PTL DEF Spec

-----------------------------------------------------------------------------
(* No article twice in the digests of one worker *)

(* The failures NoSelfDuplicate does not survive: the digest is stored and  *)
(* the worker goes on without having tried the cleanup, or without success. *)
RepeatingCalls == {"cleanup", "lostReply", "crash"}

(* What a worker has put in a digest is deleted before its next task.       *)
DigestsConsumed ==
    \A i \in DOMAIN digests : \A d \in digests[i].sources :
        LET r == digests[i].by IN
            \/ draft[d] = "deleted"
            \/ /\ worker[r].pc \in {"emit", "cleanup"}
               /\ Stored(d)
               /\ TickerOf[d] = TaskOf(r).ticker

(* What a worker has read for its next digest is in none of its digests.    *)
BatchFresh ==
    \A r \in Replicas :
        worker[r].pc \in {"synthesizeFacts", "createPublished"} =>
            \A d \in worker[r].batch :
                /\ draft[d] # "absent"
                /\ TickerOf[d] = TaskOf(r).ticker
                /\ \A i \in DOMAIN digests :
                      digests[i].by = r => d \notin digests[i].sources


(* Rows are neither forgotten nor brought back. *)
LEMMA RowSteps ==
    ASSUME TypeOK, [Next]_vars, NEW d \in Drafts
    PROVE  /\ draft[d] = "deleted" => draft'[d] = "deleted"
           /\ Stored(d) => Stored(d)' \/ draft'[d] = "deleted"
<1>1. ASSUME NEW e \in Drafts, NEW status \in Statuses, UpdateDraftAI(e, status)
      PROVE  /\ draft[d] = "deleted" => draft'[d] = "deleted"
             /\ Stored(d) => Stored(d)'
  BY <1>1 DEF UpdateDraftAI, Stored, Statuses, TypeOK
<1>2. ASSUME NEW r \in Replicas,
             MarkFailed(r) \/ SaveFacts(r) \/ LostReply(r) \/ MarkQueued(r)
      PROVE  /\ draft[d] = "deleted" => draft'[d] = "deleted"
             /\ Stored(d) => Stored(d)'
  <2>1. worker[r].pc \in ExtractLabels => TaskOf(r).article \in Drafts
    BY DEF TypeOK, Worker, ExtractTask, TaskOf
  <2>2. job[r].pc = "mark" => job[r].current \in Drafts
    BY DEF TypeOK, Job
  <2>. QED
    BY <1>1, <1>2, <2>1, <2>2
       DEF MarkFailed, SaveFacts, LostReply, MarkQueued, ExtractLabels,
           Statuses, Stored
<1>3. ASSUME NEW r \in Replicas, Cleanup(r)
      PROVE  /\ draft[d] = "deleted" => draft'[d] = "deleted"
             /\ Stored(d) => Stored(d)' \/ draft'[d] = "deleted"
  BY <1>3 DEF Cleanup, DeleteDraftsByTicker, Stored, Statuses, TypeOK
<1>4. ASSUME NEW e \in Drafts, CreateDraft(e)
      PROVE  /\ draft[d] = "deleted" => draft'[d] = "deleted"
             /\ Stored(d) => Stored(d)'
  BY <1>4 DEF CreateDraft, Stored, Statuses, TypeOK
<1>5. ASSUME NEW r \in Replicas, WorkerStep(r), ~MarkFailed(r), ~SaveFacts(r),
             ~LostReply(r), ~Cleanup(r)
      PROVE  draft' = draft
  BY <1>5, WorkerStepCases
     DEF Dequeue, DequeueLost, Requeue, CountIncomplete, TriggerSynthesis,
         GetDraftByID, ExtractFact, GetExtracted, SynthesizeFromFacts,
         CreatePublished, EmitPublished, CallFails, IgnoredCallFails, tables
<1>6. ASSUME NEW r \in Replicas, JobStep(r), ~MarkQueued(r)
      PROVE  draft' = draft
  BY <1>6
     DEF JobStep, StartRun, ListPending, EnqueueExtraction, ListReady,
         RescueTicker, FinishRun, JobCallFails, tables
<1>7. ASSUME \/ \E r \in Replicas : Crash(r)
             \/ LockExpires \/ ClearQueue
             \/ UNCHANGED vars
      PROVE  draft' = draft
  BY <1>7 DEF Crash, LockExpires, ClearQueue, tables, vars
<1>. QED BY <1>2, <1>3, <1>4, <1>5, <1>6, <1>7 DEF Next, Stored

LEMMA DigestSteps ==
    ASSUME TypeOK, [Next]_vars
    PROVE  \/ digests' = digests
           \/ \E r \in Replicas :
                 /\ worker[r].pc = "createPublished"
                 /\ CreatePublished(r) \/ LostReply(r)
                 /\ digests' = Append(digests, DigestOf(r))
<1>1. ASSUME NEW r \in Replicas, WorkerStep(r)
      PROVE  \/ digests' = digests
             \/ /\ worker[r].pc = "createPublished"
                /\ CreatePublished(r) \/ LostReply(r)
                /\ digests' = Append(digests, DigestOf(r))
  BY <1>1, WorkerStepCases
     DEF Dequeue, DequeueLost, Requeue, MarkFailed, CountIncomplete,
         TriggerSynthesis, GetDraftByID, ExtractFact, SaveFacts, GetExtracted,
         SynthesizeFromFacts, CreatePublished, EmitPublished, Cleanup,
         CallFails, IgnoredCallFails, LostReply, tables
<1>2. ASSUME \/ \E r \in Replicas : JobStep(r) \/ Crash(r)
             \/ LockExpires \/ ClearQueue
             \/ \E d \in Drafts : CreateDraft(d)
             \/ UNCHANGED vars
      PROVE  digests' = digests
  BY <1>2
     DEF JobStep, StartRun, ListPending, EnqueueExtraction, MarkQueued,
         ListReady, RescueTicker, FinishRun, JobCallFails, Crash,
         LockExpires, ClearQueue, CreateDraft, tables, vars
<1>. QED BY <1>1, <1>2 DEF Next

LEMMA NewDigest ==
    ASSUME TypeOK, NEW r \in Replicas, worker[r].pc = "createPublished",
           digests' = Append(digests, DigestOf(r))
    PROVE  /\ DigestOf(r) \in Digest
           /\ Len(digests) + 1 \in DOMAIN digests'
           /\ digests'[Len(digests) + 1] = DigestOf(r)
           /\ \A i \in DOMAIN digests' :
                 \/ i = Len(digests) + 1
                 \/ i \in DOMAIN digests /\ digests'[i] = digests[i]
           /\ \A i \in DOMAIN digests :
                 i \in DOMAIN digests' /\ digests'[i] = digests[i]
<1>1. DigestOf(r) \in Digest
  BY DEF TypeOK, DigestOf, Digest, TaskOf, SynthesizeTask, SynthesizeLabels,
         Worker
<1>2. /\ digests \in Seq(Digest)
      /\ Len(digests) \in Nat
      /\ DOMAIN digests = 1..Len(digests)
      /\ DOMAIN digests' = 1..(Len(digests) + 1)
  BY <1>1, LenProperties, AppendProperties DEF TypeOK
<1>. QED BY <1>1, <1>2, AppendProperties

LEMMA ConsumedStep ==
    ASSUME TypeOK, RepeatingCalls \cap FailingCalls = {}, [Next]_vars,
           DigestsConsumed, BatchFresh
    PROVE  DigestsConsumed'
<1>. DEFINE Consumed(s, d) ==
               \/ draft[d] = "deleted"
               \/ /\ worker[s].pc \in {"emit", "cleanup"}
                  /\ Stored(d)
                  /\ TickerOf[d] = TaskOf(s).ticker
<1>0. worker \in [Replicas -> Worker]
  BY DEF TypeOK
<1>1. ASSUME NEW s \in Replicas, NEW d \in Drafts, Consumed(s, d)
      PROVE  Consumed(s, d)'
  <2>1. CASE draft[d] = "deleted"
    BY <2>1, RowSteps
  <2>3. CASE /\ worker[s].pc \in {"emit", "cleanup"}
             /\ Stored(d)
             /\ TickerOf[d] = TaskOf(s).ticker
    <3>1. Stored(d)' \/ draft'[d] = "deleted"
      BY <2>3, RowSteps
    <3>2. CASE Cleanup(s)
      BY <2>3, <3>2 DEF Cleanup, DeleteDraftsByTicker
    <3>4. CASE EmitPublished(s) \/ IgnoredCallFails(s)
      <4>1. Goto(s, "cleanup")
        BY <2>3, <3>4
           DEF EmitPublished, IgnoredCallFails, Fault, RepeatingCalls
      <4>2. worker'[s].pc = "cleanup" /\ worker'[s].task = worker[s].task
        BY <1>0, <4>1, GotoKeepsTask
      <4>. QED BY <2>3, <3>1, <4>2 DEF TaskOf
    <3>5. CASE ~Cleanup(s) /\ ~EmitPublished(s)
               /\ ~IgnoredCallFails(s)
      <4>1. worker'[s] = worker[s]
        BY <2>3, <3>5, WorkerKept, WorkerStepCases
           DEF Dequeue, DequeueLost, Requeue, MarkFailed, CountIncomplete,
               TriggerSynthesis, GetDraftByID, ExtractFact, SaveFacts,
               GetExtracted, SynthesizeFromFacts, CreatePublished, CallFails,
               LostReply, Crash, Fault, RepeatingCalls, ReturnedErrors
      <4>. QED BY <2>3, <3>1, <4>1 DEF TaskOf
    <3>. QED BY <3>2, <3>4, <3>5
  <2>. QED BY <1>1, <2>1, <2>3
<1>2. \A i \in DOMAIN digests : /\ digests[i].by \in Replicas
                                /\ digests[i].sources \subseteq Drafts
  <2>1. \A i \in DOMAIN digests : digests[i] \in Digest
    BY DEF TypeOK
  <2>. QED BY <2>1 DEF Digest
<1>3. ASSUME NEW i \in DOMAIN digests, NEW d \in digests[i].sources
      PROVE  Consumed(digests[i].by, d)
  BY <1>3 DEF DigestsConsumed
<1>4. \A i \in DOMAIN digests : \A d \in digests[i].sources :
         \A s \in Replicas : s = digests[i].by => Consumed(s, d)'
  <2>. SUFFICES ASSUME NEW i \in DOMAIN digests, NEW d \in digests[i].sources,
                       NEW s \in Replicas, s = digests[i].by
                PROVE  Consumed(s, d)'
    OBVIOUS
  <2>1. d \in Drafts
    BY <1>2
  <2>2. Consumed(s, d)
    BY <1>3
  <2>. QED BY <1>1, <2>1, <2>2
<1>5. CASE digests' = digests
  BY <1>2, <1>4, <1>5 DEF DigestsConsumed
<1>6. ASSUME NEW r \in Replicas, worker[r].pc = "createPublished",
             CreatePublished(r),
             digests' = Append(digests, DigestOf(r))
      PROVE  DigestsConsumed'
  <2>1. /\ worker'[r].pc = "emit" /\ worker'[r].task = worker[r].task
        /\ draft' = draft
    BY <1>0, <1>6, GotoKeepsTask DEF CreatePublished
  <2>2. \A d \in worker[r].batch :
           /\ d \in Drafts
           /\ draft[d] # "absent"
           /\ TickerOf[d] = TaskOf(r).ticker
    BY <1>0, <1>6 DEF BatchFresh, Worker
  <2>3. \A d \in worker[r].batch : Consumed(r, d)'
    BY <2>1, <2>2 DEF TypeOK, Stored, TaskOf
  <2>4. ASSUME NEW i \in DOMAIN digests', NEW d \in digests'[i].sources,
               NEW s \in Replicas, s = digests'[i].by
        PROVE  Consumed(s, d)'
    <3>1. CASE i = Len(digests) + 1
      BY <1>6, <2>3, <2>4, <3>1, NewDigest DEF DigestOf
    <3>2. CASE i \in DOMAIN digests /\ digests'[i] = digests[i]
      BY <1>4, <2>4, <3>2
    <3>. QED BY <1>6, <3>1, <3>2, NewDigest
  <2>5. \A i \in DOMAIN digests' : digests'[i].by \in Replicas
    BY <1>2, <1>6, NewDigest DEF DigestOf
  <2>. QED BY <2>4, <2>5 DEF DigestsConsumed
<1>. QED
  BY <1>5, <1>6, DigestSteps DEF LostReply, Fault, RepeatingCalls

(* Between the read and the cleanup of its batch a worker only moves on.    *)
LEMMA SynthesisMoves ==
    ASSUME TypeOK, [Next]_vars, NEW s \in Replicas, ~GetExtracted(s),
           worker'[s].pc \in SynthesizeLabels \ {"getExtracted"}
    PROVE  /\ worker[s].pc \in SynthesizeLabels \ {"getExtracted"}
           /\ worker'[s].task = worker[s].task
           /\ worker'[s].batch = worker[s].batch
           /\ \/ worker'[s].pc = worker[s].pc /\ ~CreatePublished(s)
              \/ worker'[s].pc = "createPublished" /\ SynthesizeFromFacts(s)
              \/ worker'[s].pc = "emit" /\ CreatePublished(s)
              \/ /\ worker[s].pc = "emit" /\ worker'[s].pc = "cleanup"
                 /\ ~CreatePublished(s)
<1>0. worker \in [Replicas -> Worker]
  BY DEF TypeOK
<1>1. CASE \/ SynthesizeFromFacts(s) \/ CreatePublished(s)
           \/ EmitPublished(s) \/ IgnoredCallFails(s)
  <2>1. ~Await(s) /\ ~Goto(s, "checkCount")
    BY <1>0, GotoKeepsTask DEF Await, Free, SynthesizeLabels
  <2>. QED
    BY <1>0, <1>1, <2>1
       DEF SynthesizeFromFacts, CreatePublished, EmitPublished,
           IgnoredCallFails, Goto, SynthesizeLabels, Worker
<1>2. CASE /\ WorkerStep(s) /\ ~SynthesizeFromFacts(s)
           /\ ~CreatePublished(s) /\ ~EmitPublished(s)
           /\ ~IgnoredCallFails(s)
  <2>1. ~HandleError(s)
    BY <1>0
       DEF HandleError, Goto, Await, Free, Worker, SynthesizeLabels
  <2>2. ~Await(s)
    BY <1>0 DEF Await, Free, SynthesizeLabels
  <2>3. \A label \in ExtractLabels : ~Goto(s, label)
    BY <1>0, GotoKeepsTask DEF ExtractLabels, SynthesizeLabels
  <2>4. ~Dequeue(s)
    BY <1>0 DEF Dequeue, Worker, SynthesizeLabels
  <2>5. DequeueLost(s)
    BY <1>2, <2>1, <2>2, <2>3, <2>4, WorkerStepCases
       DEF Requeue, MarkFailed, CountIncomplete, TriggerSynthesis,
           GetDraftByID, ExtractFact, SaveFacts, Cleanup, CallFails,
           LostReply, ExtractLabels
  <2>. QED BY <2>5 DEF DequeueLost, SynthesizeLabels
<1>3. CASE ~WorkerStep(s)
  <2>1. ~Crash(s)
    BY <1>0 DEF Crash, Await, Free, SynthesizeLabels
  <2>2. ~CreatePublished(s)
    BY <1>3 DEF WorkerStep, SynthesizeStep
  <2>. QED BY <1>3, <2>1, <2>2, WorkerKept
<1>. QED BY <1>1, <1>2, <1>3

LEMMA FreshStep ==
    ASSUME TypeOK, RepeatingCalls \cap FailingCalls = {}, [Next]_vars,
           DigestsConsumed, BatchFresh
    PROVE  BatchFresh'
<1>0. worker \in [Replicas -> Worker]
  BY DEF TypeOK
<1>. SUFFICES ASSUME NEW s \in Replicas,
                     worker'[s].pc \in {"synthesizeFacts", "createPublished"},
                     NEW d \in worker'[s].batch
              PROVE  /\ draft'[d] # "absent"
                     /\ TickerOf[d] = worker'[s].task.ticker
                     /\ \A i \in DOMAIN digests' :
                           digests'[i].by = s => d \notin digests'[i].sources
  BY DEF BatchFresh, TaskOf
<1>1. CASE GetExtracted(s)
  <2>1. /\ worker'[s].task = worker[s].task
        /\ worker'[s].batch = ExtractedOf(TaskOf(s).ticker)
        /\ draft' = draft /\ digests' = digests
    BY <1>0, <1>1
       DEF GetExtracted, ReadForSynthesis, Await, Free, Worker, tables
  <2>2. /\ d \in Drafts /\ draft[d] = "extracted"
        /\ TickerOf[d] = TaskOf(s).ticker
    BY <2>1 DEF ExtractedOf
  <2>3. worker[s].pc = "getExtracted"
    BY <1>1 DEF GetExtracted
  <2>4. \A i \in DOMAIN digests :
           digests[i].by = s => d \notin digests[i].sources
    BY <2>2, <2>3 DEF DigestsConsumed
  <2>. QED BY <2>1, <2>2, <2>4 DEF TaskOf
<1>2. CASE ~GetExtracted(s)
  <2>1. /\ worker[s].pc \in {"synthesizeFacts", "createPublished"}
        /\ worker'[s].task = worker[s].task
        /\ worker'[s].batch = worker[s].batch
        /\ ~CreatePublished(s)
    BY <1>2, SynthesisMoves
       DEF SynthesizeLabels, CreatePublished, SynthesizeFromFacts
  <2>2. /\ d \in Drafts
        /\ draft[d] # "absent"
        /\ TickerOf[d] = worker[s].task.ticker
        /\ \A i \in DOMAIN digests :
              digests[i].by = s => d \notin digests[i].sources
    BY <1>0, <2>1 DEF BatchFresh, TaskOf, Worker
  <2>3. draft'[d] # "absent"
    BY <2>2, RowSteps DEF TypeOK, Stored, Statuses
  <2>4. CASE digests' = digests
    BY <2>1, <2>2, <2>3, <2>4
  <2>5. ASSUME NEW r \in Replicas, worker[r].pc = "createPublished",
               CreatePublished(r), digests' = Append(digests, DigestOf(r)),
               NEW i \in DOMAIN digests', digests'[i].by = s
        PROVE  d \notin digests'[i].sources
    <3>1. r # s
      BY <2>1, <2>5
    <3>2. i # Len(digests) + 1
      BY <2>5, <3>1, NewDigest DEF DigestOf
    <3>. QED BY <2>2, <2>5, <3>2, NewDigest
  <2>. QED
    BY <2>1, <2>2, <2>3, <2>4, <2>5, DigestSteps
       DEF LostReply, Fault, RepeatingCalls
<1>. QED BY <1>1, <1>2

(***************************************************************************)
(* However many workers share the queue, and however often the synthesis   *)
(* of a ticker is triggered, rescued or retried, no worker stores a second *)
(* digest of an article, as long as no process dies, no cleanup fails and  *)
(* no reply of an INSERT is lost.                                          *)
(***************************************************************************)
THEOREM NoRepeatByOneWorker ==
    ASSUME RepeatingCalls \cap FailingCalls = {}
    PROVE  Spec => []NoSelfDuplicate
<1>1. Init => DigestsConsumed /\ BatchFresh /\ NoSelfDuplicate
  BY DEF Init, DigestsConsumed, BatchFresh, NoSelfDuplicate, Free
<1>2. ASSUME TypeOK, DigestsConsumed, BatchFresh, NoSelfDuplicate, [Next]_vars
      PROVE  NoSelfDuplicate'
  <2>1. CASE digests' = digests
    BY <1>2, <2>1 DEF NoSelfDuplicate
  <2>2. ASSUME NEW r \in Replicas, worker[r].pc = "createPublished",
               digests' = Append(digests, DigestOf(r))
        PROVE  NoSelfDuplicate'
    <3>1. \A i \in DOMAIN digests :
             digests[i].by = r => digests[i].sources \cap worker[r].batch = {}
      BY <1>2, <2>2 DEF BatchFresh
    <3>. QED BY <1>2, <2>2, <3>1, NewDigest DEF NoSelfDuplicate, DigestOf
  <2>. QED BY <1>2, <2>1, <2>2, DigestSteps
<1>3. TypeOK /\ DigestsConsumed /\ BatchFresh /\ NoSelfDuplicate
         /\ [Next]_vars
         => DigestsConsumed' /\ BatchFresh' /\ NoSelfDuplicate'
  BY <1>2, ConsumedStep, FreshStep
<1>. QED BY <1>1, <1>3, TypeCorrect, PTL DEF Spec

-----------------------------------------------------------------------------
(* No silent digest *)

(* The failures AlertBeforeCleanup does not survive: the digest is stored   *)
(* and its event is not sent.                                               *)
SilencingCalls == {"emit", "lostReply", "crash"}

DigestsAnnounced ==
    \A i \in DOMAIN digests :
        \/ digests[i].sources \subseteq Announced
        \/ \E r \in Replicas :
              worker[r].pc = "emit" /\ worker[r].batch = digests[i].sources

LEMMA EventsSteps ==
    ASSUME TypeOK, [Next]_vars
    PROVE  \/ events' = events
           \/ \E r \in Replicas : EmitPublished(r)
<1>1. ASSUME NEW r \in Replicas, WorkerStep(r), ~EmitPublished(r)
      PROVE  events' = events
  BY <1>1, WorkerStepCases
     DEF Dequeue, DequeueLost, Requeue, MarkFailed, CountIncomplete,
         TriggerSynthesis, GetDraftByID, ExtractFact, SaveFacts, GetExtracted,
         SynthesizeFromFacts, CreatePublished, Cleanup, CallFails,
         IgnoredCallFails, LostReply, tables
<1>2. ASSUME \/ \E r \in Replicas : JobStep(r) \/ Crash(r)
             \/ LockExpires \/ ClearQueue
             \/ \E d \in Drafts : CreateDraft(d)
             \/ UNCHANGED vars
      PROVE  events' = events
  BY <1>2
     DEF JobStep, StartRun, ListPending, EnqueueExtraction, MarkQueued,
         ListReady, RescueTicker, FinishRun, JobCallFails, Crash,
         LockExpires, ClearQueue, CreateDraft, tables, vars
<1>. QED BY <1>1, <1>2 DEF Next

LEMMA NewEvent ==
    ASSUME TypeOK, NEW r \in Replicas, EmitPublished(r)
    PROVE  Announced' = Announced \cup worker[r].batch
<1>1. DigestOf(r) \in Digest
  BY DEF TypeOK, DigestOf, Digest, TaskOf, SynthesizeTask, SynthesizeLabels,
         Worker, EmitPublished
<1>2. /\ events \in Seq(Digest)
      /\ Len(events) \in Nat
      /\ DOMAIN events = 1..Len(events)
      /\ DOMAIN events' = 1..(Len(events) + 1)
      /\ \A i \in 1..Len(events) : events'[i] = events[i]
      /\ events'[Len(events) + 1] = DigestOf(r)
  BY <1>1, LenProperties, AppendProperties DEF TypeOK, EmitPublished
<1>3. DigestOf(r).sources = worker[r].batch
  BY DEF DigestOf
<1>4. ASSUME NEW d
      PROVE  d \in Announced' <=> d \in Announced \/ d \in worker[r].batch
  <2>1. d \in Announced' <=> \E i \in DOMAIN events' : d \in events'[i].sources
    BY DEF Announced
  <2>2. d \in Announced <=> \E i \in DOMAIN events : d \in events[i].sources
    BY DEF Announced
  <2>. QED BY <1>2, <1>3, <2>1, <2>2
<1>. QED BY <1>4

LEMMA AnnouncedStep ==
    ASSUME TypeOK, SilencingCalls \cap FailingCalls = {}, [Next]_vars,
           DigestsAnnounced
    PROVE  DigestsAnnounced'
<1>0. worker \in [Replicas -> Worker]
  BY DEF TypeOK
<1>1. Announced \subseteq Announced'
  <2>1. CASE events' = events
    BY <2>1 DEF Announced
  <2>. QED BY <2>1, NewEvent, EventsSteps
<1>2. ASSUME NEW r \in Replicas, worker[r].pc = "emit"
      PROVE  \/ worker[r].batch \subseteq Announced'
             \/ worker'[r] = worker[r]
  <2>1. CASE EmitPublished(r)
    BY <2>1, NewEvent
  <2>2. CASE WorkerStep(r) /\ ~EmitPublished(r)
    BY <1>2, <2>2, WorkerStepCases
       DEF Dequeue, DequeueLost, Requeue, MarkFailed, CountIncomplete,
           TriggerSynthesis, GetDraftByID, ExtractFact, SaveFacts,
           GetExtracted, SynthesizeFromFacts, CreatePublished, Cleanup,
           CallFails, IgnoredCallFails, LostReply, Fault, SilencingCalls,
           ReturnedErrors
  <2>3. CASE ~WorkerStep(r)
    BY <2>3, WorkerKept DEF Crash, Fault, SilencingCalls
  <2>. QED BY <2>1, <2>2, <2>3
<1>3. ASSUME NEW i \in DOMAIN digests, i \in DOMAIN digests',
             digests'[i] = digests[i]
      PROVE  \/ digests'[i].sources \subseteq Announced'
             \/ \E r \in Replicas :
                   worker'[r].pc = "emit" /\ worker'[r].batch = digests'[i].sources
  BY <1>1, <1>2, <1>3 DEF DigestsAnnounced
<1>4. CASE digests' = digests
  BY <1>3, <1>4 DEF DigestsAnnounced
<1>5. ASSUME NEW r \in Replicas, worker[r].pc = "createPublished",
             CreatePublished(r), digests' = Append(digests, DigestOf(r))
      PROVE  DigestsAnnounced'
  <2>1. worker'[r].pc = "emit" /\ worker'[r].batch = DigestOf(r).sources
    BY <1>0, <1>5 DEF CreatePublished, Goto, DigestOf, Worker
  <2>. QED BY <1>3, <1>5, <2>1, NewDigest DEF DigestsAnnounced
<1>. QED
  BY <1>4, <1>5, DigestSteps DEF LostReply, Fault, SilencingCalls

(***************************************************************************)
(* However many workers share the queue and delete each other's drafts, no *)
(* draft that went into a digest disappears before the alert of a digest   *)
(* with it is sent or just about to be, as long as no process dies and no  *)
(* call on the way to the event fails.                                     *)
(***************************************************************************)
THEOREM NoSilentCleanup ==
    ASSUME SilencingCalls \cap FailingCalls = {}
    PROVE  Spec => []AlertBeforeCleanup
<1>1. Init => DigestsAnnounced
  BY DEF Init, DigestsAnnounced
<1>2. TypeOK /\ DigestsAnnounced /\ [Next]_vars => DigestsAnnounced'
  BY AnnouncedStep
<1>3. DigestsAnnounced => AlertBeforeCleanup
  BY DEF DigestsAnnounced, AlertBeforeCleanup, Digested
<1>. QED BY <1>1, <1>2, <1>3, TypeCorrect, PTL DEF Spec

-----------------------------------------------------------------------------
(* One worker process *)

LEMMA DeletedOnlyByCleanup ==
    ASSUME TypeOK, [Next]_vars, NEW d \in Drafts,
           draft[d] # "deleted", draft'[d] = "deleted"
    PROVE  \E r \in Replicas : Cleanup(r) /\ TickerOf[d] = TaskOf(r).ticker
<1>1. ASSUME NEW r \in Replicas, Cleanup(r)
      PROVE  TickerOf[d] = TaskOf(r).ticker
  BY <1>1 DEF Cleanup, DeleteDraftsByTicker
<1>2. draft' # draft
  OBVIOUS
<1>3. ASSUME NEW r \in Replicas, WorkerStep(r), ~Cleanup(r)
      PROVE  FALSE
  BY <1>2, <1>3, WorkerStepCases
     DEF Dequeue, DequeueLost, Requeue, MarkFailed, CountIncomplete,
         TriggerSynthesis, GetDraftByID, ExtractFact, SaveFacts,
         GetExtracted, SynthesizeFromFacts, CreatePublished,
         EmitPublished, CallFails, IgnoredCallFails, LostReply,
         UpdateDraftAI, tables, TypeOK
<1>4. ASSUME NEW r \in Replicas, JobStep(r) \/ Crash(r)
      PROVE  FALSE
  BY <1>2, <1>4
     DEF JobStep, StartRun, ListPending, EnqueueExtraction, MarkQueued,
         ListReady, RescueTicker, FinishRun, JobCallFails, Crash,
         UpdateDraftAI, tables, TypeOK
<1>5. ASSUME \/ LockExpires \/ ClearQueue
             \/ \E e \in Drafts : CreateDraft(e)
             \/ UNCHANGED vars
      PROVE  FALSE
  BY <1>2, <1>5 DEF LockExpires, ClearQueue, CreateDraft, tables, vars, TypeOK
<1>. QED BY <1>1, <1>3, <1>4, <1>5 DEF Next

(* A single worker has read, and then stored, all that is extracted.        *)
BatchComplete ==
    \A r \in Replicas :
        /\ worker[r].pc \in SynthesizeLabels \ {"getExtracted"} =>
              ExtractedOf(TaskOf(r).ticker) \subseteq worker[r].batch
        /\ worker[r].pc \in {"emit", "cleanup"} =>
              worker[r].batch \subseteq Digested

LEMMA ExtractedOnlyBySave ==
    ASSUME TypeOK, [Next]_vars, NEW d \in Drafts,
           draft[d] # "extracted", draft'[d] = "extracted"
    PROVE  \E r \in Replicas : worker[r].pc = "saveFacts" /\ WorkerStep(r)
<1>1. draft' # draft
  OBVIOUS
<1>2. ASSUME NEW r \in Replicas, WorkerStep(r), worker[r].pc # "saveFacts"
      PROVE  FALSE
  <2>. USE DEF TypeOK
  <2>1. CASE MarkFailed(r)
    BY <2>1 DEF MarkFailed, UpdateDraftAI
  <2>2. CASE Cleanup(r)
    BY <2>2 DEF Cleanup, DeleteDraftsByTicker
  <2>3. ~SaveFacts(r)
    BY <1>2 DEF SaveFacts
  <2>4. CASE LostReply(r)
    BY <1>1, <1>2, <2>4 DEF LostReply
  <2>5. CASE LoopStep(r) /\ ~MarkFailed(r)
    BY <1>1, <2>5
       DEF LoopStep, Dequeue, DequeueLost, Requeue, CountIncomplete,
           TriggerSynthesis, tables
  <2>6. CASE CallFails(r)
    BY <1>1, <2>6 DEF CallFails, tables
  <2>7. CASE IgnoredCallFails(r)
    BY <1>1, <2>7 DEF IgnoredCallFails, tables
  <2>8. CASE GetDraftByID(r) \/ ExtractFact(r)
    BY <1>1, <2>8 DEF GetDraftByID, ExtractFact, tables
  <2>9. CASE GetExtracted(r) \/ SynthesizeFromFacts(r)
    BY <1>1, <2>9 DEF GetExtracted, SynthesizeFromFacts, tables
  <2>10. CASE CreatePublished(r) \/ EmitPublished(r)
    BY <1>1, <2>10 DEF CreatePublished, EmitPublished
  <2>. QED BY <1>2, <2>1, <2>2, <2>3, <2>4, <2>5, <2>6, <2>7, <2>8, <2>9, <2>10
           DEF WorkerStep, ExtractStep, SynthesizeStep
<1>3. ASSUME NEW r \in Replicas, JobStep(r) \/ Crash(r)
      PROVE  FALSE
  BY <1>1, <1>3
     DEF JobStep, StartRun, ListPending, EnqueueExtraction, MarkQueued,
         ListReady, RescueTicker, FinishRun, JobCallFails, Crash,
         UpdateDraftAI, tables, TypeOK
<1>4. ASSUME LockExpires \/ ClearQueue \/ (\E e \in Drafts : CreateDraft(e)) \/ UNCHANGED vars
      PROVE  FALSE
  BY <1>1, <1>4 DEF LockExpires, ClearQueue, CreateDraft, tables, vars, TypeOK
<1>. QED BY <1>2, <1>3, <1>4 DEF Next

LEMMA DigestedGrows ==
    ASSUME TypeOK, [Next]_vars
    PROVE  Digested \subseteq Digested'
<1>1. \A i \in DOMAIN digests : i \in DOMAIN digests' /\ digests'[i] = digests[i]
  BY DigestSteps, NewDigest
<1>. QED BY <1>1 DEF Digested

LEMMA CompleteStep ==
    ASSUME TypeOK, \A r, s \in Replicas : r = s, [Next]_vars, BatchComplete
    PROVE  BatchComplete'
<1>0. worker \in [Replicas -> Worker]
  BY DEF TypeOK
<1>. SUFFICES ASSUME NEW s \in Replicas,
                     worker'[s].pc \in SynthesizeLabels \ {"getExtracted"}
              PROVE  /\ \A d \in Drafts :
                           /\ draft'[d] = "extracted"
                           /\ TickerOf[d] = worker'[s].task.ticker
                           => d \in worker'[s].batch
                     /\ worker'[s].pc \in {"emit", "cleanup"} =>
                           worker'[s].batch \subseteq Digested'
  BY DEF BatchComplete, TaskOf, SynthesizeLabels, ExtractedOf
<1>1. CASE GetExtracted(s)
  <2>1. /\ worker'[s].task = worker[s].task
        /\ worker'[s].batch = ExtractedOf(worker[s].task.ticker)
        /\ worker'[s].pc = "synthesizeFacts"
        /\ draft' = draft
    BY <1>0, <1>1
       DEF GetExtracted, ReadForSynthesis, Await, Free, Worker, tables,
           SynthesizeLabels, TaskOf
  <2>. QED BY <2>1 DEF ExtractedOf
<1>2. CASE ~GetExtracted(s)
  <2>1. /\ worker[s].pc \in SynthesizeLabels \ {"getExtracted"}
        /\ worker'[s].task = worker[s].task
        /\ worker'[s].batch = worker[s].batch
        /\ \/ worker'[s].pc \in {"emit", "cleanup"} =>
                 worker[s].pc \in {"emit", "cleanup"}
           \/ CreatePublished(s)
    BY <1>2, SynthesisMoves DEF SynthesizeLabels
  <2>2. ASSUME NEW d \in Drafts, draft'[d] = "extracted"
        PROVE  draft[d] = "extracted"
    BY <2>1, <2>2, ExtractedOnlyBySave DEF SynthesizeLabels
  <2>3. \A d \in Drafts :
           /\ draft'[d] = "extracted"
           /\ TickerOf[d] = worker'[s].task.ticker
           => d \in worker'[s].batch
    BY <2>1, <2>2 DEF BatchComplete, ExtractedOf, TaskOf
  <2>4. CASE CreatePublished(s)
    <3>1. /\ Len(digests) + 1 \in DOMAIN digests'
          /\ digests'[Len(digests) + 1].sources = worker'[s].batch
      BY <2>1, <2>4, NewDigest DEF CreatePublished, DigestOf
    <3>. QED BY <2>3, <3>1 DEF Digested
  <2>5. CASE ~CreatePublished(s)
    BY <2>1, <2>3, <2>5, DigestedGrows DEF BatchComplete
  <2>. QED BY <2>4, <2>5
<1>. QED BY <1>1, <1>2

(***************************************************************************)
(* With one worker process no extracted article is ever deleted without    *)
(* being in a digest, whatever fails, is lost or crashes.                  *)
(***************************************************************************)
THEOREM NoExtractedLost ==
    ASSUME \A r, s \in Replicas : r = s
    PROVE  Spec => ExtractedNeverLost
<1>1. Init => BatchComplete
  BY DEF Init, BatchComplete, Free, SynthesizeLabels
<1>2. TypeOK /\ BatchComplete /\ [Next]_vars => BatchComplete'
  BY CompleteStep
<1>3. ASSUME TypeOK, BatchComplete, [Next]_vars, NEW d \in Drafts,
             draft[d] = "extracted", draft'[d] = "deleted"
      PROVE  d \in Digested
  <2>1. PICK r \in Replicas : Cleanup(r) /\ TickerOf[d] = TaskOf(r).ticker
    BY <1>3, DeletedOnlyByCleanup
  <2>2. d \in ExtractedOf(TaskOf(r).ticker)
    BY <1>3, <2>1 DEF ExtractedOf
  <2>. QED BY <1>3, <2>1, <2>2 DEF Cleanup, BatchComplete, SynthesizeLabels
<1>4. TypeOK /\ BatchComplete /\ [Next]_vars =>
         [\A d \in Drafts :
             draft[d] = "extracted" /\ draft'[d] = "deleted" =>
                 d \in Digested]_vars
  BY <1>3
<1>. QED BY <1>1, <1>2, <1>4, TypeCorrect, PTL DEF Spec, ExtractedNeverLost

-----------------------------------------------------------------------------
(* The refinement of the ledger of digests by one worker process *)

(* What a single worker has read stays in the table until its own cleanup,  *)
(* and what it announces and cleans up is its newest digest.                *)
BatchHeld ==
    \A r \in Replicas :
        /\ worker[r].pc \in {"synthesizeFacts", "createPublished"} =>
              /\ worker[r].batch # {}
              /\ \A d \in worker[r].batch :
                    Stored(d) /\ TickerOf[d] = TaskOf(r).ticker
        /\ worker[r].pc \in {"emit", "cleanup"} =>
              /\ digests # <<>>
              /\ digests[Len(digests)] = DigestOf(r)

LEMMA HeldStep ==
    ASSUME TypeOK, \A r, s \in Replicas : r = s, [Next]_vars, BatchHeld
    PROVE  BatchHeld'
<1>0. worker \in [Replicas -> Worker]
  BY DEF TypeOK
<1>. SUFFICES ASSUME NEW s \in Replicas,
                     worker'[s].pc \in SynthesizeLabels \ {"getExtracted"}
              PROVE  /\ worker'[s].pc \in {"synthesizeFacts", "createPublished"} =>
                           /\ worker'[s].batch # {}
                           /\ \A d \in worker'[s].batch :
                                 /\ Stored(d)'
                                 /\ TickerOf[d] = worker'[s].task.ticker
                     /\ worker'[s].pc \in {"emit", "cleanup"} =>
                           /\ digests' # <<>>
                           /\ digests'[Len(digests')] = DigestOf(s)'
  BY DEF BatchHeld, TaskOf, SynthesizeLabels
<1>1. CASE GetExtracted(s)
  BY <1>0, <1>1
     DEF GetExtracted, ReadForSynthesis, ExtractedOf, Stored, Statuses, Await,
         Free, Worker, tables, SynthesizeLabels, TaskOf
<1>2. CASE ~GetExtracted(s)
  <2>1. /\ worker[s].pc \in SynthesizeLabels \ {"getExtracted"}
        /\ worker'[s].task = worker[s].task
        /\ worker'[s].batch = worker[s].batch
        /\ DigestOf(s)' = DigestOf(s)
    BY <1>2, SynthesisMoves DEF DigestOf, TaskOf
  <2>2. CASE worker'[s].pc \in {"synthesizeFacts", "createPublished"}
    <3>1. worker[s].pc \in {"synthesizeFacts", "createPublished"}
      BY <1>2, <2>1, <2>2, SynthesisMoves DEF SynthesizeFromFacts
    <3>2. ASSUME NEW d \in worker[s].batch
          PROVE  Stored(d)' /\ TickerOf[d] = worker[s].task.ticker
      <4>1. d \in Drafts /\ Stored(d) /\ TickerOf[d] = worker[s].task.ticker
        BY <1>0, <3>1 DEF BatchHeld, TaskOf, Worker
      <4>2. draft'[d] # "deleted"
        BY <3>1, <4>1, DeletedOnlyByCleanup DEF Cleanup, Stored, Statuses
      <4>. QED BY <4>1, <4>2, RowSteps
    <3>. QED BY <2>1, <2>2, <3>1, <3>2 DEF BatchHeld
  <2>3. CASE CreatePublished(s)
    <3>1. /\ digests' = Append(digests, DigestOf(s))
          /\ worker[s].pc = "createPublished"
          /\ worker'[s].pc = "emit"
      BY <1>0, <2>3, GotoKeepsTask DEF CreatePublished
    <3>2. DigestOf(s) \in Digest /\ digests \in Seq(Digest)
      BY <3>1, NewDigest DEF TypeOK
    <3>. QED BY <2>1, <3>1, <3>2, AppendProperties, LenProperties
  <2>4. CASE worker'[s].pc \in {"emit", "cleanup"} /\ ~CreatePublished(s)
    <3>1. worker[s].pc \in {"emit", "cleanup"}
      BY <1>2, <2>1, <2>4, SynthesisMoves
    <3>2. digests' = digests
      BY <3>1, DigestSteps
    <3>. QED BY <2>1, <2>4, <3>1, <3>2 DEF BatchHeld
  <2>. QED BY <1>0, <2>2, <2>3, <2>4 DEF SynthesizeLabels
<1>. QED BY <1>1, <1>2

(* The status a row is given, as a phase. *)
LEMMA PhaseStep ==
    ASSUME TypeOK, NEW d \in Drafts, NEW status \in Statuses,
           UpdateDraftAI(d, status), UNCHANGED <<digests, events>>
    PROVE  [Ledger!Next]_(Ledger!vars)
<1>. DEFINE P == [e \in Drafts |-> PhaseOf(draft[e])]
<1>1. \A e \in Drafts : P[e] = PhaseOf(draft[e]) /\ P'[e] = PhaseOf(draft'[e])
  OBVIOUS
<1>2. CASE ~Stored(d) \/ PhaseOf(status) = PhaseOf(draft[d])
  <2>1. P' = P
    BY <1>2 DEF UpdateDraftAI, TypeOK
  <2>. QED BY <2>1 DEF Ledger!vars
<1>3. CASE Stored(d) /\ PhaseOf(status) # PhaseOf(draft[d])
  <2>1. P' = [P EXCEPT ![d] = PhaseOf(status)]
    BY <1>3 DEF UpdateDraftAI, TypeOK
  <2>2. /\ PhaseOf(status) \in {"waiting", "extracted"}
        /\ P[d] \in {"waiting", "extracted"}
        /\ PhaseOf(status) # P[d]
    BY <1>3 DEF PhaseOf, Statuses, Stored
  <2>3. Ledger!Settle(d) \/ Ledger!Unsettle(d)
    BY <2>1, <2>2 DEF Ledger!Settle, Ledger!Unsettle
  <2>. QED BY <2>3 DEF Ledger!Next
<1>. QED BY <1>2, <1>3

LEMMA LedgerStep ==
    ASSUME TypeOK, BatchComplete, BatchHeld, [Next]_vars
    PROVE  [Ledger!Next]_(Ledger!vars)
<1>0. worker \in [Replicas -> Worker]
  BY DEF TypeOK
<1>1. ASSUME NEW r \in Replicas, worker[r].pc = "createPublished",
             digests' = Append(digests, DigestOf(r)),
             UNCHANGED <<draft, events>>
      PROVE  Ledger!Publish(TaskOf(r).ticker) /\ TaskOf(r).ticker \in Tickers
  <2>1. /\ DigestOf(r) \in Digest
        /\ DigestOf(r).ticker = TaskOf(r).ticker
        /\ DigestOf(r).sources = worker[r].batch
        /\ TaskOf(r).ticker \in Tickers
    BY <1>1, NewDigest DEF DigestOf, Digest
  <2>2. /\ worker[r].batch # {}
        /\ \A d \in worker[r].batch :
              d \in Drafts /\ Stored(d) /\ TickerOf[d] = TaskOf(r).ticker
        /\ ExtractedOf(TaskOf(r).ticker) \subseteq worker[r].batch
    BY <1>0, <1>1 DEF BatchHeld, BatchComplete, SynthesizeLabels, Worker
  <2>3. Ledger!Ready(TaskOf(r).ticker) \subseteq worker[r].batch
    BY <2>2
       DEF Ledger!Ready, Ledger!InPhase, PhaseOf, ExtractedOf, TypeOK, Statuses
  <2>4. worker[r].batch \subseteq Ledger!Present(TaskOf(r).ticker)
    BY <2>2 DEF Ledger!Present, Ledger!InPhase, PhaseOf, Stored, Statuses
  <2>. QED BY <1>1, <2>1, <2>2, <2>3, <2>4 DEF Ledger!Publish
<1>2. ASSUME NEW r \in Replicas, EmitPublished(r)
      PROVE  Ledger!Announce
  BY <1>2 DEF EmitPublished, BatchHeld, Ledger!Announce
<1>3. ASSUME NEW r \in Replicas, Cleanup(r)
      PROVE  Ledger!Clear(TaskOf(r).ticker) /\ TaskOf(r).ticker \in Tickers
  <2>1. /\ digests # <<>>
        /\ digests[Len(digests)].ticker = TaskOf(r).ticker
        /\ digests[Len(digests)].sources = worker[r].batch
        /\ ExtractedOf(TaskOf(r).ticker) \subseteq worker[r].batch
    <3>1. worker[r].pc = "cleanup"
      BY <1>3 DEF Cleanup
    <3>2. digests # <<>> /\ digests[Len(digests)] = DigestOf(r)
      BY <3>1 DEF BatchHeld
    <3>3. ExtractedOf(TaskOf(r).ticker) \subseteq worker[r].batch
      BY <3>1 DEF BatchComplete, SynthesizeLabels
    <3>. QED BY <3>2, <3>3 DEF DigestOf
  <2>2. TaskOf(r).ticker \in Tickers
    BY <1>0, <1>3 DEF Cleanup, Worker, SynthesizeLabels, SynthesizeTask, TaskOf
  <2>3. Ledger!Ready(TaskOf(r).ticker) \subseteq worker[r].batch
    BY <2>1
       DEF Ledger!Ready, Ledger!InPhase, PhaseOf, ExtractedOf, TypeOK, Statuses
  <2>4. \A d \in Drafts : d \in Ledger!Present(TaskOf(r).ticker) <=>
                             TickerOf[d] = TaskOf(r).ticker /\ Stored(d)
    BY DEF Ledger!Present, Ledger!InPhase, PhaseOf, Stored, Statuses, TypeOK
  <2>5. [d \in Drafts |-> PhaseOf(draft'[d])] =
           [d \in Drafts |-> IF d \in Ledger!Present(TaskOf(r).ticker)
                             THEN "deleted" ELSE PhaseOf(draft[d])]
    <3>1. \A d \in Drafts :
             PhaseOf(draft'[d]) = IF d \in Ledger!Present(TaskOf(r).ticker)
                                  THEN "deleted" ELSE PhaseOf(draft[d])
      BY <1>3, <2>4 DEF Cleanup, DeleteDraftsByTicker, PhaseOf
    <3>. QED BY <3>1
  <2>6. [d \in Drafts |-> IF d \in Ledger!Present(TaskOf(r).ticker)
                          THEN "deleted" ELSE PhaseOf(draft[d])] =
        [d \in Drafts |-> IF d \in Ledger!Present(TaskOf(r).ticker)
                          THEN "deleted" ELSE [e \in Drafts |-> PhaseOf(draft[e])][d]]
    OBVIOUS
  <2>. QED BY <1>3, <2>1, <2>2, <2>3, <2>5, <2>6 DEF Ledger!Clear, Cleanup
<1>4. ASSUME NEW d \in Drafts, CreateDraft(d)
      PROVE  Ledger!Arrive(d)
  <2>. DEFINE P == [e \in Drafts |-> PhaseOf(draft[e])]
  <2>1. P[d] = "absent" /\ P' = [P EXCEPT ![d] = "waiting"]
    BY <1>4 DEF CreateDraft, PhaseOf, TypeOK
  <2>. QED BY <1>4, <2>1 DEF CreateDraft, Ledger!Arrive
<1>5. ASSUME NEW r \in Replicas,
             MarkFailed(r) \/ SaveFacts(r) \/ LostReply(r) \/ MarkQueued(r)
      PROVE  \/ [Ledger!Next]_(Ledger!vars)
             \/ digests' = Append(digests, DigestOf(r))
                   /\ worker[r].pc = "createPublished"
                   /\ UNCHANGED <<draft, events>>
  <2>1. worker[r].pc \in ExtractLabels => TaskOf(r).article \in Drafts
    BY DEF TypeOK, Worker, ExtractTask, TaskOf
  <2>2. job[r].pc = "mark" => job[r].current \in Drafts
    BY DEF TypeOK, Job
  <2>3. CASE UNCHANGED <<draft, digests, events>>
    BY <2>3 DEF Ledger!vars
  <2>. QED
    BY <1>5, <2>1, <2>2, <2>3, PhaseStep
       DEF MarkFailed, SaveFacts, LostReply, MarkQueued, ExtractLabels, Statuses
<1>6. ASSUME NEW r \in Replicas, WorkerStep(r), ~MarkFailed(r), ~SaveFacts(r),
             ~LostReply(r), ~CreatePublished(r), ~EmitPublished(r), ~Cleanup(r)
      PROVE  UNCHANGED <<draft, digests, events>>
  BY <1>6, WorkerStepCases
     DEF Dequeue, DequeueLost, Requeue, CountIncomplete, TriggerSynthesis,
         GetDraftByID, ExtractFact, GetExtracted, SynthesizeFromFacts,
         CallFails, IgnoredCallFails, tables
<1>7. ASSUME \/ \E r \in Replicas : JobStep(r) /\ ~MarkQueued(r)
             \/ \E r \in Replicas : Crash(r)
             \/ LockExpires \/ ClearQueue
             \/ UNCHANGED vars
      PROVE  UNCHANGED <<draft, digests, events>>
  BY <1>7
     DEF JobStep, StartRun, ListPending, EnqueueExtraction, ListReady,
         RescueTicker, FinishRun, JobCallFails, Crash, LockExpires, ClearQueue,
         tables, vars
<1>8. CASE UNCHANGED <<draft, digests, events>>
  BY <1>8 DEF Ledger!vars
<1>. QED
  BY <1>1, <1>2, <1>3, <1>4, <1>5, <1>6, <1>7, <1>8
     DEF Next, CreatePublished, Ledger!Next

(***************************************************************************)
(* Whatever fails, is lost or crashes, one worker process implements the   *)
(* ledger of digests.                                                      *)
(***************************************************************************)
THEOREM LedgerImplemented ==
    ASSUME \A r, s \in Replicas : r = s
    PROVE  Spec => ImplementsLedger
<1>1. Init => BatchComplete /\ BatchHeld /\ Ledger!Init
  BY DEF Init, BatchComplete, BatchHeld, Free, SynthesizeLabels, Ledger!Init,
         PhaseOf
<1>2. TypeOK /\ BatchComplete /\ BatchHeld /\ [Next]_vars =>
         BatchComplete' /\ BatchHeld' /\ [Ledger!Next]_(Ledger!vars)
  BY CompleteStep, HeldStep, LedgerStep
<1>. QED
  BY <1>1, <1>2, TypeCorrect, PTL DEF Spec, ImplementsLedger, Ledger!Spec

-----------------------------------------------------------------------------
(* Any number of worker processes *)

Hands == [s \in Replicas |-> HandOf(s)]

LEMMA HandsKept ==
    ASSUME worker' = worker
    PROVE  Hands' = Hands
BY DEF Hands, HandOf, TaskOf

LEMMA OneHandMoves ==
    ASSUME worker \in [Replicas -> Worker], NEW r \in Replicas, NEW h,
           \A s \in Replicas \ {r} : worker'[s] = worker[s],
           HandOf(r)' = h
    PROVE  Hands' = [Hands EXCEPT ![r] = h]
<1>1. \A s \in Replicas \ {r} : HandOf(s)' = HandOf(s)
  BY DEF HandOf, TaskOf
<1>. QED BY <1>1 DEF Hands

(* Off the labels of a synthesis a worker has nothing in hand.              *)
LEMMA EmptyHand ==
    ASSUME worker \in [Replicas -> Worker], NEW r \in Replicas,
           worker[r].pc \notin SynthesizeLabels \ {"getExtracted"}
    PROVE  HandOf(r) = Team!Idle
BY DEF HandOf, StageOf, SynthesizeLabels, Team!Idle

LEMMA FullHand ==
    ASSUME worker \in [Replicas -> Worker], NEW r \in Replicas,
           worker[r].pc \in SynthesizeLabels \ {"getExtracted"}
    PROVE  /\ HandOf(r) = [stage |-> StageOf(worker[r].pc),
                           ticker |-> TaskOf(r).ticker,
                           sources |-> worker[r].batch]
           /\ StageOf(worker[r].pc) \in {"read", "stored", "told"}
           /\ TaskOf(r).ticker \in Tickers
           /\ Hands[r].stage = StageOf(worker[r].pc)
           /\ Hands[r].ticker = TaskOf(r).ticker
           /\ Team!DigestOf(r) = DigestOf(r)
<1>1. StageOf(worker[r].pc) \in {"read", "stored", "told"}
  BY DEF StageOf, SynthesizeLabels
<1>2. HandOf(r) = [stage |-> StageOf(worker[r].pc), ticker |-> TaskOf(r).ticker,
                   sources |-> worker[r].batch]
  BY <1>1 DEF HandOf
<1>3. Team!DigestOf(r) = DigestOf(r)
  BY <1>2 DEF Team!DigestOf, DigestOf
<1>4. TaskOf(r).ticker \in Tickers
  BY BusyHasTask DEF BusyLabels, SynthesizeLabels, TaskOf
<1>. QED BY <1>1, <1>2, <1>3, <1>4 DEF Hands

(* The status a row is given while no hand moves.                           *)
LEMMA TeamPhaseStep ==
    ASSUME TypeOK, NEW d \in Drafts, NEW status \in Statuses,
           UpdateDraftAI(d, status), UNCHANGED <<digests, events>>,
           Hands' = Hands
    PROVE  [Team!Next]_(Team!vars)
<1>. DEFINE P == [e \in Drafts |-> PhaseOf(draft[e])]
<1>1. \A e \in Drafts : P[e] = PhaseOf(draft[e]) /\ P'[e] = PhaseOf(draft'[e])
  OBVIOUS
<1>2. CASE ~Stored(d) \/ PhaseOf(status) = PhaseOf(draft[d])
  <2>1. P' = P
    BY <1>2 DEF UpdateDraftAI, TypeOK
  <2>. QED BY <2>1 DEF Team!vars, Hands
<1>3. CASE Stored(d) /\ PhaseOf(status) # PhaseOf(draft[d])
  <2>1. P' = [P EXCEPT ![d] = PhaseOf(status)]
    BY <1>3 DEF UpdateDraftAI, TypeOK
  <2>2. /\ PhaseOf(status) \in {"waiting", "extracted"}
        /\ P[d] \in {"waiting", "extracted"}
        /\ PhaseOf(status) # P[d]
    BY <1>3 DEF PhaseOf, Statuses, Stored
  <2>3. Team!Settle(d) \/ Team!Unsettle(d)
    BY <2>1, <2>2 DEF Team!Settle, Team!Unsettle, Hands
  <2>. QED BY <2>3 DEF Team!Next
<1>. QED BY <1>2, <1>3

(* A worker that is not, or no longer, in a synthesis.                      *)
LEMMA HandLaidDown ==
    ASSUME worker \in [Replicas -> Worker], NEW r \in Replicas,
           \A s \in Replicas \ {r} : worker'[s] = worker[s],
           worker'[r].pc \notin SynthesizeLabels \ {"getExtracted"}
    PROVE  /\ Hands' = [Hands EXCEPT ![r] = Team!Idle]
           /\ worker[r].pc \notin SynthesizeLabels \ {"getExtracted"} =>
                 Hands' = Hands
           /\ worker[r].pc \in SynthesizeLabels \ {"getExtracted"} =>
                 Hands[r].stage # "idle"
<1>1. HandOf(r)' = Team!Idle
  BY DEF HandOf, StageOf, SynthesizeLabels, Team!Idle
<1>2. Hands' = [Hands EXCEPT ![r] = Team!Idle]
  BY <1>1, OneHandMoves
<1>3. ASSUME worker[r].pc \notin SynthesizeLabels \ {"getExtracted"}
      PROVE  Hands' = Hands
  <2>1. Hands[r] = Team!Idle
    BY <1>3, EmptyHand DEF Hands
  <2>. QED BY <1>2, <2>1 DEF Hands
<1>4. ASSUME worker[r].pc \in SynthesizeLabels \ {"getExtracted"}
      PROVE  Hands[r].stage # "idle"
  BY <1>4, FullHand
<1>. QED BY <1>2, <1>3, <1>4

LEMMA TeamStutter ==
    ASSUME UNCHANGED <<draft, digests, events>>, Hands' = Hands
    PROVE  [Team!Next]_(Team!vars)
BY DEF Team!vars, Hands

(* An error, a crash or the end of the task, with or without a digest in    *)
(* hand.                                                                    *)
LEMMA TeamGivesUp ==
    ASSUME TypeOK, NEW r \in Replicas,
           \A s \in Replicas \ {r} : worker'[s] = worker[s],
           worker'[r].pc \notin SynthesizeLabels \ {"getExtracted"},
           UNCHANGED <<draft, digests, events>>
    PROVE  [Team!Next]_(Team!vars)
<1>0. worker \in [Replicas -> Worker]
  BY DEF TypeOK
<1>1. CASE worker[r].pc \notin SynthesizeLabels \ {"getExtracted"}
  BY <1>0, <1>1, HandLaidDown, TeamStutter
<1>2. CASE worker[r].pc \in SynthesizeLabels \ {"getExtracted"}
  <2>1. Hands' = [Hands EXCEPT ![r] = Team!Idle] /\ Hands[r].stage # "idle"
    BY <1>0, <1>2, HandLaidDown
  <2>2. Team!Abandon(r)
    BY <2>1 DEF Team!Abandon, Team!LayDown, Hands
  <2>. QED BY <2>2 DEF Team!Next
<1>. QED BY <1>1, <1>2

(* A step of a worker moves that worker only. *)
LEMMA OneWorkerMoves ==
    ASSUME TypeOK, NEW r \in Replicas, WorkerStep(r)
    PROVE  \A s \in Replicas \ {r} : worker'[s] = worker[s]
<1>. DEFINE Others == \A s \in Replicas \ {r} : worker'[s] = worker[s]
<1>1. worker \in [Replicas -> Worker]
  BY DEF TypeOK
<1>2. /\ Await(r) => Others
      /\ \A l : Goto(r, l) => Others
      /\ HandleError(r) => Others
  BY <1>1 DEF Await, Goto, HandleError
<1>3. CASE \/ Requeue(r) \/ MarkFailed(r) \/ CountIncomplete(r)
           \/ TriggerSynthesis(r) \/ GetDraftByID(r) \/ ExtractFact(r)
           \/ SaveFacts(r) \/ SynthesizeFromFacts(r) \/ CreatePublished(r)
           \/ EmitPublished(r) \/ Cleanup(r)
  BY <1>2, <1>3
     DEF Requeue, MarkFailed, CountIncomplete, TriggerSynthesis, GetDraftByID,
         ExtractFact, SaveFacts, SynthesizeFromFacts, CreatePublished,
         EmitPublished, Cleanup
<1>4. CASE CallFails(r) \/ IgnoredCallFails(r) \/ LostReply(r)
  BY <1>2, <1>4 DEF CallFails, IgnoredCallFails, LostReply
<1>5. CASE Dequeue(r) \/ DequeueLost(r) \/ GetExtracted(r)
  BY <1>1, <1>2, <1>5 DEF Dequeue, DequeueLost, GetExtracted
<1>. QED BY <1>3, <1>4, <1>5, WorkerStepCases

(* A worker that gives a task up has no digest in hand. *)
LEMMA OffSynthesis ==
    ASSUME TypeOK, NEW r \in Replicas,
           \/ HandleError(r) \/ Await(r)
           \/ \E l \in ExtractLabels : Goto(r, l)
    PROVE  worker'[r].pc \notin SynthesizeLabels \ {"getExtracted"}
<1>1. worker \in [Replicas -> Worker]
  BY DEF TypeOK
<1>2. CASE HandleError(r)
  BY <1>1, <1>2
     DEF HandleError, Goto, Await, Free, Worker, SynthesizeLabels
<1>3. CASE Await(r)
  BY <1>1, <1>3 DEF Await, Free, SynthesizeLabels
<1>4. CASE \E l \in ExtractLabels : Goto(r, l)
  BY <1>1, <1>4, GotoKeepsTask DEF ExtractLabels, SynthesizeLabels
<1>. QED BY <1>2, <1>3, <1>4

(* The steps of the loop and of an extraction that change no table, and the *)
(* errors of a synthesis.                                                   *)
LEMMA TeamQuietStep ==
    ASSUME TypeOK, NEW r \in Replicas,
           \/ Dequeue(r) \/ DequeueLost(r) \/ Requeue(r)
           \/ CountIncomplete(r) \/ TriggerSynthesis(r)
           \/ GetDraftByID(r) \/ ExtractFact(r) \/ CallFails(r)
    PROVE  [Team!Next]_(Team!vars)
<1>0. worker \in [Replicas -> Worker] /\ UNCHANGED <<draft, digests, events>>
  BY DEF TypeOK, Dequeue, DequeueLost, Requeue, CountIncomplete,
         TriggerSynthesis, GetDraftByID, ExtractFact, CallFails, tables
<1>1. CASE DequeueLost(r)
  BY <1>0, <1>1, HandsKept, TeamStutter DEF DequeueLost
<1>2. CASE ~DequeueLost(r)
  <2>1. \A s \in Replicas \ {r} : worker'[s] = worker[s]
    BY OneWorkerMoves DEF WorkerStep, LoopStep, ExtractStep
  <2>2. worker'[r].pc \notin SynthesizeLabels \ {"getExtracted"}
    <3>1. CASE Dequeue(r)
      BY <1>0, <3>1 DEF Dequeue, Worker, SynthesizeLabels
    <3>2. CASE ~Dequeue(r)
      BY <1>2, <3>2, OffSynthesis
         DEF Requeue, CountIncomplete, TriggerSynthesis, GetDraftByID,
             ExtractFact, CallFails, ExtractLabels
    <3>. QED BY <3>1, <3>2
  <2>. QED BY <1>0, <2>1, <2>2, TeamGivesUp
<1>. QED BY <1>1, <1>2

(* What one query finds is what is ready. *)
LEMMA TeamReady ==
    ASSUME TypeOK, NEW t
    PROVE  Team!Ready(t) = ExtractedOf(t)
BY DEF TypeOK, Team!Ready, Team!InPhase, ExtractedOf, PhaseOf, Statuses

LEMMA TeamRead ==
    ASSUME TypeOK, NEW r \in Replicas, GetExtracted(r),
           ReadForSynthesis(TaskOf(r).ticker) # {}
    PROVE  [Team!Next]_(Team!vars)
<1>0. worker \in [Replicas -> Worker] /\ UNCHANGED <<draft, digests, events>>
  BY DEF TypeOK, GetExtracted, tables
<1>1. /\ worker[r].pc = "getExtracted"
      /\ TaskOf(r).ticker \in Tickers
  BY <1>0, BusyHasTask DEF GetExtracted, BusyLabels, SynthesizeLabels, TaskOf
<1>2. PICK t \in Tickers : t = TaskOf(r).ticker
  BY <1>1
<1>3. /\ ExtractedOf(t) # {}
      /\ worker' = [worker EXCEPT ![r].batch = ExtractedOf(t),
                                  ![r].pc = "synthesizeFacts"]
  BY <1>2 DEF GetExtracted, ReadForSynthesis
<1>4. PICK b : b = ExtractedOf(t)
  OBVIOUS
<1>5. /\ worker'[r].pc = "synthesizeFacts"
      /\ worker'[r].batch = b
      /\ worker'[r].task = worker[r].task
      /\ \A s \in Replicas \ {r} : worker'[s] = worker[s]
  BY <1>0, <1>3, <1>4 DEF Worker
<1>6. HandOf(r)' = [stage |-> "read", ticker |-> t, sources |-> b]
  BY <1>2, <1>5 DEF HandOf, StageOf, TaskOf
<1>7. Hands' = [Hands EXCEPT ![r] = [stage |-> "read", ticker |-> t, sources |-> b]]
  BY <1>0, <1>5, <1>6, OneHandMoves
<1>8. Hands[r].stage = "idle"
  BY <1>0, <1>1, EmptyHand DEF Hands, SynthesizeLabels, Team!Idle
<1>9. Team!Read(r, t)
  BY <1>0, <1>3, <1>4, <1>7, <1>8, TeamReady DEF Team!Read, Hands
<1>. QED BY <1>9 DEF Team!Next

(* The digest in hand reaches its next stage.                               *)
LEMMA HandMovesOn ==
    ASSUME TypeOK, NEW r \in Replicas,
           NEW label \in {"createPublished", "emit", "cleanup"},
           worker[r].pc \in SynthesizeLabels \ {"getExtracted"},
           Goto(r, label)
    PROVE  Hands' = [Hands EXCEPT ![r].stage = StageOf(label)]
<1>0. worker \in [Replicas -> Worker]
  BY DEF TypeOK
<1>1. /\ worker'[r].pc = label
      /\ worker'[r].task = worker[r].task
      /\ worker'[r].batch = worker[r].batch
      /\ \A s \in Replicas \ {r} : worker'[s] = worker[s]
  BY <1>0 DEF Goto, Worker
<1>2. PICK t, b : t = TaskOf(r).ticker /\ b = worker[r].batch
  OBVIOUS
<1>3. HandOf(r)' = [stage |-> StageOf(label), ticker |-> t, sources |-> b]
  BY <1>1, <1>2 DEF HandOf, StageOf, TaskOf
<1>4. Hands' = [Hands EXCEPT ![r] =
                    [stage |-> StageOf(label), ticker |-> t, sources |-> b]]
  BY <1>0, <1>1, <1>3, OneHandMoves
<1>5. Hands[r] = [stage |-> StageOf(worker[r].pc), ticker |-> t, sources |-> b]
  BY <1>0, <1>2, FullHand DEF Hands
<1>6. [Hands[r] EXCEPT !.stage = StageOf(label)] =
         [stage |-> StageOf(label), ticker |-> t, sources |-> b]
  BY <1>5
<1>. QED BY <1>4, <1>6

LEMMA TeamSynthesizeStep ==
    ASSUME TypeOK, NEW r \in Replicas, SynthesizeStep(r)
    PROVE  [Team!Next]_(Team!vars)
<1>0. worker \in [Replicas -> Worker]
  BY DEF TypeOK
<1>1. CASE GetExtracted(r)
  <2>1. CASE ReadForSynthesis(TaskOf(r).ticker) # {}
    BY <1>1, <2>1, TeamRead
  <2>2. CASE ReadForSynthesis(TaskOf(r).ticker) = {}
    <3>1. Await(r) /\ UNCHANGED <<draft, digests, events>>
      BY <1>1, <2>2 DEF GetExtracted, tables
    <3>2. \A s \in Replicas \ {r} : worker'[s] = worker[s]
      BY <1>1, OneWorkerMoves DEF WorkerStep, SynthesizeStep
    <3>. QED BY <3>1, <3>2, OffSynthesis, TeamGivesUp
  <2>. QED BY <2>1, <2>2
<1>2. CASE SynthesizeFromFacts(r)
  <2>1. /\ worker[r].pc = "synthesizeFacts" /\ Goto(r, "createPublished")
        /\ UNCHANGED <<draft, digests, events>>
    BY <1>2 DEF SynthesizeFromFacts, tables
  <2>2. Hands' = [Hands EXCEPT ![r].stage = "read"] /\ Hands[r].stage = "read"
    BY <1>0, <2>1, HandMovesOn, FullHand DEF StageOf, SynthesizeLabels
  <2>3. [Hands[r] EXCEPT !.stage = "read"] = Hands[r]
    <3>1. Hands[r] = [stage |-> "read", ticker |-> TaskOf(r).ticker,
                      sources |-> worker[r].batch]
      BY <1>0, <2>1, FullHand DEF Hands, StageOf, SynthesizeLabels
    <3>. QED BY <3>1
  <2>4. Hands' = Hands
    BY <2>2, <2>3 DEF Hands
  <2>. QED BY <2>1, <2>4, TeamStutter
<1>3. CASE CreatePublished(r)
  <2>1. /\ worker[r].pc = "createPublished" /\ Goto(r, "emit")
        /\ digests' = Append(digests, DigestOf(r))
        /\ UNCHANGED <<draft, events>>
    BY <1>3 DEF CreatePublished
  <2>2. /\ Hands' = [Hands EXCEPT ![r].stage = "stored"]
        /\ Hands[r].stage = "read"
        /\ Team!DigestOf(r) = DigestOf(r)
    BY <1>0, <2>1, HandMovesOn, FullHand DEF StageOf, SynthesizeLabels
  <2>3. Team!Store(r)
    BY <2>1, <2>2 DEF Team!Store, Team!Move, Hands
  <2>. QED BY <2>3 DEF Team!Next
<1>4. CASE EmitPublished(r)
  <2>1. /\ worker[r].pc = "emit" /\ Goto(r, "cleanup")
        /\ events' = Append(events, DigestOf(r))
        /\ UNCHANGED <<draft, digests>>
    BY <1>4 DEF EmitPublished
  <2>2. /\ Hands' = [Hands EXCEPT ![r].stage = "told"]
        /\ Hands[r].stage = "stored"
        /\ Team!DigestOf(r) = DigestOf(r)
    BY <1>0, <2>1, HandMovesOn, FullHand DEF StageOf, SynthesizeLabels
  <2>3. Team!Announce(r)
    BY <2>1, <2>2 DEF Team!Announce, Team!Move, Hands
  <2>. QED BY <2>3 DEF Team!Next
<1>5. CASE Cleanup(r)
  <2>1. /\ worker[r].pc = "cleanup" /\ Await(r)
        /\ DeleteDraftsByTicker(TaskOf(r).ticker)
        /\ UNCHANGED <<digests, events>>
    BY <1>5 DEF Cleanup
  <2>2. \A s \in Replicas \ {r} : worker'[s] = worker[s]
    BY <1>5, OneWorkerMoves DEF WorkerStep, SynthesizeStep
  <2>3. Hands' = [Hands EXCEPT ![r] = Team!Idle]
    BY <1>0, <2>1, <2>2, OffSynthesis, HandLaidDown
  <2>4. Hands[r].stage = "told" /\ Hands[r].ticker = TaskOf(r).ticker
    BY <1>0, <2>1, FullHand DEF StageOf, SynthesizeLabels
  <2>5. \A d \in Drafts : d \in Team!Present(TaskOf(r).ticker) <=>
                             TickerOf[d] = TaskOf(r).ticker /\ Stored(d)
    BY DEF Team!Present, Team!InPhase, PhaseOf, Stored, Statuses, TypeOK
  <2>6. \A d \in Drafts :
           PhaseOf(draft'[d]) = IF d \in Team!Present(TaskOf(r).ticker)
                                THEN "deleted" ELSE PhaseOf(draft[d])
    BY <2>1, <2>5 DEF DeleteDraftsByTicker, PhaseOf
  <2>7. [d \in Drafts |-> PhaseOf(draft'[d])] =
           [d \in Drafts |-> IF d \in Team!Present(TaskOf(r).ticker)
                             THEN "deleted"
                             ELSE [e \in Drafts |-> PhaseOf(draft[e])][d]]
    BY <2>6
  <2>8. Team!Clear(r)
    BY <2>1, <2>3, <2>4, <2>7 DEF Team!Clear, Team!LayDown, Hands
  <2>. QED BY <2>8 DEF Team!Next
<1>. QED BY <1>1, <1>2, <1>3, <1>4, <1>5 DEF SynthesizeStep

(* Errors that the worker does not return, and replies that never arrive.   *)
LEMMA TeamFailureStep ==
    ASSUME TypeOK, NEW r \in Replicas, IgnoredCallFails(r) \/ LostReply(r)
    PROVE  [Team!Next]_(Team!vars)
<1>0. worker \in [Replicas -> Worker]
  BY DEF TypeOK
<1>1. \A s \in Replicas \ {r} : worker'[s] = worker[s]
  BY OneWorkerMoves DEF WorkerStep
<1>2. CASE IgnoredCallFails(r)
  <2>1. UNCHANGED <<draft, digests, events>>
    BY <1>2 DEF IgnoredCallFails, tables
  <2>2. CASE worker[r].pc = "emit" /\ Goto(r, "cleanup")
    <3>1. Hands' = [Hands EXCEPT ![r].stage = "told"] /\ Hands[r].stage = "stored"
      BY <1>0, <2>2, HandMovesOn, FullHand DEF StageOf, SynthesizeLabels
    <3>2. Team!Miss(r)
      BY <2>1, <3>1 DEF Team!Miss, Team!Move, Hands
    <3>. QED BY <3>2 DEF Team!Next
  <2>3. CASE Goto(r, "checkCount") \/ Await(r)
    BY <1>1, <2>1, <2>3, OffSynthesis, TeamGivesUp DEF ExtractLabels
  <2>. QED BY <1>2, <2>2, <2>3 DEF IgnoredCallFails
<1>3. CASE LostReply(r)
  <2>1. HandleError(r) /\ events' = events
    BY <1>3 DEF LostReply
  <2>2. worker'[r].pc \notin SynthesizeLabels \ {"getExtracted"}
    BY <2>1, OffSynthesis
  <2>3. CASE worker[r].pc = "saveFacts" /\ UpdateDraftAI(TaskOf(r).article, "extracted")
                                        /\ UNCHANGED digests
    <3>1. PICK d \in Drafts : d = TaskOf(r).article
      BY <1>0, <2>3 DEF Worker, ExtractLabels, ExtractTask, TaskOf
    <3>2. Hands' = Hands
      BY <1>0, <1>1, <2>2, <2>3, HandLaidDown DEF SynthesizeLabels
    <3>. QED BY <2>1, <2>3, <3>1, <3>2, TeamPhaseStep DEF Statuses
  <2>4. CASE UNCHANGED <<draft, digests>>
    BY <1>1, <2>1, <2>2, <2>4, TeamGivesUp
  <2>5. CASE /\ worker[r].pc = "createPublished"
             /\ digests' = Append(digests, DigestOf(r))
             /\ UNCHANGED draft
    <3>1. Hands' = [Hands EXCEPT ![r] = Team!Idle]
      BY <1>0, <1>1, <2>2, HandLaidDown
    <3>2. Hands[r].stage = "read" /\ Team!DigestOf(r) = DigestOf(r)
      BY <1>0, <2>5, FullHand DEF StageOf, SynthesizeLabels
    <3>3. Team!Store(r)
      BY <2>1, <2>5, <3>1, <3>2 DEF Team!Store, Team!LayDown, Hands
    <3>. QED BY <3>3 DEF Team!Next
  <2>. QED BY <1>3, <2>3, <2>4, <2>5 DEF LostReply
<1>. QED BY <1>2, <1>3

(* The updates of ai_status.                                                *)
LEMMA TeamSettleStep ==
    ASSUME TypeOK, NEW r \in Replicas, MarkFailed(r) \/ SaveFacts(r) \/ MarkQueued(r)
    PROVE  [Team!Next]_(Team!vars)
<1>0. worker \in [Replicas -> Worker] /\ UNCHANGED <<digests, events>>
  BY DEF TypeOK, MarkFailed, SaveFacts, MarkQueued
<1>1. CASE MarkQueued(r)
  <2>1. PICK d \in Drafts : d = job[r].current
    BY <1>1 DEF TypeOK, Job, MarkQueued
  <2>2. Hands' = Hands
    BY <1>1, HandsKept DEF MarkQueued
  <2>. QED BY <1>0, <1>1, <2>1, <2>2, TeamPhaseStep DEF MarkQueued, Statuses
<1>2. CASE MarkFailed(r) \/ SaveFacts(r)
  <2>1. PICK d \in Drafts : d = TaskOf(r).article
    BY <1>0, <1>2
       DEF MarkFailed, SaveFacts, Worker, ExtractLabels, ExtractTask, TaskOf
  <2>2. \A s \in Replicas \ {r} : worker'[s] = worker[s]
    BY <1>2, OneWorkerMoves DEF WorkerStep, LoopStep, ExtractStep
  <2>3. Hands' = Hands
    BY <1>0, <1>2, <2>2, OffSynthesis, HandLaidDown
       DEF MarkFailed, SaveFacts, ExtractLabels, SynthesizeLabels
  <2>. QED
    BY <1>0, <1>2, <2>1, <2>3, TeamPhaseStep DEF MarkFailed, SaveFacts, Statuses
<1>. QED BY <1>1, <1>2

LEMMA TeamStep ==
    ASSUME TypeOK, [Next]_vars
    PROVE  [Team!Next]_(Team!vars)
<1>1. ASSUME NEW r \in Replicas, WorkerStep(r)
      PROVE  [Team!Next]_(Team!vars)
  BY <1>1, WorkerStepCases, TeamQuietStep, TeamSynthesizeStep, TeamFailureStep,
     TeamSettleStep DEF SynthesizeStep
<1>2. ASSUME NEW r \in Replicas, JobStep(r)
      PROVE  [Team!Next]_(Team!vars)
  <2>1. CASE MarkQueued(r)
    BY <2>1, TeamSettleStep
  <2>2. CASE ~MarkQueued(r)
    <3>1. UNCHANGED <<draft, digests, events, worker>>
      BY <1>2, <2>2
         DEF JobStep, StartRun, ListPending, EnqueueExtraction, ListReady,
             RescueTicker, FinishRun, JobCallFails, tables
    <3>. QED BY <3>1, HandsKept, TeamStutter
  <2>. QED BY <2>1, <2>2
<1>3. ASSUME NEW r \in Replicas, Crash(r)
      PROVE  [Team!Next]_(Team!vars)
  <2>1. Await(r) /\ UNCHANGED <<draft, digests, events>>
    BY <1>3 DEF Crash, tables
  <2>2. \A s \in Replicas \ {r} : worker'[s] = worker[s]
    BY <2>1 DEF Await, TypeOK
  <2>. QED BY <2>1, <2>2, OffSynthesis, TeamGivesUp
<1>4. ASSUME NEW d \in Drafts, CreateDraft(d)
      PROVE  [Team!Next]_(Team!vars)
  <2>. DEFINE P == [e \in Drafts |-> PhaseOf(draft[e])]
  <2>1. P[d] = "absent" /\ P' = [P EXCEPT ![d] = "waiting"]
    BY <1>4 DEF CreateDraft, PhaseOf, TypeOK
  <2>2. Hands' = Hands
    BY <1>4, HandsKept DEF CreateDraft
  <2>3. Team!Arrive(d)
    BY <1>4, <2>1, <2>2 DEF CreateDraft, Team!Arrive, Hands
  <2>. QED BY <2>3 DEF Team!Next
<1>5. CASE LockExpires \/ ClearQueue \/ UNCHANGED vars
  <2>1. UNCHANGED <<draft, digests, events, worker>>
    BY <1>5 DEF LockExpires, ClearQueue, tables, vars
  <2>. QED BY <2>1, HandsKept, TeamStutter
<1>. QED BY <1>1, <1>2, <1>3, <1>4, <1>5 DEF Next

(***************************************************************************)
(* Any number of worker processes implement the writers of digests,        *)
(* whatever fails, is lost, crashes or overlaps: each digest holds what    *)
(* one query found, is announced at most once and by the worker that       *)
(* stored it, and drafts go only by the hand of such a worker.             *)
(***************************************************************************)
THEOREM WritersImplemented == Spec => ImplementsWriters
<1>1. Init => Team!Init
  BY DEF Init, Team!Init, Team!Idle, PhaseOf, HandOf, StageOf, Free
<1>2. TypeOK /\ [Next]_vars => [Team!Next]_(Team!vars)
  BY TeamStep
<1>. QED
  BY <1>1, <1>2, TypeCorrect, PTL DEF Spec, ImplementsWriters, Team!Spec

-----------------------------------------------------------------------------
(* Alerts and digests, with any number of worker processes *)

(* f gives each alert the digest it announces, j each worker that is about  *)
(* to announce one the digest it has stored.                                *)
Traces(f, j) ==
    /\ f \in [DOMAIN events -> DOMAIN digests]
    /\ \A i \in DOMAIN events : digests[f[i]] = events[i]
    /\ \A i, k \in DOMAIN events : f[i] = f[k] => i = k
    /\ j \in [Replicas -> Nat]
    /\ \A r \in Replicas : worker[r].pc = "emit" =>
          /\ j[r] \in DOMAIN digests
          /\ digests[j[r]] = DigestOf(r)
          /\ \A i \in DOMAIN events : f[i] # j[r]

TraceInv == \E f, j : Traces(f, j)

(***************************************************************************)
(* Every alert is about a digest of its own, the same ticker and the same  *)
(* articles as stored, and no digest is announced twice: EmitPublished     *)
(* follows the CreatePublished of the same worker with no task taken in    *)
(* between, and no retry comes back to it (queue_worker.go:207-215).       *)
(***************************************************************************)
AlertsTraced ==
    \E f \in [DOMAIN events -> DOMAIN digests] :
        /\ \A i \in DOMAIN events : digests[f[i]] = events[i]
        /\ \A i, k \in DOMAIN events : f[i] = f[k] => i = k

(* Who is about to announce either has just stored or was about to before.  *)
LEMMA EmitKept ==
    ASSUME TypeOK, [Next]_vars, NEW s \in Replicas, worker'[s].pc = "emit",
           ~CreatePublished(s)
    PROVE  worker[s].pc = "emit" /\ DigestOf(s)' = DigestOf(s)
<1>1. ~GetExtracted(s)
  BY DEF TypeOK, GetExtracted, Await, Free, Worker
<1>2. /\ worker[s].pc = "emit"
      /\ worker'[s].task = worker[s].task
      /\ worker'[s].batch = worker[s].batch
  BY <1>1, SynthesisMoves DEF SynthesizeLabels, SynthesizeFromFacts
<1>. QED BY <1>2 DEF DigestOf, TaskOf

LEMMA TraceStep ==
    ASSUME TypeOK, TraceInv, [Next]_vars
    PROVE  TraceInv'
<1>0. PICK f, j : Traces(f, j)
  BY DEF TraceInv
<1>1. /\ events \in Seq(Digest) /\ digests \in Seq(Digest)
      /\ Len(events) \in Nat /\ DOMAIN events = 1..Len(events)
      /\ Len(digests) \in Nat /\ DOMAIN digests = 1..Len(digests)
      /\ worker \in [Replicas -> Worker]
  BY LenProperties DEF TypeOK
<1>2. ASSUME NEW r \in Replicas, EmitPublished(r)
      PROVE  TraceInv'
  <2>1. /\ worker[r].pc = "emit" /\ digests' = digests
        /\ worker'[r].pc = "cleanup"
        /\ \A s \in Replicas \ {r} : worker'[s] = worker[s]
        /\ events' = Append(events, DigestOf(r))
    BY <1>1, <1>2, GotoKeepsTask DEF EmitPublished, Goto
  <2>2. j[r] \in DOMAIN digests /\ digests[j[r]] = DigestOf(r)
    BY <1>0, <2>1 DEF Traces
  <2>3. DigestOf(r) \in Digest
    BY <1>1, <2>2, ElementOfSeq
  <2>4. /\ DOMAIN events' = 1..(Len(events) + 1)
        /\ \A i \in 1..Len(events) : events'[i] = events[i]
        /\ events'[Len(events) + 1] = DigestOf(r)
    BY <1>1, <2>1, <2>3, AppendProperties, LenProperties
  <2>. DEFINE g == [i \in 1..(Len(events) + 1) |->
                       IF i = Len(events) + 1 THEN j[r] ELSE f[i]]
  <2>5. PICK h : h = g
    OBVIOUS
  <2>6. /\ h \in [DOMAIN events' -> DOMAIN digests']
        /\ \A i \in DOMAIN events' : digests'[h[i]] = events'[i]
    BY <1>0, <1>1, <2>1, <2>2, <2>4, <2>5 DEF Traces
  <2>7. \A i, k \in DOMAIN events' : h[i] = h[k] => i = k
    <3>1. \A i \in DOMAIN events : f[i] # j[r]
      BY <1>0, <2>1 DEF Traces
    <3>2. \A i, k \in DOMAIN events : f[i] = f[k] => i = k
      BY <1>0 DEF Traces
    <3>. QED BY <1>1, <2>4, <2>5, <3>1, <3>2
  <2>8. ASSUME NEW s \in Replicas, worker'[s].pc = "emit"
        PROVE  /\ j[s] \in DOMAIN digests'
               /\ digests'[j[s]] = DigestOf(s)'
               /\ \A i \in DOMAIN events' : h[i] # j[s]
    <3>1. s # r /\ worker[s].pc = "emit" /\ DigestOf(s)' = DigestOf(s)
      BY <2>1, <2>8 DEF DigestOf, TaskOf
    <3>2. /\ j[s] \in DOMAIN digests /\ digests[j[s]] = DigestOf(s)
          /\ \A i \in DOMAIN events : f[i] # j[s]
      BY <1>0, <3>1 DEF Traces
    <3>3. DigestOf(s).by = s /\ DigestOf(r).by = r
      BY DEF DigestOf
    <3>4. j[s] # j[r]
      BY <2>2, <3>1, <3>2, <3>3
    <3>. QED BY <1>1, <2>1, <2>4, <2>5, <3>1, <3>2, <3>4
  <2>9. j \in [Replicas -> Nat]
    BY <1>0 DEF Traces
  <2>10. Traces(h, j)'
    BY <2>6, <2>7, <2>8, <2>9 DEF Traces
  <2>. QED BY <2>10 DEF TraceInv
<1>3. ASSUME NEW r \in Replicas, worker[r].pc = "createPublished",
             digests' = Append(digests, DigestOf(r)), events' = events
      PROVE  TraceInv'
  <2>1. /\ DigestOf(r) \in Digest
        /\ DOMAIN digests' = 1..(Len(digests) + 1)
        /\ digests'[Len(digests) + 1] = DigestOf(r)
        /\ \A i \in DOMAIN digests :
              i \in DOMAIN digests' /\ digests'[i] = digests[i]
    BY <1>1, <1>3, NewDigest, AppendProperties, LenProperties
  <2>2. /\ f \in [DOMAIN events' -> DOMAIN digests']
        /\ \A i \in DOMAIN events' : digests'[f[i]] = events'[i]
        /\ \A i, k \in DOMAIN events' : f[i] = f[k] => i = k
        /\ \A i \in DOMAIN events' : f[i] # Len(digests) + 1
    BY <1>0, <1>1, <1>3, <2>1 DEF Traces
  <2>3. ASSUME NEW s \in Replicas, worker'[s].pc = "emit", ~CreatePublished(s)
        PROVE  /\ j[s] \in DOMAIN digests'
               /\ digests'[j[s]] = DigestOf(s)'
               /\ \A i \in DOMAIN events' : f[i] # j[s]
    <3>1. worker[s].pc = "emit" /\ DigestOf(s)' = DigestOf(s)
      BY <2>3, EmitKept
    <3>. QED BY <1>0, <1>3, <2>1, <3>1 DEF Traces
  <2>4. CASE \E s \in Replicas : CreatePublished(s)
    <3>1. PICK s \in Replicas : CreatePublished(s)
      BY <2>4
    <3>2. /\ worker[s].pc = "createPublished" /\ worker'[s].pc = "emit"
          /\ \A q \in Replicas \ {s} : worker'[q] = worker[q]
          /\ digests' = Append(digests, DigestOf(s))
          /\ DigestOf(s)' = DigestOf(s)
      BY <1>1, <3>1 DEF CreatePublished, Goto, Worker, DigestOf, TaskOf
    <3>3. PICK n : n = Len(digests) + 1
      OBVIOUS
    <3>4. n \in DOMAIN digests' /\ digests'[n] = DigestOf(s)
      BY <3>2, <3>3, NewDigest
    <3>. DEFINE m == [j EXCEPT ![s] = n]
    <3>5. \A q \in Replicas \ {s} : ~CreatePublished(q) \/ worker'[q].pc # "emit"
      BY <1>1, <3>2, GotoKeepsTask DEF CreatePublished
    <3>6. ASSUME NEW q \in Replicas, worker'[q].pc = "emit"
          PROVE  /\ m[q] \in DOMAIN digests'
                 /\ digests'[m[q]] = DigestOf(q)'
                 /\ \A i \in DOMAIN events' : f[i] # m[q]
      <4>1. j \in [Replicas -> Nat]
        BY <1>0 DEF Traces
      <4>2. CASE q = s
        <5>1. m[q] = n
          BY <4>1, <4>2
        <5>. QED BY <2>2, <3>2, <3>3, <3>4, <4>2, <5>1
      <4>3. CASE q # s
        <5>1. m[q] = j[q]
          BY <4>1, <4>3
        <5>. QED BY <2>3, <3>5, <3>6, <4>3, <5>1
      <4>. QED BY <4>2, <4>3
    <3>7. m \in [Replicas -> Nat]
      BY <1>0, <1>1, <3>3 DEF Traces
    <3>8. Traces(f, m)'
      BY <2>2, <3>6, <3>7 DEF Traces
    <3>. QED BY <3>8 DEF TraceInv
  <2>5. CASE ~\E s \in Replicas : CreatePublished(s)
    <3>1. Traces(f, j)'
      BY <1>0, <2>2, <2>3, <2>5 DEF Traces
    <3>. QED BY <3>1 DEF TraceInv
  <2>. QED BY <2>4, <2>5
<1>4. CASE digests' = digests /\ events' = events
  <2>1. ASSUME NEW s \in Replicas, worker'[s].pc = "emit"
        PROVE  worker[s].pc = "emit" /\ DigestOf(s)' = DigestOf(s)
    <3>1. ASSUME CreatePublished(s)
          PROVE  FALSE
      <4>1. Len(digests) + 1 \in DOMAIN digests'
        BY <3>1, NewDigest DEF CreatePublished
      <4>. QED BY <1>1, <1>4, <4>1
    <3>. QED BY <2>1, <3>1, EmitKept
  <2>2. Traces(f, j)'
    BY <1>0, <1>4, <2>1 DEF Traces
  <2>. QED BY <2>2 DEF TraceInv
<1>. QED BY <1>2, <1>3, <1>4, DigestSteps, EventsSteps DEF EmitPublished

(***************************************************************************)
(* Alerts are traced to digests of their own with any number of worker     *)
(* processes, through every failure, lost reply, crash and retry.          *)
(***************************************************************************)
THEOREM EveryAlertIsOfItsDigest == Spec => []AlertsTraced
<1>1. ASSUME Init
      PROVE  TraceInv
  <2>1. DOMAIN events = {} /\ DOMAIN digests = {}
    BY <1>1, LenProperties DEF Init
  <2>. DEFINE f == [i \in {} |-> i]
              j == [r \in Replicas |-> 0]
  <2>2. f \in [DOMAIN events -> DOMAIN digests] /\ j \in [Replicas -> Nat]
    BY <2>1
  <2>3. \A r \in Replicas : worker[r].pc # "emit"
    BY <1>1 DEF Init, Free
  <2>4. Traces(f, j)
    BY <2>1, <2>2, <2>3 DEF Traces
  <2>. QED BY <2>4 DEF TraceInv
<1>2. TraceInv => AlertsTraced
  BY DEF TraceInv, Traces, AlertsTraced
<1>3. Init => TraceInv
  BY <1>1
<1>4. TypeOK /\ TraceInv /\ [Next]_vars => TraceInv'
  BY TraceStep
<1>. QED BY <1>2, <1>3, <1>4, TypeCorrect, PTL DEF Spec

(***************************************************************************)
(* README.md:28 keeps its word in a deployment with one worker process in  *)
(* which cleanups succeed and the worker neither dies nor misses the reply *)
(* of a write: no article is in two digests, whatever else fails. Without  *)
(* the first hypothesis it does not hold (a second process takes the same  *)
(* drafts), nor without the second (a retry or a rescue finds them again). *)
(***************************************************************************)
THEOREM OneDigestWithOneWorker ==
    ASSUME \A r, s \in Replicas : r = s,
           RepeatingCalls \cap FailingCalls = {}
    PROVE  Spec => []SingleDigest
<1>1. TypeOK /\ NoSelfDuplicate => SingleDigest
  <2>. SUFFICES ASSUME TypeOK, NoSelfDuplicate,
                       NEW i \in DOMAIN digests, NEW k \in DOMAIN digests, i # k
                PROVE  digests[i].sources \cap digests[k].sources = {}
    BY DEF SingleDigest
  <2>1. digests[i] \in Digest /\ digests[k] \in Digest
    BY ElementOfSeq, LenProperties DEF TypeOK
  <2>2. digests[i].by = digests[k].by
    BY <2>1 DEF Digest
  <2>. QED BY <2>2 DEF NoSelfDuplicate
<1>. QED BY <1>1, TypeCorrect, NoRepeatByOneWorker, PTL
=============================================================================
