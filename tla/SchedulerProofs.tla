--------------------------- MODULE SchedulerProofs ---------------------------
(* Theorems of the specification Scheduler for every number of processes,   *)
(* entries, retries and overruns.                                           *)
EXTENDS Scheduler, FiniteSetTheorems, TLAPS

USE DEF process, history

-----------------------------------------------------------------------------
(* What a step does to the firings *)

FiringTypeOK == firing \in [Processes -> [Entries -> Firing]]

(* Only the firing of e in p changes. *)
OnlyFiring(p, e) ==
    \A r \in Processes, d \in Entries :
        r # p \/ d # e => firing'[r][d] = firing[r][d]

LEMMA SetType ==
    ASSUME FiringTypeOK, NEW p \in Processes, NEW e \in Entries, NEW f \in Firing,
           firing' = [firing EXCEPT ![p][e] = f]
    PROVE  FiringTypeOK' /\ firing'[p][e] = f /\ OnlyFiring(p, e)
BY DEF FiringTypeOK, OnlyFiring

LEMMA GotoType ==
    ASSUME FiringTypeOK, NEW p \in Processes, NEW e \in Entries,
           NEW label \in {"none", "submitted", "acquire", "body", "backoff"},
           Goto(p, e, label)
    PROVE  /\ FiringTypeOK' /\ OnlyFiring(p, e)
           /\ firing'[p][e].pc = label
           /\ firing'[p][e].attempt = firing[p][e].attempt
<1>1. firing[p][e] \in Firing
  BY DEF FiringTypeOK
<1>2. [firing[p][e] EXCEPT !.pc = label] \in Firing
  BY <1>1 DEF Firing
<1>3. firing' = [firing EXCEPT ![p][e] = [firing[p][e] EXCEPT !.pc = label]]
  BY DEF Goto, FiringTypeOK
<1>4. /\ [firing[p][e] EXCEPT !.pc = label].pc = label
      /\ [firing[p][e] EXCEPT !.pc = label].attempt = firing[p][e].attempt
  BY <1>1 DEF Firing
<1>5. FiringTypeOK' /\ OnlyFiring(p, e)
      /\ firing'[p][e] = [firing[p][e] EXCEPT !.pc = label]
  BY <1>2, <1>3, SetType
<1>. QED BY <1>4, <1>5

LEMMA NoFiringType == NoFiring \in Firing
BY SchedulerAssumption DEF NoFiring, Firing

LEMMA EndsType ==
    ASSUME FiringTypeOK, NEW p \in Processes, NEW e \in Entries, Ends(p, e)
    PROVE  FiringTypeOK' /\ firing'[p][e] = NoFiring /\ OnlyFiring(p, e)
BY SetType, NoFiringType DEF Ends

LEMMA NextAttemptType ==
    ASSUME FiringTypeOK, NEW p \in Processes, NEW e \in Entries,
           NextAttempt(p, e), firing[p][e].attempt < MaxRetry[e] + 1
    PROVE  /\ FiringTypeOK' /\ OnlyFiring(p, e)
           /\ firing'[p][e].pc = "acquire"
           /\ firing'[p][e].attempt <= MaxRetry[e] + 1
<1>1. firing[p][e].attempt \in Nat /\ MaxRetry[e] \in Nat
  BY SchedulerAssumption DEF FiringTypeOK, Firing
<1>2. [pc |-> "acquire", attempt |-> firing[p][e].attempt + 1] \in Firing
  BY <1>1, SchedulerAssumption DEF Firing
<1>3. firing' = [firing EXCEPT ![p][e] =
                    [pc |-> "acquire", attempt |-> firing[p][e].attempt + 1]]
  BY DEF NextAttempt, FiringTypeOK
<1>4. /\ FiringTypeOK' /\ OnlyFiring(p, e)
      /\ firing'[p][e] = [pc |-> "acquire", attempt |-> firing[p][e].attempt + 1]
  <2>1. \A f \in Firing :
           firing' = [firing EXCEPT ![p][e] = f] =>
              FiringTypeOK' /\ firing'[p][e] = f /\ OnlyFiring(p, e)
    BY SetType
  <2>. QED BY <1>2, <1>3, <2>1
<1>5. firing[p][e].attempt + 1 <= MaxRetry[e] + 1
  BY <1>1
<1>. QED BY <1>4, <1>5

-----------------------------------------------------------------------------
(* The inductive invariant *)

(* The first attempt begins when a slot is free, the next one if one is left. *)
AttemptInv ==
    \A p \in Processes, e \in Entries :
        /\ PC(p, e) \in {"none", "submitted"} => firing[p][e].attempt = 0
        /\ PC(p, e) = "backoff" => firing[p][e].attempt < MaxRetry[e] + 1

(* A process that starts or has exited has no firing, one that waits for its *)
(* pool none in Submit.                                                       *)
StopInv ==
    \A p \in Processes, e \in Entries :
        /\ main[p] \in {"starting", "exited"} => PC(p, e) = "none"
        /\ main[p] = "waiting" => PC(p, e) # "submitted"

RanSomewhere(j) == j \in unanswered \/ \E p \in Processes : j \in ran[p]

(* Behind a lock, a run and a recorded success there is a run of the job, or a *)
(* SETNX without an answer.                                                    *)
RanInv ==
    /\ \A j \in Jobs : holder[j] # None => RanSomewhere(j)
    /\ \A p \in Processes, e \in Entries :
          PC(p, e) = "body" => JobOf[e] \in ran[p]
    /\ \A p \in Processes : \A j \in succeeded[p] : RanSomewhere(j)

(* The runs of a job that do not hold its lock are no more than the locks     *)
(* that expired under a run.                                                  *)
LockInv ==
    \A j \in Jobs :
        /\ IsFiniteSet(InBody(j))
        /\ j \in LockedJobs => Cardinality(InBody(j) \ {holder[j]}) <= overruns

ShapeInv == TypeOK /\ AttemptInv /\ StopInv

LEMMA FiringStep ==
    ASSUME ShapeInv, NEW p \in Processes, NEW e \in Entries,
           FiringTypeOK', OnlyFiring(p, e),
           main[p] \notin {"starting", "exited"},
           e \in registered[p],
           /\ PC(p, e)' \in {"none", "submitted"} => firing'[p][e].attempt = 0
           /\ PC(p, e)' = "backoff" => firing'[p][e].attempt < MaxRetry[e] + 1
           /\ main[p] = "waiting" => PC(p, e)' # "submitted",
           firing'[p][e].attempt <= MaxRetry[e] + 1,
           holder' \in [Jobs -> Firings \cup {None}],
           succeeded' \in [Processes -> SUBSET Jobs],
           ran' \in [Processes -> SUBSET Jobs],
           UNCHANGED <<process, unanswered, overruns>>
    PROVE  ShapeInv'
<1>1. TypeOK'
  BY DEF ShapeInv, TypeOK, FiringTypeOK, OnlyFiring, PC
<1>2. AttemptInv'
  BY DEF ShapeInv, AttemptInv, OnlyFiring, PC
<1>3. StopInv'
  BY DEF ShapeInv, StopInv, OnlyFiring, PC
<1>. QED BY <1>1, <1>2, <1>3 DEF ShapeInv

LEMMA ShapeStep ==
    ASSUME ShapeInv, [Next]_vars
    PROVE  ShapeInv'
<1>1. ASSUME NEW p \in Processes, Boot(p)
      PROVE  ShapeInv'
  BY <1>1 DEF Boot, ShapeInv, TypeOK, AttemptInv, StopInv, PC, MainLabels
<1>2. ASSUME NEW p \in Processes, RunJob(p)
      PROVE  ShapeInv'
  BY <1>2 DEF RunJob, ShapeInv, TypeOK, AttemptInv, StopInv, PC, MainLabels
<1>3. ASSUME NEW p \in Processes, StartScheduler(p)
      PROVE  ShapeInv'
  BY <1>3
     DEF StartScheduler, ShapeInv, TypeOK, AttemptInv, StopInv, PC, MainLabels
<1>4. ASSUME NEW p \in Processes, CronStopped(p)
      PROVE  ShapeInv'
  BY <1>4
     DEF CronStopped, ShapeInv, TypeOK, AttemptInv, StopInv, PC, MainLabels,
         InSubmit
<1>5. ASSUME NEW p \in Processes, PoolDrained(p)
      PROVE  ShapeInv'
  <2>1. \A e \in Entries : PC(p, e) = "none"
    BY <1>5 DEF PoolDrained, ShapeInv, TypeOK, StopInv, InPool, PC, Firing
  <2>. QED BY <1>5, <2>1
           DEF PoolDrained, ShapeInv, TypeOK, AttemptInv, StopInv, PC,
               MainLabels
<1>6. ASSUME NEW p \in Processes, Terminate(p)
      PROVE  ShapeInv'
  BY <1>6 DEF Terminate, ShapeInv, TypeOK, AttemptInv, StopInv, PC, MainLabels
<1>7. ASSUME NEW p \in Processes, Crash(p)
      PROVE  ShapeInv'
  <2>1. firing'[p] = [e \in Entries |-> NoFiring] /\ FiringTypeOK'
    BY <1>7, NoFiringType DEF Crash, ShapeInv, TypeOK, FiringTypeOK
  <2>2. \A e \in Entries : firing'[p][e].pc = "none" /\ firing'[p][e].attempt = 0
    BY <2>1 DEF NoFiring
  <2>3. \A r \in Processes \ {p} : firing'[r] = firing[r]
    BY <1>7 DEF Crash, ShapeInv, TypeOK
  <2>4. main' = [main EXCEPT ![p] = "exited"] /\ main' \in [Processes -> MainLabels]
    BY <1>7 DEF Crash, ShapeInv, TypeOK, MainLabels
  <2>5. UNCHANGED <<mode, registered, holder, succeeded, history>>
    BY <1>7 DEF Crash
  <2>9. \A e \in Entries : firing'[p][e].attempt <= MaxRetry[e] + 1
    BY <2>2, SchedulerAssumption
  <2>6. TypeOK'
    BY <2>1, <2>2, <2>3, <2>4, <2>5, <2>9 DEF ShapeInv, TypeOK, FiringTypeOK, PC
  <2>7. AttemptInv'
    BY <2>2, <2>3 DEF ShapeInv, AttemptInv, PC
  <2>8. StopInv'
    BY <2>2, <2>3, <2>4 DEF ShapeInv, TypeOK, StopInv, PC
  <2>. QED BY <2>6, <2>7, <2>8 DEF ShapeInv
<1>8. ASSUME NEW p \in Processes, NEW e \in Entries, Fire(p, e)
      PROVE  ShapeInv'
  <2>1. /\ FiringTypeOK' /\ OnlyFiring(p, e)
        /\ firing'[p][e].pc = "submitted" /\ firing'[p][e].attempt = 0 /\ main[p] = "serving"
    BY <1>8, GotoType DEF Fire, ShapeInv, AttemptInv, TypeOK, FiringTypeOK, PC
  <2>2. main[p] = "serving" /\ e \in registered[p]
    BY <1>8 DEF Fire
  <2>3. /\ holder' \in [Jobs -> Firings \cup {None}]
        /\ succeeded' \in [Processes -> SUBSET Jobs]
        /\ ran' \in [Processes -> SUBSET Jobs]
        /\ UNCHANGED <<process, unanswered, overruns>>
    BY <1>8, SchedulerAssumption DEF Fire, ShapeInv, TypeOK, Firings
  <2>4. firing'[p][e].attempt <= MaxRetry[e] + 1
    BY <2>1, SchedulerAssumption DEF NoFiring
  <2>. QED BY <2>1, <2>2, <2>3, <2>4, FiringStep DEF PC, NoFiring
<1>9. ASSUME NEW p \in Processes, NEW e \in Entries, Submit(p, e)
      PROVE  ShapeInv'
  <2>0. firing[p][e].attempt < MaxRetry[e] + 1
    BY <1>9, SchedulerAssumption DEF Submit, ShapeInv, AttemptInv, PC
  <2>1. /\ FiringTypeOK' /\ OnlyFiring(p, e)
        /\ firing'[p][e].pc = "acquire"
        /\ firing'[p][e].attempt <= MaxRetry[e] + 1
    BY <1>9, <2>0, NextAttemptType DEF Submit, ShapeInv, TypeOK, FiringTypeOK
  <2>2. main[p] \notin {"starting", "exited"} /\ e \in registered[p]
    BY <1>9 DEF Submit, ShapeInv, StopInv, TypeOK, PC
  <2>3. /\ holder' \in [Jobs -> Firings \cup {None}]
        /\ succeeded' \in [Processes -> SUBSET Jobs]
        /\ ran' \in [Processes -> SUBSET Jobs]
        /\ UNCHANGED <<process, unanswered, overruns>>
    BY <1>9, SchedulerAssumption DEF Submit, ShapeInv, TypeOK, Firings
  <2>4. firing'[p][e].attempt <= MaxRetry[e] + 1
    BY <2>1
  <2>. QED BY <2>1, <2>2, <2>3, <2>4, FiringStep DEF PC, NoFiring
<1>10. ASSUME NEW p \in Processes, NEW e \in Entries, Acquire(p, e)
      PROVE  ShapeInv'
  <2>1. /\ FiringTypeOK' /\ OnlyFiring(p, e)
        /\ firing'[p][e].pc = "body"
        /\ firing'[p][e].attempt = firing[p][e].attempt
    BY <1>10, GotoType DEF Acquire, ShapeInv, TypeOK, FiringTypeOK
  <2>2. main[p] \notin {"starting", "exited"} /\ e \in registered[p]
    BY <1>10 DEF Acquire, ShapeInv, StopInv, TypeOK, PC
  <2>3. /\ holder' \in [Jobs -> Firings \cup {None}]
        /\ succeeded' \in [Processes -> SUBSET Jobs]
        /\ ran' \in [Processes -> SUBSET Jobs]
        /\ UNCHANGED <<process, unanswered, overruns>>
    <3>1. JobOf[e] \in Jobs /\ <<p, e>> \in Firings
      BY SchedulerAssumption DEF Firings
    <3>2. ran' \in [Processes -> SUBSET Jobs]
      BY <1>10, <3>1 DEF Acquire, ShapeInv, TypeOK
    <3>3. holder' \in [Jobs -> Firings \cup {None}]
      BY <1>10, <3>1 DEF Acquire, ShapeInv, TypeOK
    <3>. QED BY <1>10, <3>2, <3>3 DEF Acquire, ShapeInv, TypeOK
  <2>4. firing'[p][e].attempt <= MaxRetry[e] + 1
    BY <2>1 DEF ShapeInv, TypeOK
  <2>. QED BY <2>1, <2>2, <2>3, <2>4, FiringStep DEF PC, NoFiring
<1>11. ASSUME NEW p \in Processes, NEW e \in Entries, Refused(p, e)
      PROVE  ShapeInv'
  <2>1. /\ FiringTypeOK' /\ OnlyFiring(p, e)
        /\ firing'[p][e] = NoFiring
    BY <1>11, EndsType DEF Refused, ShapeInv, TypeOK, FiringTypeOK
  <2>2. main[p] \notin {"starting", "exited"} /\ e \in registered[p]
    BY <1>11 DEF Refused, ShapeInv, StopInv, TypeOK, PC
  <2>3. /\ holder' \in [Jobs -> Firings \cup {None}]
        /\ succeeded' \in [Processes -> SUBSET Jobs]
        /\ ran' \in [Processes -> SUBSET Jobs]
        /\ UNCHANGED <<process, unanswered, overruns>>
    BY <1>11, SchedulerAssumption
       DEF Refused, ShapeInv, TypeOK, Skip, recordSuccess, Firings
  <2>4. firing'[p][e].attempt <= MaxRetry[e] + 1
    BY <2>1, SchedulerAssumption DEF NoFiring
  <2>. QED BY <2>1, <2>2, <2>3, <2>4, FiringStep DEF PC, NoFiring
<1>12. ASSUME NEW p \in Processes, NEW e \in Entries, Succeeds(p, e)
      PROVE  ShapeInv'
  <2>1. /\ FiringTypeOK' /\ OnlyFiring(p, e)
        /\ firing'[p][e] = NoFiring
    BY <1>12, EndsType DEF Succeeds, ShapeInv, TypeOK, FiringTypeOK
  <2>2. main[p] \notin {"starting", "exited"} /\ e \in registered[p]
    BY <1>12 DEF Succeeds, ShapeInv, StopInv, TypeOK, PC
  <2>3. /\ holder' \in [Jobs -> Firings \cup {None}]
        /\ succeeded' \in [Processes -> SUBSET Jobs]
        /\ ran' \in [Processes -> SUBSET Jobs]
        /\ UNCHANGED <<process, unanswered, overruns>>
    BY <1>12, SchedulerAssumption
       DEF Succeeds, ShapeInv, TypeOK, ReleaseLock, recordSuccess, Firings
  <2>4. firing'[p][e].attempt <= MaxRetry[e] + 1
    BY <2>1, SchedulerAssumption DEF NoFiring
  <2>. QED BY <2>1, <2>2, <2>3, <2>4, FiringStep DEF PC, NoFiring
<1>13. ASSUME NEW p \in Processes, NEW e \in Entries, Fails(p, e)
      PROVE  ShapeInv'
  <2>0. FiringTypeOK
    BY DEF ShapeInv, TypeOK, FiringTypeOK
  <2>1. /\ FiringTypeOK' /\ OnlyFiring(p, e)
        /\ \/ /\ firing'[p][e].pc = "backoff"
              /\ firing'[p][e].attempt < MaxRetry[e] + 1
           \/ firing'[p][e] = NoFiring
    BY <1>13, <2>0, GotoType, EndsType DEF Fails, AttemptsLeft, GivesUp
  <2>2. main[p] \notin {"starting", "exited"} /\ e \in registered[p]
    BY <1>13 DEF Fails, ShapeInv, StopInv, TypeOK, PC
  <2>3. /\ holder' \in [Jobs -> Firings \cup {None}]
        /\ succeeded' \in [Processes -> SUBSET Jobs]
        /\ ran' \in [Processes -> SUBSET Jobs]
        /\ UNCHANGED <<process, unanswered, overruns>>
    BY <1>13, SchedulerAssumption
       DEF Fails, ShapeInv, TypeOK, ReleaseLock, GivesUp, Firings
  <2>4. firing'[p][e].attempt <= MaxRetry[e] + 1
    BY <2>0, <2>1, SchedulerAssumption DEF NoFiring, FiringTypeOK, Firing
  <2>. QED BY <2>1, <2>2, <2>3, <2>4, FiringStep DEF PC, NoFiring
<1>14. ASSUME NEW p \in Processes, NEW e \in Entries, Retry(p, e)
      PROVE  ShapeInv'
  <2>0. firing[p][e].attempt < MaxRetry[e] + 1
    BY <1>14, SchedulerAssumption DEF Retry, ShapeInv, AttemptInv, PC
  <2>1. /\ FiringTypeOK' /\ OnlyFiring(p, e)
        /\ firing'[p][e].pc = "acquire"
        /\ firing'[p][e].attempt <= MaxRetry[e] + 1
    BY <1>14, <2>0, NextAttemptType DEF Retry, ShapeInv, TypeOK, FiringTypeOK
  <2>2. main[p] \notin {"starting", "exited"} /\ e \in registered[p]
    BY <1>14 DEF Retry, ShapeInv, StopInv, TypeOK, PC
  <2>3. /\ holder' \in [Jobs -> Firings \cup {None}]
        /\ succeeded' \in [Processes -> SUBSET Jobs]
        /\ ran' \in [Processes -> SUBSET Jobs]
        /\ UNCHANGED <<process, unanswered, overruns>>
    BY <1>14, SchedulerAssumption DEF Retry, ShapeInv, TypeOK, Firings
  <2>4. firing'[p][e].attempt <= MaxRetry[e] + 1
    BY <2>1
  <2>. QED BY <2>1, <2>2, <2>3, <2>4, FiringStep DEF PC, NoFiring
<1>15. ASSUME NEW j \in Jobs, LockExpires(j)
      PROVE  ShapeInv'
  BY <1>15, SchedulerAssumption
     DEF LockExpires, ShapeInv, TypeOK, AttemptInv, StopInv, PC
<1>16. ASSUME NEW p \in Processes, NEW e \in Entries, AcquireUnanswered(p, e)
       PROVE  ShapeInv'
  <2>1. JobOf[e] \in LockedJobs /\ JobOf[e] \in Jobs /\ <<p, e>> \in Firings
    BY <1>16, SchedulerAssumption DEF AcquireUnanswered, Firings
  <2>2. /\ holder' \in [Jobs -> Firings \cup {None}]
        /\ unanswered' \subseteq LockedJobs
        /\ UNCHANGED <<process, firing, succeeded, ran, overruns>>
    BY <1>16, <2>1 DEF AcquireUnanswered, ShapeInv, TypeOK
  <2>. QED BY <2>2 DEF ShapeInv, TypeOK, AttemptInv, StopInv, PC
<1>17. CASE UNCHANGED vars
  BY <1>17 DEF vars, ShapeInv, TypeOK, AttemptInv, StopInv, PC
<1>. QED BY <1>1, <1>2, <1>3, <1>4, <1>5, <1>6, <1>7, <1>8, <1>9, <1>10,
         <1>11, <1>12, <1>13, <1>14, <1>15, <1>16, <1>17 DEF Next, MainStep,
         JobStep

LEMMA RanStep ==
    ASSUME ShapeInv, RanInv, [Next]_vars
    PROVE  RanInv'
<1>1. ASSUME NEW p \in Processes, Boot(p)
      PROVE  RanInv'
  BY <1>1 DEF Boot, RanInv, RanSomewhere, PC, ShapeInv, TypeOK
<1>2. ASSUME NEW p \in Processes, RunJob(p)
      PROVE  RanInv'
  BY <1>2 DEF RunJob, RanInv, RanSomewhere, PC, ShapeInv, TypeOK
<1>3. ASSUME NEW p \in Processes, StartScheduler(p)
      PROVE  RanInv'
  BY <1>3 DEF StartScheduler, RanInv, RanSomewhere, PC, ShapeInv, TypeOK
<1>4. ASSUME NEW p \in Processes, CronStopped(p)
      PROVE  RanInv'
  BY <1>4 DEF CronStopped, RanInv, RanSomewhere, PC, ShapeInv, TypeOK
<1>5. ASSUME NEW p \in Processes, PoolDrained(p)
      PROVE  RanInv'
  BY <1>5 DEF PoolDrained, RanInv, RanSomewhere, PC, ShapeInv, TypeOK
<1>6. ASSUME NEW p \in Processes, Terminate(p)
      PROVE  RanInv'
  BY <1>6 DEF Terminate, RanInv, RanSomewhere, PC, ShapeInv, TypeOK
<1>7. ASSUME NEW p \in Processes, Crash(p)
      PROVE  RanInv'
  <2>1. /\ \A r \in Processes \ {p} : firing'[r] = firing[r]
        /\ \A e \in Entries : firing'[p][e].pc = "none"
        /\ UNCHANGED <<holder, succeeded, ran, unanswered>>
    BY <1>7 DEF Crash, ShapeInv, TypeOK, NoFiring
  <2>. QED BY <2>1 DEF RanInv, RanSomewhere, PC
<1>8. ASSUME NEW p \in Processes, NEW e \in Entries, Fire(p, e)
      PROVE  RanInv'
  <2>1. /\ OnlyFiring(p, e)
        /\ firing'[p][e].pc = "submitted"
    BY <1>8, GotoType DEF Fire, ShapeInv, TypeOK, FiringTypeOK
  <2>2. UNCHANGED <<holder, succeeded, ran, unanswered>>
    BY <1>8 DEF Fire
  <2>. QED BY <2>1, <2>2 DEF RanInv, RanSomewhere, OnlyFiring, PC, NoFiring
<1>9. ASSUME NEW p \in Processes, NEW e \in Entries, Submit(p, e)
      PROVE  RanInv'
  <2>0. firing[p][e].attempt < MaxRetry[e] + 1
    BY <1>9, SchedulerAssumption DEF Submit, ShapeInv, AttemptInv, PC
  <2>1. /\ OnlyFiring(p, e)
        /\ firing'[p][e].pc = "acquire"
    BY <1>9, <2>0, NextAttemptType DEF Submit, ShapeInv, TypeOK, FiringTypeOK
  <2>2. UNCHANGED <<holder, succeeded, ran, unanswered>>
    BY <1>9 DEF Submit
  <2>. QED BY <2>1, <2>2 DEF RanInv, RanSomewhere, OnlyFiring, PC, NoFiring
<1>10. ASSUME NEW p \in Processes, NEW e \in Entries, Acquire(p, e)
      PROVE  RanInv'
  <2>1. /\ OnlyFiring(p, e)
        /\ firing'[p][e].pc = "body"
    BY <1>10, GotoType DEF Acquire, ShapeInv, TypeOK, FiringTypeOK
  <2>2. /\ JobOf[e] \in Jobs /\ JobOf[e] \in ran'[p]
        /\ \A r \in Processes : ran[r] \subseteq ran'[r]
        /\ UNCHANGED <<succeeded, unanswered>>
        /\ \A j \in Jobs : holder'[j] # None => holder[j] # None \/ j = JobOf[e]
    BY <1>10, SchedulerAssumption DEF Acquire, ShapeInv, TypeOK
  <2>3. \A j \in Jobs : RanSomewhere(j) => RanSomewhere(j)'
    BY <2>2 DEF RanSomewhere
  <2>4. RanSomewhere(JobOf[e])'
    BY <2>2 DEF RanSomewhere
  <2>5. \A r \in Processes, d \in Entries :
           PC(r, d)' = "body" => PC(r, d) = "body" \/ (r = p /\ d = e)
    BY <2>1 DEF OnlyFiring, PC
  <2>. QED BY <2>2, <2>3, <2>4, <2>5 DEF RanInv, ShapeInv, TypeOK
<1>11. ASSUME NEW p \in Processes, NEW e \in Entries, Refused(p, e)
      PROVE  RanInv'
  <2>1. /\ OnlyFiring(p, e)
        /\ firing'[p][e].pc = "none"
    BY <1>11, EndsType DEF Refused, ShapeInv, TypeOK, FiringTypeOK, NoFiring
  <2>2. RanSomewhere(JobOf[e]) /\ UNCHANGED <<ran, unanswered>>
    BY <1>11, SchedulerAssumption DEF Refused, RanInv, RanSomewhere
  <2>3. \A j \in Jobs : RanSomewhere(j)' <=> RanSomewhere(j)
    BY <2>2 DEF RanSomewhere
  <2>4. \A r \in Processes : succeeded'[r] \subseteq succeeded[r] \cup {JobOf[e]}
    BY <1>11 DEF Refused, recordSuccess, ShapeInv, TypeOK
  <2>5. \A j \in Jobs : holder'[j] # None => holder[j] # None
    BY <1>11 DEF Refused, Skip, ReleaseLock, ShapeInv, TypeOK
  <2>6. \A r \in Processes, d \in Entries : PC(r, d)' = "body" => PC(r, d) = "body"
    BY <2>1 DEF OnlyFiring, PC
  <2>7. JobOf[e] \in Jobs
    BY SchedulerAssumption
  <2>. QED BY <2>2, <2>3, <2>4, <2>5, <2>6, <2>7 DEF RanInv, ShapeInv, TypeOK
<1>12. ASSUME NEW p \in Processes, NEW e \in Entries, Succeeds(p, e)
      PROVE  RanInv'
  <2>1. /\ OnlyFiring(p, e)
        /\ firing'[p][e].pc = "none"
    BY <1>12, EndsType DEF Succeeds, ShapeInv, TypeOK, FiringTypeOK, NoFiring
  <2>2. RanSomewhere(JobOf[e]) /\ UNCHANGED <<ran, unanswered>>
    BY <1>12, SchedulerAssumption DEF Succeeds, RanInv, RanSomewhere
  <2>3. \A j \in Jobs : RanSomewhere(j)' <=> RanSomewhere(j)
    BY <2>2 DEF RanSomewhere
  <2>4. \A r \in Processes : succeeded'[r] \subseteq succeeded[r] \cup {JobOf[e]}
    BY <1>12 DEF Succeeds, recordSuccess, ShapeInv, TypeOK
  <2>5. \A j \in Jobs : holder'[j] # None => holder[j] # None
    BY <1>12 DEF Succeeds, Skip, ReleaseLock, ShapeInv, TypeOK
  <2>6. \A r \in Processes, d \in Entries : PC(r, d)' = "body" => PC(r, d) = "body"
    BY <2>1 DEF OnlyFiring, PC
  <2>7. JobOf[e] \in Jobs
    BY SchedulerAssumption
  <2>. QED BY <2>2, <2>3, <2>4, <2>5, <2>6, <2>7 DEF RanInv, ShapeInv, TypeOK
<1>13. ASSUME NEW p \in Processes, NEW e \in Entries, Fails(p, e)
      PROVE  RanInv'
  <2>0. FiringTypeOK
    BY DEF ShapeInv, TypeOK, FiringTypeOK
  <2>1. /\ OnlyFiring(p, e)
        /\ firing'[p][e].pc \in {"none", "backoff"}
    BY <1>13, <2>0, GotoType, EndsType DEF Fails, GivesUp, NoFiring
  <2>2. UNCHANGED <<succeeded, ran, unanswered>>
    BY <1>13 DEF Fails, GivesUp
  <2>3. \A j \in Jobs : holder'[j] # None => holder[j] # None
    BY <1>13 DEF Fails, ReleaseLock, ShapeInv, TypeOK
  <2>. QED BY <2>1, <2>2, <2>3 DEF RanInv, RanSomewhere, OnlyFiring, PC
<1>14. ASSUME NEW p \in Processes, NEW e \in Entries, Retry(p, e)
      PROVE  RanInv'
  <2>0. firing[p][e].attempt < MaxRetry[e] + 1
    BY <1>14, SchedulerAssumption DEF Retry, ShapeInv, AttemptInv, PC
  <2>1. /\ OnlyFiring(p, e)
        /\ firing'[p][e].pc = "acquire"
    BY <1>14, <2>0, NextAttemptType DEF Retry, ShapeInv, TypeOK, FiringTypeOK
  <2>2. UNCHANGED <<holder, succeeded, ran, unanswered>>
    BY <1>14 DEF Retry
  <2>. QED BY <2>1, <2>2 DEF RanInv, RanSomewhere, OnlyFiring, PC, NoFiring
<1>15. ASSUME NEW j \in Jobs, LockExpires(j)
      PROVE  RanInv'
  BY <1>15 DEF LockExpires, RanInv, RanSomewhere, PC, ShapeInv, TypeOK
<1>16. ASSUME NEW p \in Processes, NEW e \in Entries, AcquireUnanswered(p, e)
       PROVE  RanInv'
  <2>1. /\ unanswered' = unanswered \cup {JobOf[e]}
        /\ UNCHANGED <<firing, succeeded, ran>>
        /\ \A j \in Jobs : holder'[j] # None => holder[j] # None \/ j = JobOf[e]
    BY <1>16 DEF AcquireUnanswered, ShapeInv, TypeOK
  <2>. QED BY <2>1 DEF RanInv, RanSomewhere, PC
<1>17. CASE UNCHANGED vars
  BY <1>17 DEF vars, RanInv, RanSomewhere, PC
<1>. QED BY <1>1, <1>2, <1>3, <1>4, <1>5, <1>6, <1>7, <1>8, <1>9, <1>10,
         <1>11, <1>12, <1>13, <1>14, <1>15, <1>16, <1>17 DEF Next, MainStep,
         JobStep

-----------------------------------------------------------------------------
(* The lock *)

LEMMA OneLess ==
    ASSUME NEW S, NEW x, IsFiniteSet(S)
    PROVE  /\ IsFiniteSet(S \ {x})
           /\ Cardinality(S) \in Nat /\ Cardinality(S \ {x}) \in Nat
           /\ Cardinality(S) <= Cardinality(S \ {x}) + 1
           /\ x \in S => Cardinality(S \ {x}) + 1 = Cardinality(S)
           /\ x \notin S => Cardinality(S \ {x}) = Cardinality(S)
<1>1. /\ Cardinality(S) \in Nat /\ IsFiniteSet(S \ {x})
      /\ Cardinality(S \ {x}) =
            IF x \in S THEN Cardinality(S) - 1 ELSE Cardinality(S)
  BY FS_RemoveElement, FS_CardinalityType
<1>2. Cardinality(S \ {x}) \in Nat
  BY <1>1, FS_CardinalityType
<1>. QED BY <1>1, <1>2

LEMMA OtherBody ==
    ASSUME NEW p \in Processes, NEW e \in Entries, OnlyFiring(p, e),
           NEW j \in Jobs, j # JobOf[e]
    PROVE  InBody(j)' = InBody(j)
BY DEF OnlyFiring, InBody, PC, Firings

LEMMA SameBody ==
    ASSUME NEW p \in Processes, NEW e \in Entries, OnlyFiring(p, e),
           NEW j \in Jobs, j = JobOf[e]
    PROVE  InBody(j)' = IF firing'[p][e].pc = "body"
                        THEN InBody(j) \cup {<<p, e>>}
                        ELSE InBody(j) \ {<<p, e>>}
<1>1. <<p, e>> \in InBody(j)' <=> firing'[p][e].pc = "body"
  BY DEF InBody, PC, Firings
<1>2. ASSUME NEW f \in Firings, f # <<p, e>>
      PROVE  f \in InBody(j)' <=> f \in InBody(j)
  BY <1>2 DEF OnlyFiring, InBody, PC, Firings
<1>3. InBody(j) \subseteq Firings /\ InBody(j)' \subseteq Firings
  BY DEF InBody
<1>. QED BY <1>1, <1>2, <1>3

LEMMA QuietBody ==
    ASSUME LockInv, NEW p \in Processes, NEW e \in Entries, OnlyFiring(p, e),
           PC(p, e) # "body", firing'[p][e].pc # "body",
           UNCHANGED <<holder, overruns>>
    PROVE  LockInv'
<1>1. ASSUME NEW j \in Jobs
      PROVE  InBody(j)' = InBody(j)
  <2>1. CASE j = JobOf[e]
    <3>1. <<p, e>> \notin InBody(j)
      BY DEF InBody
    <3>2. InBody(j)' = InBody(j) \ {<<p, e>>}
      BY <2>1, SameBody
    <3>. QED BY <3>1, <3>2
  <2>2. CASE j # JobOf[e]
    BY <2>2, OtherBody
  <2>. QED BY <2>1, <2>2
<1>. QED BY <1>1 DEF LockInv

(* A run that ends deletes the key, which may be that of a run that started   *)
(* when its own had expired: that one joins the runs without a lock, of which *)
(* the run that ends was one.                                                 *)
LEMMA LeaveBody ==
    ASSUME ShapeInv, LockInv, NEW p \in Processes, NEW e \in Entries,
           OnlyFiring(p, e), PC(p, e) = "body", firing'[p][e].pc # "body",
           ReleaseLock(JobOf[e]), UNCHANGED overruns
    PROVE  LockInv'
<1>1. SUFFICES ASSUME NEW j \in Jobs
               PROVE  /\ IsFiniteSet(InBody(j)')
                      /\ j \in LockedJobs =>
                            Cardinality(InBody(j)' \ {holder'[j]}) <= overruns
  BY DEF LockInv
<1>2. CASE j # JobOf[e]
  <2>1. holder'[j] = holder[j] /\ InBody(j)' = InBody(j)
    BY <1>2, OtherBody DEF ReleaseLock, ShapeInv, TypeOK
  <2>. QED BY <2>1 DEF LockInv
<1>3. CASE j = JobOf[e]
  <2>1. InBody(j)' = InBody(j) \ {<<p, e>>} /\ <<p, e>> \in InBody(j)
    BY <1>3, SameBody DEF InBody, Firings
  <2>2. /\ IsFiniteSet(InBody(j))
        /\ IsFiniteSet(InBody(j) \ {<<p, e>>})
        /\ Cardinality(InBody(j) \ {<<p, e>>}) + 1 = Cardinality(InBody(j))
        /\ Cardinality(InBody(j) \ {<<p, e>>}) \in Nat
    <3>1. IsFiniteSet(InBody(j))
      BY DEF LockInv
    <3>. QED BY <2>1, <3>1, OneLess
  <2>3. ASSUME j \in LockedJobs
        PROVE  Cardinality(InBody(j)' \ {holder'[j]}) <= overruns
    <3>1. holder'[j] = None \/ holder'[j] = holder[j]
      BY <1>3, <2>3 DEF ReleaseLock, ShapeInv, TypeOK
    <3>2. None \notin InBody(j)
      BY SchedulerAssumption DEF InBody
    <3>4. /\ Cardinality(InBody(j)) <= Cardinality(InBody(j) \ {holder[j]}) + 1
          /\ Cardinality(InBody(j) \ {holder[j]}) \in Nat
      BY <2>2, OneLess
    <3>5. Cardinality(InBody(j) \ {holder[j]}) <= overruns /\ overruns \in Nat
      <4>1. Cardinality(InBody(j) \ {holder[j]}) <= overruns
        BY <2>3 DEF LockInv
      <4>2. overruns \in Nat
        BY SchedulerAssumption DEF ShapeInv, TypeOK
      <4>. QED BY <4>1, <4>2
    <3>6. Cardinality(InBody(j) \ {<<p, e>>}) <= overruns
      BY <2>2, <3>4, <3>5
    <3>7. CASE holder'[j] = None
      <4>1. InBody(j)' \ {holder'[j]} = InBody(j) \ {<<p, e>>}
        BY <2>1, <3>2, <3>7
      <4>. QED BY <3>6, <4>1
    <3>8. CASE holder'[j] = holder[j]
      <4>1. /\ InBody(j)' \ {holder'[j]} \in SUBSET (InBody(j) \ {<<p, e>>})
            /\ InBody(j)' \ {holder'[j]} \subseteq InBody(j) \ {<<p, e>>}
        BY <2>1
      <4>2. /\ Cardinality(InBody(j)' \ {holder'[j]}) <= Cardinality(InBody(j) \ {<<p, e>>})
            /\ Cardinality(InBody(j)' \ {holder'[j]}) \in Nat
        BY <2>2, <4>1, FS_Subset, FS_CardinalityType
      <4>. QED BY <2>2, <3>5, <3>6, <4>2
    <3>. QED BY <3>1, <3>7, <3>8
  <2>4. IsFiniteSet(InBody(j)')
    BY <2>1, <2>2
  <2>. QED BY <2>3, <2>4
<1>. QED BY <1>2, <1>3

LEMMA LockStep ==
    ASSUME ShapeInv, LockInv, [Next]_vars
    PROVE  LockInv'
<1>1. ASSUME NEW p \in Processes, Boot(p)
      PROVE  LockInv'
  <2>1. UNCHANGED <<firing, holder, overruns>>
    BY <1>1 DEF Boot
  <2>. QED BY <2>1 DEF LockInv, InBody, PC
<1>2. ASSUME NEW p \in Processes, RunJob(p)
      PROVE  LockInv'
  <2>1. UNCHANGED <<firing, holder, overruns>>
    BY <1>2 DEF RunJob
  <2>. QED BY <2>1 DEF LockInv, InBody, PC
<1>3. ASSUME NEW p \in Processes, StartScheduler(p)
      PROVE  LockInv'
  <2>1. UNCHANGED <<firing, holder, overruns>>
    BY <1>3 DEF StartScheduler
  <2>. QED BY <2>1 DEF LockInv, InBody, PC
<1>4. ASSUME NEW p \in Processes, CronStopped(p)
      PROVE  LockInv'
  <2>1. UNCHANGED <<firing, holder, overruns>>
    BY <1>4 DEF CronStopped
  <2>. QED BY <2>1 DEF LockInv, InBody, PC
<1>5. ASSUME NEW p \in Processes, PoolDrained(p)
      PROVE  LockInv'
  <2>1. UNCHANGED <<firing, holder, overruns>>
    BY <1>5 DEF PoolDrained
  <2>. QED BY <2>1 DEF LockInv, InBody, PC
<1>6. ASSUME NEW p \in Processes, Terminate(p)
      PROVE  LockInv'
  <2>1. UNCHANGED <<firing, holder, overruns>>
    BY <1>6 DEF Terminate
  <2>. QED BY <2>1 DEF LockInv, InBody, PC
<1>7. ASSUME NEW p \in Processes, Crash(p)
      PROVE  LockInv'
  <2>1. /\ \A r \in Processes \ {p} : firing'[r] = firing[r]
        /\ \A e \in Entries : firing'[p][e].pc = "none"
        /\ UNCHANGED <<holder, overruns>>
    BY <1>7 DEF Crash, ShapeInv, TypeOK, NoFiring
  <2>2. \A j \in Jobs : InBody(j)' \subseteq InBody(j)
    BY <2>1 DEF InBody, PC, Firings
  <2>3. SUFFICES ASSUME NEW j \in Jobs
                 PROVE  /\ IsFiniteSet(InBody(j)')
                        /\ j \in LockedJobs =>
                              Cardinality(InBody(j)' \ {holder[j]}) <= overruns
    BY <2>1 DEF LockInv
  <2>4. IsFiniteSet(InBody(j)')
    BY <2>2, FS_Subset DEF LockInv
  <2>5. /\ InBody(j)' \ {holder[j]} \in SUBSET (InBody(j) \ {holder[j]})
        /\ IsFiniteSet(InBody(j) \ {holder[j]})
    BY <2>2, FS_RemoveElement DEF LockInv
  <2>6. ASSUME j \in LockedJobs
        PROVE  Cardinality(InBody(j)' \ {holder[j]}) <= overruns
    <3>1. Cardinality(InBody(j)' \ {holder[j]}) <= Cardinality(InBody(j) \ {holder[j]})
      BY <2>5, FS_Subset
    <3>2. Cardinality(InBody(j) \ {holder[j]}) <= overruns
      BY <2>6 DEF LockInv
    <3>3. /\ IsFiniteSet(InBody(j)' \ {holder[j]})
          /\ overruns \in Nat
      BY <2>5, FS_Subset, SchedulerAssumption DEF ShapeInv, TypeOK
    <3>4. /\ Cardinality(InBody(j)' \ {holder[j]}) \in Nat
          /\ Cardinality(InBody(j) \ {holder[j]}) \in Nat
      BY <2>5, <3>3, FS_CardinalityType
    <3>. QED BY <3>1, <3>2, <3>3, <3>4
  <2>. QED BY <2>4, <2>6
<1>8. ASSUME NEW p \in Processes, NEW e \in Entries, Fire(p, e)
      PROVE  LockInv'
  <2>1. /\ OnlyFiring(p, e)
        /\ firing'[p][e].pc = "submitted"
    BY <1>8, GotoType DEF Fire, ShapeInv, TypeOK, FiringTypeOK
  <2>2. UNCHANGED <<holder, overruns>> /\ PC(p, e) # "body"
    BY <1>8 DEF Fire
  <2>. QED BY <2>1, <2>2, QuietBody DEF PC, NoFiring
<1>9. ASSUME NEW p \in Processes, NEW e \in Entries, Submit(p, e)
      PROVE  LockInv'
  <2>0. firing[p][e].attempt < MaxRetry[e] + 1
    BY <1>9, SchedulerAssumption DEF Submit, ShapeInv, AttemptInv, PC
  <2>1. /\ OnlyFiring(p, e)
        /\ firing'[p][e].pc = "acquire"
    BY <1>9, <2>0, NextAttemptType DEF Submit, ShapeInv, TypeOK, FiringTypeOK
  <2>2. UNCHANGED <<holder, overruns>> /\ PC(p, e) # "body"
    BY <1>9 DEF Submit
  <2>. QED BY <2>1, <2>2, QuietBody DEF PC, NoFiring
<1>10. ASSUME NEW p \in Processes, NEW e \in Entries, Acquire(p, e)
      PROVE  LockInv'
  <2>1. OnlyFiring(p, e) /\ firing'[p][e].pc = "body"
    BY <1>10, GotoType DEF Acquire, ShapeInv, TypeOK, FiringTypeOK
  <2>2. <<p, e>> \in Firings /\ firing[p][e].pc = "acquire" /\ overruns' = overruns
    BY <1>10 DEF Acquire, Firings, PC
  <2>3. SUFFICES ASSUME NEW j \in Jobs
                 PROVE  /\ IsFiniteSet(InBody(j)')
                        /\ j \in LockedJobs =>
                              Cardinality(InBody(j)' \ {holder'[j]}) <= overruns
    BY <2>2 DEF LockInv
  <2>4. CASE j # JobOf[e]
    <3>1. InBody(j)' = InBody(j)
      BY <2>1, <2>2, <2>4, OtherBody
    <3>2. holder'[j] = holder[j]
      BY <1>10, <2>4 DEF Acquire, ShapeInv, TypeOK
    <3>. QED BY <3>1, <3>2 DEF LockInv
  <2>5. CASE j = JobOf[e]
    <3>1. InBody(j)' = InBody(j) \cup {<<p, e>>} /\ <<p, e>> \notin InBody(j)
      BY <2>1, <2>2, <2>5, SameBody DEF InBody, PC
    <3>2. IsFiniteSet(InBody(j)')
      BY <3>1, FS_AddElement DEF LockInv
    <3>3. ASSUME j \in LockedJobs
          PROVE  Cardinality(InBody(j)' \ {holder'[j]}) <= overruns
      <4>1. holder[j] = None /\ holder'[j] = <<p, e>>
        BY <1>10, <2>5, <3>3 DEF Acquire, ShapeInv, TypeOK
      <4>2. None \notin InBody(j)
        BY SchedulerAssumption DEF InBody
      <4>3. InBody(j)' \ {holder'[j]} = InBody(j) \ {holder[j]}
        BY <3>1, <4>1, <4>2
      <4>. QED BY <3>3, <4>3 DEF LockInv
    <3>. QED BY <3>2, <3>3
  <2>. QED BY <2>4, <2>5
<1>11. ASSUME NEW p \in Processes, NEW e \in Entries, Refused(p, e)
      PROVE  LockInv'
  <2>1. /\ OnlyFiring(p, e)
        /\ firing'[p][e].pc = "none"
    BY <1>11, EndsType DEF Refused, NoFiring, ShapeInv, TypeOK, FiringTypeOK
  <2>2. UNCHANGED <<holder, overruns>> /\ PC(p, e) # "body"
    BY <1>11 DEF Refused, Skip
  <2>. QED BY <2>1, <2>2, QuietBody DEF PC, NoFiring
<1>12. ASSUME NEW p \in Processes, NEW e \in Entries, Succeeds(p, e)
      PROVE  LockInv'
  <2>1. OnlyFiring(p, e) /\ firing'[p][e].pc # "body"
    BY <1>12, EndsType DEF Succeeds, NoFiring, ShapeInv, TypeOK, FiringTypeOK
  <2>. QED BY <1>12, <2>1, LeaveBody DEF Succeeds
<1>13. ASSUME NEW p \in Processes, NEW e \in Entries, Fails(p, e)
      PROVE  LockInv'
  <2>0. FiringTypeOK
    BY DEF ShapeInv, TypeOK, FiringTypeOK
  <2>1. /\ OnlyFiring(p, e)
        /\ firing'[p][e].pc # "body"
    BY <1>13, <2>0, GotoType, EndsType DEF Fails, GivesUp, NoFiring
  <2>2. CASE PC(p, e) = "body" /\ ReleaseLock(JobOf[e])
    BY <1>13, <2>1, <2>2, LeaveBody DEF Fails
  <2>3. CASE PC(p, e) = "acquire" /\ UNCHANGED holder
    BY <1>13, <2>1, <2>3, QuietBody DEF Fails, PC
  <2>. QED BY <1>13, <2>2, <2>3 DEF Fails
<1>14. ASSUME NEW p \in Processes, NEW e \in Entries, Retry(p, e)
      PROVE  LockInv'
  <2>0. firing[p][e].attempt < MaxRetry[e] + 1
    BY <1>14, SchedulerAssumption DEF Retry, ShapeInv, AttemptInv, PC
  <2>1. /\ OnlyFiring(p, e)
        /\ firing'[p][e].pc = "acquire"
    BY <1>14, <2>0, NextAttemptType DEF Retry, ShapeInv, TypeOK, FiringTypeOK
  <2>2. UNCHANGED <<holder, overruns>> /\ PC(p, e) # "body"
    BY <1>14 DEF Retry
  <2>. QED BY <2>1, <2>2, QuietBody DEF PC, NoFiring
<1>15. ASSUME NEW j \in Jobs, LockExpires(j)
      PROVE  LockInv'
  <2>1. /\ UNCHANGED firing
        /\ \A k \in Jobs \ {j} : holder'[k] = holder[k]
        /\ holder'[j] = None
    BY <1>15 DEF LockExpires, ShapeInv, TypeOK
  <2>2. overruns \in Nat /\ overruns' \in Nat /\ overruns <= overruns'
    BY <1>15, SchedulerAssumption DEF LockExpires, ShapeInv, TypeOK
  <2>3. \A k \in Jobs : InBody(k)' = InBody(k)
    BY <2>1 DEF InBody, PC
  <2>4. SUFFICES ASSUME NEW k \in Jobs, k \in LockedJobs
                 PROVE  Cardinality(InBody(k) \ {holder'[k]}) <= overruns'
    BY <2>3 DEF LockInv
  <2>5. /\ IsFiniteSet(InBody(k))
        /\ Cardinality(InBody(k) \ {holder[k]}) <= overruns
    BY <2>4 DEF LockInv
  <2>6. /\ Cardinality(InBody(k)) \in Nat
        /\ Cardinality(InBody(k) \ {holder[k]}) \in Nat
        /\ Cardinality(InBody(k)) <= Cardinality(InBody(k) \ {holder[k]}) + 1
        /\ holder[k] \notin InBody(k) =>
              Cardinality(InBody(k) \ {holder[k]}) = Cardinality(InBody(k))
    BY <2>5, OneLess
  <2>7. CASE k # j
    <3>1. Cardinality(InBody(k) \ {holder[k]}) \in Int
      BY <2>6
    <3>. QED BY <2>1, <2>2, <2>5, <2>7, <3>1
  <2>8. CASE k = j
    <3>1. InBody(k) \ {holder'[k]} = InBody(k)
      BY <2>1, <2>8, SchedulerAssumption DEF InBody
    <3>2. holder[k] \in InBody(k) => overruns' = overruns + 1
      BY <1>15, <2>8 DEF LockExpires, InLockedBody, InBody
    <3>. QED BY <2>2, <2>5, <2>6, <3>1, <3>2
  <2>. QED BY <2>7, <2>8
<1>16. ASSUME NEW p \in Processes, NEW e \in Entries, AcquireUnanswered(p, e)
       PROVE  LockInv'
  <2>1. /\ UNCHANGED <<firing, overruns>>
        /\ JobOf[e] \in Jobs /\ holder[JobOf[e]] = None
        /\ holder' = [holder EXCEPT ![JobOf[e]] = <<p, e>>]
    BY <1>16, SchedulerAssumption DEF AcquireUnanswered
  <2>2. /\ holder'[JobOf[e]] = <<p, e>>
        /\ \A j \in Jobs \ {JobOf[e]} : holder'[j] = holder[j]
    BY <2>1 DEF ShapeInv, TypeOK
  <2>3. \A j \in Jobs : InBody(j)' = InBody(j)
    BY <2>1 DEF InBody, PC
  <2>4. <<p, e>> \notin InBody(JobOf[e]) /\ None \notin InBody(JobOf[e])
    BY <1>16, SchedulerAssumption DEF AcquireUnanswered, InBody, PC
  <2>5. InBody(JobOf[e]) \ {<<p, e>>} = InBody(JobOf[e]) \ {None}
    BY <2>4
  <2>6. ASSUME NEW j \in Jobs
        PROVE  InBody(j)' \ {holder'[j]} = InBody(j) \ {holder[j]}
    BY <2>1, <2>2, <2>3, <2>5
  <2>. QED BY <2>1, <2>3, <2>6 DEF LockInv
<1>17. CASE UNCHANGED vars
  BY <1>17 DEF vars, LockInv, InBody, PC
<1>. QED BY <1>1, <1>2, <1>3, <1>4, <1>5, <1>6, <1>7, <1>8, <1>9, <1>10,
         <1>11, <1>12, <1>13, <1>14, <1>15, <1>16, <1>17 DEF Next, MainStep,
         JobStep

-----------------------------------------------------------------------------
(* Theorems *)

IInv == ShapeInv /\ RanInv /\ LockInv

LEMMA IInvInit == ASSUME Init PROVE IInv
<1>1. TypeOK
  <2>1. firing \in [Processes -> [Entries -> Firing]]
    BY NoFiringType DEF Init
  <2>2. \A p \in Processes, e \in Entries : firing[p][e].pc = "none"
    BY DEF Init, NoFiring
  <2>3. overruns \in 0..MaxOverruns
    BY SchedulerAssumption DEF Init
  <2>4. \A p \in Processes, e \in Entries : firing[p][e].attempt <= MaxRetry[e] + 1
    BY SchedulerAssumption DEF Init, NoFiring
  <2>. QED BY <2>1, <2>2, <2>3, <2>4 DEF Init, TypeOK, MainLabels
<1>2. AttemptInv /\ StopInv
  BY DEF Init, AttemptInv, StopInv, PC, NoFiring
<1>3. RanInv
  BY DEF Init, RanInv, PC, NoFiring
<1>4. LockInv
  <2>1. \A j \in Jobs : InBody(j) = {}
    BY DEF Init, InBody, PC, NoFiring, Firings
  <2>2. \A j \in Jobs : InBody(j) \ {holder[j]} = {}
    BY <2>1
  <2>3. overruns = 0
    BY DEF Init
  <2>. QED BY <2>1, <2>2, <2>3, FS_EmptySet DEF LockInv
<1>. QED BY <1>1, <1>2, <1>3, <1>4 DEF IInv, ShapeInv

LEMMA IInvStep == ASSUME IInv, [Next]_vars PROVE IInv'
BY ShapeStep, RanStep, LockStep DEF IInv

LEMMA IInvAlways == Spec => []IInv
BY IInvInit, IInvStep, PTL DEF Spec

(* Only a registered entry has a firing, and a firing no more attempts than   *)
(* MaxRetry + 1 (scheduler.go:84-140).                                        *)
THEOREM SchedulerTypes == Spec => []TypeOK
BY IInvAlways, PTL DEF IInv, ShapeInv

(* A process that has exited through Stop leaves no firing behind             *)
(* (scheduler.go:186-190).                                                    *)
THEOREM StopLeavesNothing == Spec => []StopIsClean
<1>1. IInv => StopIsClean
  BY DEF IInv, ShapeInv, StopInv, StopIsClean, InSubmit, InPool
<1>. QED BY <1>1, IInvAlways, PTL

(* A success stands for a run of the job, or for a SETNX that was done and     *)
(* never answered (article_fetch.go:54-61, scheduler.go:157-168).              *)
THEOREM SuccessesWereRun == Spec => []SuccessMeansRun
<1>1. ASSUME IInv, NEW p \in Processes, NEW j \in succeeded[p]
      PROVE  j \in (UNION {ran[q] : q \in Processes}) \cup unanswered
  <2>1. RanSomewhere(j)
    BY <1>1 DEF IInv, RanInv
  <2>2. CASE j \in unanswered
    BY <2>2
  <2>3. CASE \E q \in Processes : j \in ran[q]
    <3>1. PICK q \in Processes : j \in ran[q]
      BY <2>3
    <3>2. ran[q] \in {ran[r] : r \in Processes}
      OBVIOUS
    <3>. QED BY <3>1, <3>2
  <2>. QED BY <2>1, <2>2, <2>3 DEF RanSomewhere
<1>2. IInv => SuccessMeansRun
  BY <1>1 DEF SuccessMeansRun
<1>. QED BY <1>2, IInvAlways, PTL

(* The runs of a job overlap no more than locks expired under a run: deleting *)
(* the lock of another run changes its holder, not their number               *)
(* (lock.go:10-17, article_fetch.go:54-62).                                   *)
THEOREM LockKeepsApart == Spec => []OneMorePerOverrun
<1>1. ASSUME IInv, NEW j \in LockedJobs
      PROVE  Cardinality(InBody(j)) <= 1 + overruns
  <2>1. /\ IsFiniteSet(InBody(j))
        /\ Cardinality(InBody(j) \ {holder[j]}) <= overruns
    BY <1>1, SchedulerAssumption DEF IInv, LockInv
  <2>2. /\ Cardinality(InBody(j)) \in Nat
        /\ Cardinality(InBody(j) \ {holder[j]}) \in Nat
        /\ Cardinality(InBody(j)) <= Cardinality(InBody(j) \ {holder[j]}) + 1
    BY <2>1, OneLess
  <2>3. overruns \in Nat
    BY <1>1, SchedulerAssumption DEF IInv, ShapeInv, TypeOK
  <2>. QED BY <2>1, <2>2, <2>3
<1>2. IInv => OneMorePerOverrun
  BY <1>1 DEF OneMorePerOverrun
<1>. QED BY <1>2, IInvAlways, PTL
=============================================================================
