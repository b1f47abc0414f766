---------------------------- MODULE MCScheduler ----------------------------
(* Instances of Scheduler for TLC. *)
EXTENDS Scheduler, TLC

(* One entry for a job without a lock, the others for one job with a lock. *)
Morning == CHOOSE f \in [Entries -> Jobs] :
              /\ \E e \in Entries : \A d \in Entries : f[d] \in LockedJobs <=> d # e
              /\ \A d, e \in Entries :
                    f[d] \in LockedJobs /\ f[e] \in LockedJobs => f[d] = f[e]

(* One entry of the job with a lock is retried, once; the others are not. *)
OneRetried == LET retried == CHOOSE e \in Entries : Morning[e] \in LockedJobs
              IN [e \in Entries |-> IF e = retried THEN 1 ELSE 0]
=============================================================================
