----------------------------- MODULE Synthesizer -----------------------------
(***************************************************************************)
(* The calls of the queue worker to Gemini (internal/core/ai/gemini.go):   *)
(* ExtractFact and SynthesizeFromFacts behind the rate limiter of their    *)
(* process, with the timeouts and the fallback model. The queue worker is  *)
(* one goroutine and makes one call at a time; its context is Background   *)
(* (cmd/worker/main.go:70) and never ends.                                 *)
(*                                                                         *)
(* Time is what is left of each timer. Timers fire when they are due.      *)
(***************************************************************************)
EXTENDS Naturals

CONSTANTS
    Workers,      \* worker processes
    Minute,       \* units of time in a minute
    RpmLimit      \* GEMINI_RPM_LIMIT, 12 by default

ASSUME SynthesizerAssumption ==
    /\ Minute \in Nat \ {0}
    /\ RpmLimit \in Nat \ {0}

(* rate.Every(minute / rpm) *)
Interval == Minute \div RpmLimit

VARIABLES
    pc,      \* pc[w]: "idle", "wait" for the limiter, "call" to Gemini
    model,   \* model[w]: the model that is asked
    token,   \* token[w]: time until the limiter has a token that nobody reserved
    delay,   \* delay[w]: what is left of limiter.Wait
    left,    \* left[w]: what is left of the timeout of the call
    result,  \* result[w]: what the last call of the queue worker returned
    ago,     \* auxiliary: time since the last request, Interval when longer,
    busy     \* time since the worker's call, until the fallback is asked

vars == <<pc, model, token, delay, left, result, ago, busy>>

(* Where busy stops counting: one more than it ever should. *)
MaxBusy == Interval + 2 * Minute + 1

Models == {"fact", "pro", "fallback"}

(* What Gemini may answer. *)
Answers == {"json", "text", "empty", "error"}

(* No timer runs longer than it was set to. *)
TypeOK ==
    /\ pc \in [Workers -> {"idle", "wait", "call"}]
    /\ model \in [Workers -> Models]
    /\ token \in [Workers -> 0..(2 * Interval)]
    /\ delay \in [Workers -> 0..Interval]
    /\ left \in [Workers -> 0..(2 * Minute)]
    /\ result \in [Workers -> {"none", "fact", "digest", "error"}]
    /\ ago \in [Workers -> 0..Interval]
    /\ busy \in [Workers -> 0..MaxBusy]

-----------------------------------------------------------------------------
(* Seeded fault: the call is made at once. *)
ReserveNothing(w) ==
    /\ delay' = [delay EXCEPT ![w] = 0]
    /\ UNCHANGED token

(* limiter.Wait: a bucket of one token, refilled every Interval. *)
Reserve(w) ==
    /\ delay' = [delay EXCEPT ![w] = token[w]]
    /\ token' = [token EXCEPT ![w] = @ + Interval]

Ask(w, m) ==
    /\ pc' = [pc EXCEPT ![w] = "wait"]
    /\ model' = [model EXCEPT ![w] = m]
    /\ Reserve(w)

Return(w, res) ==
    /\ pc' = [pc EXCEPT ![w] = "idle"]
    /\ result' = [result EXCEPT ![w] = res]
    /\ busy' = [busy EXCEPT ![w] = 0]

(* ExtractFact, or SynthesizeFromFacts. *)
Begin(w, m) ==
    /\ pc[w] = "idle"
    /\ m \in {"fact", "pro"}
    /\ Ask(w, m)
    /\ result' = [result EXCEPT ![w] = "none"]
    /\ UNCHANGED <<left, ago, busy>>

(* Seeded fault: a fact has the timeout of a synthesis. *)
TimeoutSame(m) == 2 * Minute

(* Seeded fault: the timeout of a synthesis is that of two attempts. *)
TimeoutTwice(m) == IF m = "fact" THEN Minute ELSE 4 * Minute

Timeout(m) == IF m = "fact" THEN Minute ELSE 2 * Minute

(* GenerateContent with its timeout; the fallback has none. *)
Request(w) ==
    /\ pc[w] = "wait"
    /\ delay[w] = 0
    /\ pc' = [pc EXCEPT ![w] = "call"]
    /\ left' = [left EXCEPT ![w] = Timeout(model[w])]
    /\ ago' = [ago EXCEPT ![w] = 0]
    /\ busy' = [busy EXCEPT ![w] = IF model[w] = "fallback" THEN 0 ELSE @]
    /\ UNCHANGED <<model, token, delay, result>>

(* A fact must be JSON. *)
AnswerFact(w, answer) ==
    /\ pc[w] = "call" /\ model[w] = "fact"
    /\ Return(w, IF answer = "json" THEN "fact" ELSE "error")
    /\ UNCHANGED <<model, token, delay, left, ago>>

(* parseResponse makes a digest of any answer, be it "No content generated".*)
AnswerDigest(w, answer) ==
    /\ pc[w] = "call" /\ model[w] # "fact"
    /\ answer # "error"
    /\ Return(w, "digest")
    /\ UNCHANGED <<model, token, delay, left, ago>>

(* An error of the pro model, its timeout included, leads to the fallback,  *)
(* an error of the fallback to the retry of the task.                       *)
ProFails(w) ==
    /\ Ask(w, "fallback")
    /\ UNCHANGED <<left, result, ago, busy>>

AnswerError(w) ==
    /\ pc[w] = "call" /\ model[w] # "fact"
    /\ \/ model[w] = "pro" /\ ProFails(w)
       \/ /\ model[w] = "fallback"
          /\ Return(w, "error")
          /\ UNCHANGED <<model, token, delay, left, ago>>

(* Seeded fault: only a synthesis has a timeout. *)
ExpiresForPro(w) == pc[w] = "call" /\ left[w] = 0 /\ model[w] = "pro"

Expires(w) == pc[w] = "call" /\ left[w] = 0 /\ model[w] # "fallback"

(* DeadlineExceeded *)
Expire(w) ==
    /\ Expires(w)
    /\ \/ /\ model[w] = "fact"
          /\ Return(w, "error")
          /\ UNCHANGED <<model, token, delay, left, ago>>
       \/ model[w] = "pro" /\ ProFails(w)

Less(timer) == [w \in Workers |-> IF timer[w] > 0 THEN timer[w] - 1 ELSE 0]

(* The worker's call is neither over nor with the fallback. *)
Busy(w) == pc[w] = "wait" \/ (pc[w] = "call" /\ model[w] # "fallback")

(* No timer that is due is passed over. *)
Tick ==
    /\ \A w \in Workers : ~Expires(w) /\ ~(pc[w] = "wait" /\ delay[w] = 0)
    /\ token' = Less(token)
    /\ delay' = Less(delay)
    /\ left' = Less(left)
    /\ ago' = [w \in Workers |-> IF ago[w] < Interval THEN ago[w] + 1 ELSE Interval]
    /\ busy' = [w \in Workers |->
                   IF Busy(w) /\ busy[w] < MaxBusy THEN busy[w] + 1 ELSE busy[w]]
    /\ UNCHANGED <<pc, model, result>>

-----------------------------------------------------------------------------
Init ==
    /\ pc = [w \in Workers |-> "idle"]
    /\ model = [w \in Workers |-> "fact"]
    /\ token = [w \in Workers |-> 0]
    /\ delay = [w \in Workers |-> 0]
    /\ left = [w \in Workers |-> 0]
    /\ result = [w \in Workers |-> "none"]
    /\ ago = [w \in Workers |-> Interval]
    /\ busy = [w \in Workers |-> 0]

Next ==
    \/ \E w \in Workers :
          \/ \E m \in {"fact", "pro"} : Begin(w, m)
          \/ Request(w)
          \/ \E answer \in Answers : AnswerFact(w, answer) \/ AnswerDigest(w, answer)
          \/ AnswerError(w)
          \/ Expire(w)
    \/ Tick

Spec == Init /\ [][Next]_vars

(* Timers fire and time goes on; Gemini need not answer. *)
FairSpec ==
    /\ Spec
    /\ \A w \in Workers : WF_vars(Request(w)) /\ WF_vars(Expire(w))
    /\ WF_vars(Tick)

-----------------------------------------------------------------------------
(* Properties *)

(***************************************************************************)
(* Between two requests of a process lies at least a minute divided by     *)
(* GEMINI_RPM_LIMIT, whichever models they are for: the fallback of a call *)
(* that failed at once and the retry of a task wait like any other         *)
(* (gemini.go:92, 205, 227 and 251).                                       *)
(***************************************************************************)
Spaced ==
    [][\A w \in Workers :
          pc[w] = "wait" /\ pc'[w] = "call" => ago[w] = Interval]_vars

(***************************************************************************)
(* However its calls follow and fail, a fact is there or given up within a *)
(* minute and one wait for the limiter, and a synthesis is there, or with  *)
(* the fallback, within two minutes and one wait: the second wait of a     *)
(* synthesis, after an error of the pro model, goes on while the timeout   *)
(* would have run (gemini.go:205-230 and 251-255).                         *)
(***************************************************************************)
InTime ==
    \A w \in Workers :
        /\ busy[w] <= Interval + 2 * Minute
        /\ model[w] = "fact" => busy[w] <= Interval + Minute

(***************************************************************************)
(* Whatever Gemini does, a fact is returned or given up, and a synthesis   *)
(* gets a digest or as far as asking the fallback, also when the pro model *)
(* never answers: without that the queue worker of the process would stop  *)
(* (gemini.go:210-230 and 255). Only the fallback has no timeout.          *)
(***************************************************************************)
OnlyFallbackHangs ==
    \A w \in Workers :
        /\ pc[w] # "idle" /\ model[w] = "fact" ~> pc[w] = "idle"
        /\ pc[w] # "idle" /\ model[w] = "pro"
           ~> \/ pc[w] = "idle" /\ result[w] = "digest"
              \/ pc[w] = "call" /\ model[w] = "fallback"
=============================================================================
