-------------------------- MODULE SynthesizerProofs --------------------------
(* Theorems of the specification Synthesizer for every limit and every      *)
(* number of worker processes.                                              *)
EXTENDS Synthesizer, TLAPS

LEMMA IntervalType ==
    /\ Interval \in Nat /\ Minute \in Nat /\ Interval <= Minute
    /\ MaxBusy = Interval + 2 * Minute + 1
<1>. DEFINE m == Minute
            r == RpmLimit
            i == m \div r
<1>1. m \in Nat /\ r \in Nat /\ r > 0 /\ Minute \in Nat
  BY SynthesizerAssumption
<1>. HIDE DEF m, r
<1>2. i \in Nat /\ m % r \in Nat /\ m = (r * i) + (m % r)
  BY <1>1
<1>. HIDE DEF i
<1>3. (r - 1) * i \in Nat /\ r * i = (r - 1) * i + i /\ r * i \in Nat
  BY <1>1, <1>2
<1>4. i <= m
  BY <1>1, <1>2, <1>3
<1>. QED BY <1>1, <1>2, <1>4 DEF Interval, MaxBusy, m, r, i

(* Who waits has the next token to come; who does not wait has used the     *)
(* last one at his last request.                                            *)
SpacingInv ==
    \A w \in Workers :
        /\ pc[w] = "wait" => /\ token[w] = delay[w] + Interval
                             /\ ago[w] + delay[w] >= Interval
        /\ pc[w] # "wait" => /\ token[w] <= Interval
                             /\ ago[w] + token[w] >= Interval

(* What the wait and the timeout still add to the time of a worker's call   *)
(* keeps it within its bound; the token that a fallback may need comes      *)
(* within it too.                                                           *)
BusyInv ==
    \A w \in Workers :
        /\ pc[w] = "idle" => busy[w] = 0
        /\ pc[w] = "wait" =>
              busy[w] + delay[w]
              <= Interval + IF model[w] = "fallback" THEN 2 * Minute ELSE 0
        /\ pc[w] = "call" =>
              \/ model[w] = "fact" /\ busy[w] + left[w] <= Interval + Minute
              \/ /\ model[w] = "pro"
                 /\ busy[w] + left[w] <= Interval + 2 * Minute
                 /\ busy[w] + token[w] <= Interval + 2 * Minute
              \/ model[w] = "fallback" /\ busy[w] = 0

IInv == TypeOK /\ SpacingInv /\ BusyInv

LEMMA LessType ==
    ASSUME NEW n \in Nat, NEW timer \in [Workers -> 0..n]
    PROVE  /\ Less(timer) \in [Workers -> 0..n]
           /\ \A w \in Workers :
                 Less(timer)[w] = IF timer[w] > 0 THEN timer[w] - 1 ELSE 0
BY DEF Less

LEMMA AskStep ==
    ASSUME IInv, NEW w \in Workers, NEW m \in Models, pc[w] # "wait", Ask(w, m),
           busy[w] + token[w] <= Interval + IF m = "fallback" THEN 2 * Minute ELSE 0,
           UNCHANGED <<left, ago, busy>>,
           result' \in [Workers -> {"none", "fact", "digest", "error"}]
    PROVE  IInv'
<1>1. /\ token[w] \in 0..Interval
      /\ token'[w] = token[w] + Interval /\ delay'[w] = token[w]
  BY IntervalType DEF IInv, TypeOK, SpacingInv, Ask, Reserve
<1>2. token' \in [Workers -> 0..(2 * Interval)] /\ delay' \in [Workers -> 0..Interval]
  BY <1>1, IntervalType DEF IInv, TypeOK, Ask, Reserve
<1>3. TypeOK'
  BY <1>2 DEF IInv, TypeOK, Ask, MaxBusy, Interval
<1>4. SpacingInv'
  BY <1>1, IntervalType DEF IInv, TypeOK, SpacingInv, Ask, Reserve
<1>5. BusyInv'
  <2>1. SUFFICES ASSUME NEW v \in Workers
                 PROVE  BusyInv!(v)'
    BY DEF BusyInv
  <2>2. CASE v = w
    BY <1>1, <2>2 DEF IInv, TypeOK, Ask
  <2>3. CASE v # w
    <3>1. /\ pc'[v] = pc[v] /\ model'[v] = model[v] /\ busy'[v] = busy[v]
          /\ delay'[v] = delay[v] /\ token'[v] = token[v] /\ left'[v] = left[v]
      BY <2>3 DEF IInv, TypeOK, Ask, Reserve
    <3>. QED BY <3>1 DEF IInv, BusyInv
  <2>. QED BY <2>2, <2>3
<1>. QED BY <1>3, <1>4, <1>5 DEF IInv

LEMMA ReturnStep ==
    ASSUME IInv, NEW w \in Workers, pc[w] # "wait",
           NEW res \in {"fact", "digest", "error"}, Return(w, res),
           UNCHANGED <<model, token, delay, left, ago>>
    PROVE  IInv'
<1>1. 0 \in 0..MaxBusy
  BY IntervalType
<1>2. TypeOK'
  BY <1>1 DEF IInv, TypeOK, Return, MaxBusy, Interval
<1>3. SpacingInv' /\ BusyInv'
  BY DEF IInv, TypeOK, SpacingInv, BusyInv, Return
<1>. QED BY <1>2, <1>3 DEF IInv

LEMMA RequestStep ==
    ASSUME IInv, NEW w \in Workers, Request(w)
    PROVE  IInv'
<1>1. /\ Timeout(model[w]) \in 0..(2 * Minute) /\ 0 \in 0..Interval /\ 0 \in 0..MaxBusy
      /\ Timeout(model[w]) = IF model[w] = "fact" THEN Minute ELSE 2 * Minute
  BY IntervalType DEF Timeout
<1>2. TypeOK'
  BY <1>1 DEF IInv, TypeOK, Request, MaxBusy, Interval
<1>3. SpacingInv'
  BY IntervalType DEF IInv, TypeOK, SpacingInv, Request
<1>4. BusyInv'
  <2>1. SUFFICES ASSUME NEW v \in Workers
                 PROVE  BusyInv!(v)'
    BY DEF BusyInv
  <2>2. CASE v = w
    <3>1. /\ pc[w] = "wait" /\ delay[w] = 0 /\ token[w] = Interval
          /\ busy[w] <= Interval + IF model[w] = "fallback" THEN 2 * Minute ELSE 0
          /\ busy[w] \in Nat /\ model[w] \in Models
      BY IntervalType DEF IInv, TypeOK, SpacingInv, BusyInv, Request
    <3>2. /\ pc'[w] = "call" /\ model'[w] = model[w] /\ token'[w] = token[w]
          /\ left'[w] = Timeout(model[w])
          /\ busy'[w] = IF model[w] = "fallback" THEN 0 ELSE busy[w]
      BY DEF IInv, TypeOK, Request
    <3>. QED BY <1>1, <2>2, <3>1, <3>2, IntervalType DEF Models
  <2>3. CASE v # w
    <3>1. /\ pc'[v] = pc[v] /\ model'[v] = model[v] /\ busy'[v] = busy[v]
          /\ delay'[v] = delay[v] /\ token'[v] = token[v] /\ left'[v] = left[v]
      BY <2>3 DEF IInv, TypeOK, Request
    <3>. QED BY <3>1 DEF IInv, BusyInv
  <2>. QED BY <2>2, <2>3
<1>. QED BY <1>2, <1>3, <1>4 DEF IInv

LEMMA TickStep ==
    ASSUME IInv, Tick
    PROVE  IInv'
<1>1. /\ token' = Less(token) /\ delay' = Less(delay) /\ left' = Less(left)
      /\ UNCHANGED <<pc, model, result>>
      /\ \A w \in Workers : pc[w] = "wait" => delay[w] # 0
      /\ \A w \in Workers : pc[w] = "call" /\ model[w] # "fallback" => left[w] # 0
      /\ ago' = [w \in Workers |->
                    IF ago[w] < Interval THEN ago[w] + 1 ELSE Interval]
      /\ busy' = [w \in Workers |->
                     IF Busy(w) /\ busy[w] < MaxBusy THEN busy[w] + 1 ELSE busy[w]]
  BY DEF Tick, Expires
<1>2. /\ token' \in [Workers -> 0..(2 * Interval)]
      /\ delay' \in [Workers -> 0..Interval]
      /\ left' \in [Workers -> 0..(2 * Minute)]
      /\ \A w \in Workers :
            /\ token'[w] = IF token[w] > 0 THEN token[w] - 1 ELSE 0
            /\ delay'[w] = IF delay[w] > 0 THEN delay[w] - 1 ELSE 0
            /\ left'[w] = IF left[w] > 0 THEN left[w] - 1 ELSE 0
  BY <1>1, LessType, IntervalType DEF IInv, TypeOK
<1>3. ago' \in [Workers -> 0..Interval]
  BY <1>1, IntervalType DEF IInv, TypeOK
<1>4. /\ busy' \in [Workers -> 0..MaxBusy]
      /\ \A w \in Workers :
            busy'[w] = IF Busy(w) /\ busy[w] < MaxBusy THEN busy[w] + 1 ELSE busy[w]
  BY <1>1, IntervalType DEF IInv, TypeOK
<1>5. TypeOK'
  BY <1>1, <1>2, <1>3, <1>4 DEF IInv, TypeOK, MaxBusy, Interval
<1>6. SpacingInv'
  BY <1>1, <1>2, IntervalType DEF IInv, TypeOK, SpacingInv
<1>7. BusyInv'
  <2>1. SUFFICES ASSUME NEW w \in Workers
                 PROVE  BusyInv!(w)'
    BY DEF BusyInv
  <2>2. /\ pc'[w] = pc[w] /\ model'[w] = model[w] /\ pc[w] \in {"idle", "wait", "call"}
        /\ busy[w] \in Nat /\ delay[w] \in Nat /\ left[w] \in Nat /\ token[w] \in Nat
    BY <1>1, IntervalType DEF IInv, TypeOK
  <2>3. CASE pc[w] = "idle" \/ (pc[w] = "call" /\ model[w] = "fallback")
    BY <1>4, <2>2, <2>3 DEF IInv, BusyInv, Busy
  <2>4. CASE pc[w] = "wait"
    <3>1. delay'[w] = delay[w] - 1 /\ delay[w] > 0 /\ busy'[w] <= busy[w] + 1
      BY <1>1, <1>2, <1>4, <2>2, <2>4
    <3>2. busy'[w] \in Nat
      BY <1>4, IntervalType
    <3>. QED BY <2>2, <2>4, <3>1, <3>2, IntervalType DEF IInv, BusyInv
  <2>5. CASE pc[w] = "call" /\ model[w] # "fallback"
    <3>1. /\ left'[w] = left[w] - 1 /\ left[w] > 0 /\ busy'[w] <= busy[w] + 1
          /\ token'[w] = IF token[w] > 0 THEN token[w] - 1 ELSE 0
      BY <1>1, <1>2, <1>4, <2>2, <2>5
    <3>2. busy'[w] \in Nat
      BY <1>4, IntervalType
    <3>. QED BY <2>2, <2>5, <3>1, <3>2, IntervalType DEF IInv, BusyInv
  <2>. QED BY <2>2, <2>3, <2>4, <2>5
<1>. QED BY <1>5, <1>6, <1>7 DEF IInv

LEMMA IInvStep ==
    ASSUME IInv, [Next]_vars
    PROVE  IInv'
<1>1. ASSUME NEW w \in Workers, NEW m \in {"fact", "pro"}, Begin(w, m)
      PROVE  IInv'
  <2>1. result' \in [Workers -> {"none", "fact", "digest", "error"}]
    BY <1>1 DEF Begin, IInv, TypeOK
  <2>2. busy[w] + token[w] <= Interval
    BY <1>1, IntervalType DEF Begin, IInv, TypeOK, SpacingInv, BusyInv
  <2>. QED BY <1>1, <2>1, <2>2, AskStep, IntervalType DEF Begin, Models
<1>2. ASSUME NEW w \in Workers, NEW answer \in Answers,
             AnswerFact(w, answer) \/ AnswerDigest(w, answer)
      PROVE  IInv'
  BY <1>2, ReturnStep DEF AnswerFact, AnswerDigest
<1>3. ASSUME NEW w \in Workers, AnswerError(w) \/ Expire(w)
      PROVE  IInv'
  <2>1. pc[w] = "call"
    BY <1>3 DEF AnswerError, Expire, Expires
  <2>2. CASE model[w] = "pro" /\ ProFails(w)
    <3>1. busy[w] + token[w] <= Interval + 2 * Minute
      BY <2>1, <2>2 DEF IInv, BusyInv
    <3>. QED BY <2>1, <2>2, <3>1, AskStep DEF ProFails, IInv, TypeOK, Models
  <2>. QED BY <1>3, <2>1, <2>2, ReturnStep DEF AnswerError, Expire
<1>4. CASE UNCHANGED vars
  BY <1>4 DEF IInv, TypeOK, SpacingInv, BusyInv, vars, MaxBusy, Interval
<1>. QED BY <1>1, <1>2, <1>3, <1>4, RequestStep, TickStep DEF Next

LEMMA IInvInit == Init => IInv
<1>1. SUFFICES ASSUME Init
               PROVE  IInv
  OBVIOUS
<1>2. TypeOK
  BY <1>1, IntervalType DEF Init, TypeOK, Models
<1>3. SpacingInv /\ BusyInv
  BY <1>1, IntervalType DEF Init, SpacingInv, BusyInv
<1>. QED BY <1>2, <1>3 DEF IInv

(* The timers of a worker never exceed what the code sets them to.          *)
THEOREM TimersBounded == Spec => []TypeOK
<1>1. IInv /\ [Next]_vars => IInv'
  BY IInvStep
<1>2. IInv => TypeOK
  BY DEF IInv
<1>. QED BY IInvInit, <1>1, <1>2, PTL DEF Spec

(***************************************************************************)
(* Gemini may answer, fail or be silent: no call of the worker is under    *)
(* way for longer than one wait for the limiter and the timeout of its     *)
(* model, until the fallback is asked (gemini.go:205-230 and 251-255).     *)
(***************************************************************************)
THEOREM CallsEndInTime == Spec => []InTime
<1>1. IInv /\ [Next]_vars => IInv'
  BY IInvStep
<1>2. IInv => InTime
  <2>1. SUFFICES ASSUME IInv, NEW w \in Workers
                 PROVE  /\ busy[w] <= Interval + 2 * Minute
                        /\ model[w] = "fact" => busy[w] <= Interval + Minute
    BY DEF InTime
  <2>2. /\ pc[w] \in {"idle", "wait", "call"} /\ model[w] \in Models
        /\ busy[w] \in Nat /\ delay[w] \in Nat /\ left[w] \in Nat
    BY <2>1, IntervalType DEF IInv, TypeOK
  <2>. QED BY <2>1, <2>2, IntervalType DEF IInv, BusyInv
<1>. QED BY IInvInit, <1>1, <1>2, PTL DEF Spec

(***************************************************************************)
(* A process keeps the distance between its requests that its limiter is   *)
(* set to, whatever fails and is asked again (gemini.go:92-251).           *)
(***************************************************************************)
THEOREM RequestsSpaced == Spec => Spaced
<1>1. IInv /\ [Next]_vars => IInv'
  BY IInvStep
<1>2. IInv /\ [Next]_vars =>
      [\A w \in Workers :
          pc[w] = "wait" /\ pc'[w] = "call" => ago[w] = Interval]_vars
  <2>1. SUFFICES ASSUME IInv, [Next]_vars, NEW w \in Workers,
                        pc[w] = "wait", pc'[w] = "call"
                 PROVE  ago[w] = Interval
    OBVIOUS
  <2>2. Request(w)
    BY <2>1
       DEF IInv, TypeOK, Next, Begin, Ask, Request, AnswerFact, AnswerDigest,
           AnswerError, ProFails, Return, Expire, Expires, Tick, vars
  <2>. QED BY <2>1, <2>2, IntervalType DEF IInv, TypeOK, SpacingInv, Request
<1>. QED BY IInvInit, <1>1, <1>2, PTL DEF Spec, Spaced
=============================================================================
