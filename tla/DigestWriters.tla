---------------------------- MODULE DigestWriters ---------------------------
(***************************************************************************)
(* What the pipeline from drafts to digests promises with any number of    *)
(* worker processes, without tasks, retries, locks or failures: a writer   *)
(* takes all that is ready of a ticker at one moment, stores the digest of *)
(* just that, announces it at most once and only then clears the ticker,   *)
(* whatever the other writers and the drafts do meanwhile; it may give up  *)
(* after every step, and starts with a new look at the drafts.             *)
(***************************************************************************)
EXTENDS Sequences

CONSTANTS
    Drafts,
    Tickers,
    TickerOf,
    Writers

VARIABLES
    phase,   \* phase[d]: "absent", "waiting", "extracted" or "deleted"
    ledger,  \* the digests stored, oldest first
    alerts,  \* the digests announced, oldest first
    hand     \* hand[w]: the digest w is at, and the stage it has reached

vars == <<phase, ledger, alerts, hand>>

InPhase(t, phases) ==
    {d \in Drafts : TickerOf[d] = t /\ phase[d] \in phases}

Ready(t) == InPhase(t, {"extracted"})
Present(t) == InPhase(t, {"waiting", "extracted"})

Idle == [stage |-> "idle"]

DigestOf(w) == [by |-> w, ticker |-> hand[w].ticker, sources |-> hand[w].sources]

Move(w, stage) == hand' = [hand EXCEPT ![w].stage = stage]
LayDown(w) == hand' = [hand EXCEPT ![w] = Idle]

(* The drafts come, are settled and are unsettled again by anybody.         *)
Arrive(d) ==
    /\ phase[d] = "absent"
    /\ phase' = [phase EXCEPT ![d] = "waiting"]
    /\ UNCHANGED <<ledger, alerts, hand>>

Settle(d) ==
    /\ phase[d] = "waiting"
    /\ phase' = [phase EXCEPT ![d] = "extracted"]
    /\ UNCHANGED <<ledger, alerts, hand>>

Unsettle(d) ==
    /\ phase[d] = "extracted"
    /\ phase' = [phase EXCEPT ![d] = "waiting"]
    /\ UNCHANGED <<ledger, alerts, hand>>

Read(w, t) ==
    /\ hand[w].stage = "idle"
    /\ Ready(t) # {}
    /\ hand' = [hand EXCEPT ![w] =
                   [stage |-> "read", ticker |-> t, sources |-> Ready(t)]]
    /\ UNCHANGED <<phase, ledger, alerts>>

(* A writer that does not learn that its digest is stored gives it up.      *)
Store(w) ==
    /\ hand[w].stage = "read"
    /\ ledger' = Append(ledger, DigestOf(w))
    /\ Move(w, "stored") \/ LayDown(w)
    /\ UNCHANGED <<phase, alerts>>

Announce(w) ==
    /\ hand[w].stage = "stored"
    /\ alerts' = Append(alerts, DigestOf(w))
    /\ Move(w, "told")
    /\ UNCHANGED <<phase, ledger>>

(* The alert is lost. *)
Miss(w) ==
    /\ hand[w].stage = "stored"
    /\ Move(w, "told")
    /\ UNCHANGED <<phase, ledger, alerts>>

(* All drafts of the ticker, those of others and of later included.         *)
Clear(w) ==
    /\ hand[w].stage = "told"
    /\ phase' = [d \in Drafts |-> IF d \in Present(hand[w].ticker)
                                  THEN "deleted" ELSE phase[d]]
    /\ LayDown(w)
    /\ UNCHANGED <<ledger, alerts>>

Abandon(w) ==
    /\ hand[w].stage # "idle"
    /\ LayDown(w)
    /\ UNCHANGED <<phase, ledger, alerts>>

Init ==
    /\ phase = [d \in Drafts |-> "absent"]
    /\ ledger = <<>>
    /\ alerts = <<>>
    /\ hand = [w \in Writers |-> Idle]

Next ==
    \/ \E d \in Drafts : Arrive(d) \/ Settle(d) \/ Unsettle(d)
    \/ \E w \in Writers :
          \/ \E t \in Tickers : Read(w, t)
          \/ Store(w) \/ Announce(w) \/ Miss(w) \/ Clear(w) \/ Abandon(w)

Spec == Init /\ [][Next]_vars
=============================================================================
