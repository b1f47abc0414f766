---------------------------- MODULE DigestLedger ----------------------------
(***************************************************************************)
(* What the pipeline from drafts to digests promises when one worker       *)
(* process runs it, without tasks, retries, locks or failures: drafts      *)
(* become ready and stop being so, a digest takes every ready draft of its *)
(* ticker, an alert is about the newest digest, and the drafts of a ticker *)
(* leave the table together, none of the ready ones outside a digest.      *)
(***************************************************************************)
EXTENDS Sequences

CONSTANTS
    Drafts,
    Tickers,
    TickerOf,
    Digest    \* records with at least a ticker and the set of their sources

VARIABLES
    phase,   \* phase[d]: "absent", "waiting", "extracted" or "deleted"
    ledger,  \* the digests stored, oldest first
    alerts   \* the digests announced, oldest first

vars == <<phase, ledger, alerts>>

InPhase(t, phases) ==
    {d \in Drafts : TickerOf[d] = t /\ phase[d] \in phases}

Ready(t) == InPhase(t, {"extracted"})
Present(t) == InPhase(t, {"waiting", "extracted"})

Arrive(d) ==
    /\ phase[d] = "absent"
    /\ phase' = [phase EXCEPT ![d] = "waiting"]
    /\ UNCHANGED <<ledger, alerts>>

(* Its facts are extracted ... *)
Settle(d) ==
    /\ phase[d] = "waiting"
    /\ phase' = [phase EXCEPT ![d] = "extracted"]
    /\ UNCHANGED <<ledger, alerts>>

(* ... and its status is overwritten by the producer or by a last failure.  *)
Unsettle(d) ==
    /\ phase[d] = "extracted"
    /\ phase' = [phase EXCEPT ![d] = "waiting"]
    /\ UNCHANGED <<ledger, alerts>>

Publish(t) ==
    \E digest \in Digest :
        /\ digest.ticker = t
        /\ digest.sources # {}
        /\ Ready(t) \subseteq digest.sources
        /\ digest.sources \subseteq Present(t)
        /\ ledger' = Append(ledger, digest)
        /\ UNCHANGED <<phase, alerts>>

Announce ==
    /\ ledger # <<>>
    /\ alerts' = Append(alerts, ledger[Len(ledger)])
    /\ UNCHANGED <<phase, ledger>>

(* Only after a digest of the ticker, and never with a ready draft that the *)
(* newest digest leaves out.                                                *)
Clear(t) ==
    /\ ledger # <<>>
    /\ ledger[Len(ledger)].ticker = t
    /\ Ready(t) \subseteq ledger[Len(ledger)].sources
    /\ phase' = [d \in Drafts |-> IF d \in Present(t) THEN "deleted" ELSE phase[d]]
    /\ UNCHANGED <<ledger, alerts>>

Init ==
    /\ phase = [d \in Drafts |-> "absent"]
    /\ ledger = <<>>
    /\ alerts = <<>>

Next ==
    \/ \E d \in Drafts : Arrive(d) \/ Settle(d) \/ Unsettle(d)
    \/ \E t \in Tickers : Publish(t) \/ Clear(t)
    \/ Announce

Spec == Init /\ [][Next]_vars
=============================================================================
