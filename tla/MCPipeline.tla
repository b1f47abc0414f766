----------------------------- MODULE MCPipeline -----------------------------
(* Instances of Pipeline for TLC. *)
EXTENDS Pipeline, TLC

(* All drafts for one ticker. *)
OneTicker == [d \in Drafts |-> CHOOSE t \in Tickers : TRUE]

(* Every ticker has a draft. *)
Split == CHOOSE f \in [Drafts -> Tickers] :
            \A t \in Tickers : \E d \in Drafts : f[d] = t

(* Sound for OneTicker: drafts and replicas of one kind are alike. *)
AlikeDrafts == Permutations(Drafts)
=============================================================================
