--------------------------- MODULE MCArticleFetch ---------------------------
(* Instances of ArticleFetch for TLC. *)
EXTENDS ArticleFetch

(* Every search lists every article. *)
Everywhere == [a \in Articles |-> Tickers]
=============================================================================
