---------------------------- MODULE MCWatchlist ----------------------------
(* Instances of Watchlist for TLC. *)
EXTENDS Watchlist, TLC

(* Pages, symbols and request slots are all alike. *)
Alike ==
    Permutations(Pages) \cup Permutations(Symbols) \cup Permutations(Requests)
=============================================================================
