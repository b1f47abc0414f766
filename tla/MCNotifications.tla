-------------------------- MODULE MCNotifications --------------------------
(* Instances of Notifications for TLC. *)
EXTENDS Notifications

CONSTANT SomeTicker

(* All digests are about one ticker. *)
OneTicker == [d \in Digests |-> SomeTicker]
=============================================================================
