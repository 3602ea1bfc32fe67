---------------------------- MODULE MC_KtLifecycle ----------------------------
(* One application beside the daemon. *)
EXTENDS KtLifecycle

CONSTANTS a1

MC_Apps == {a1}
=============================================================================
