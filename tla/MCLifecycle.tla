----------------------------- MODULE MCLifecycle -----------------------------
(***************************************************************************)
(* An instance of at most three modules, for TLC.                          *)
(***************************************************************************)
EXTENDS Lifecycle

Tables == {0, 2, 3, 4}
=============================================================================
