------------------------------ MODULE MCInbox ------------------------------
(***************************************************************************)
(* One module with a poster besides its own thread, for TLC.  A second has *)
(* two milliseconds, so that deadlines carry.                              *)
(***************************************************************************)
EXTENDS Inbox

Horizon == [tv_sec |-> 1, tv_nsec |-> 0]
=============================================================================
