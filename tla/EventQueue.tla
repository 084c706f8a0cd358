----------------------------- MODULE EventQueue -----------------------------
(***************************************************************************)
(* What the inbox of a module promises its scheduler, whatever it is made  *)
(* of: two queues and a batch that a sleeping reader takes in one go.      *)
(*                                                                         *)
(* Events are handled in the order they were posted, once each, except     *)
(* that a locked module may put some aside; those come back, in order and  *)
(* ahead of what was posted meanwhile, when the reader next finds the      *)
(* module unlocked.  The reader never falls asleep on an event it could    *)
(* take.  Inbox shows that the mutex, the condition variable and the       *)
(* linked lists of coseq.c keep this promise, Coseq that its schedulers    *)
(* rely on nothing more.                                                   *)
(***************************************************************************)
EXTENDS Sequences, SequencesExt

CONSTANTS
  Readers,         \* one queue each
  Item             \* what can be posted

VARIABLES
  inbox,           \* posted, not taken
  evs,             \* taken, not looked at
  deferred,        \* put aside while the module was locked
  loop,            \* the reader: "top", "wait", "run", "stopped"
  locked           \* the readers in whose module a sequence holds the lock

vars == <<inbox, evs, deferred, loop, locked>>

Init ==
  /\ inbox = [r \in Readers |-> <<>>]
  /\ evs = [r \in Readers |-> <<>>]
  /\ deferred = [r \in Readers |-> <<>>]
  /\ loop = [r \in Readers |-> "top"]
  /\ locked = {}

Refilled(r) == IF r \in locked THEN inbox[r] ELSE deferred[r] \o inbox[r]
StillDeferred(r) == IF r \in locked THEN deferred[r] ELSE <<>>

\* One more at the end of the inbox.
Post(r) ==
  /\ \E s \in {inbox'[r]} :
       /\ s # <<>> /\ Front(s) = inbox[r] /\ Last(s) \in Item
       /\ inbox' = [inbox EXCEPT ![r] = s]
  /\ UNCHANGED <<evs, deferred, loop, locked>>

Sleep(r) ==
  /\ loop[r] = "top" /\ Refilled(r) = <<>>
  /\ loop' = [loop EXCEPT ![r] = "wait"]
  /\ UNCHANGED <<inbox, evs, deferred, locked>>

\* Awake for any reason: an event, a timer, none at all.
Take(r) ==
  /\ loop[r] = "wait" \/ (loop[r] = "top" /\ Refilled(r) # <<>>)
  /\ evs' = [evs EXCEPT ![r] = Refilled(r)]
  /\ inbox' = [inbox EXCEPT ![r] = <<>>]
  /\ deferred' = [deferred EXCEPT ![r] = StillDeferred(r)]
  /\ loop' = [loop EXCEPT ![r] = "run"]
  /\ UNCHANGED locked

\* A sequence that runs may lock or unlock its module, no other.
MayRelock(r) == locked' \in {locked \cup {r}, locked \ {r}}

Handle(r) ==
  /\ loop[r] = "run" /\ evs[r] # <<>>
  /\ evs' = [evs EXCEPT ![r] = Tail(@)]
  /\ MayRelock(r)
  /\ UNCHANGED <<inbox, deferred, loop>>

PutAside(r) ==
  /\ loop[r] = "run" /\ evs[r] # <<>> /\ r \in locked
  /\ evs' = [evs EXCEPT ![r] = Tail(@)]
  /\ deferred' = [deferred EXCEPT ![r] = Append(@, Head(evs[r]))]
  /\ UNCHANGED <<inbox, loop, locked>>

\* A sequence resumed by its timer locks or unlocks, a finished one is reaped.
Relock(r) ==
  /\ loop[r] = "run"
  /\ MayRelock(r)
  /\ UNCHANGED <<inbox, evs, deferred, loop>>

EndPass(r) ==
  /\ loop[r] = "run" /\ evs[r] = <<>>
  /\ loop' = [loop EXCEPT ![r] = "top"]
  /\ UNCHANGED <<inbox, evs, deferred, locked>>

\* What is left when the reader stops is never handled.
Stop(r) ==
  /\ loop[r] \in {"top", "wait"}
  /\ inbox' = [inbox EXCEPT ![r] = Refilled(r)]
  /\ deferred' = [deferred EXCEPT ![r] = StillDeferred(r)]
  /\ loop' = [loop EXCEPT ![r] = "stopped"]
  /\ UNCHANGED <<evs, locked>>

DiscardAll ==
  /\ \A r \in Readers : loop[r] = "stopped"
  /\ inbox' = [r \in Readers |-> <<>>]
  /\ deferred' = [r \in Readers |-> <<>>]
  /\ UNCHANGED <<evs, loop, locked>>

Next ==
  \/ \E r \in Readers :
       \/ Post(r) \/ Sleep(r) \/ Take(r) \/ Handle(r) \/ PutAside(r) \/ Relock(r)
       \/ EndPass(r) \/ Stop(r)
  \/ DiscardAll

Spec == Init /\ [][Next]_vars
=============================================================================
