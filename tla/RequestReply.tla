---------------------------- MODULE RequestReply ----------------------------
(***************************************************************************)
(* What the request calls promise the sequences of a module, whatever the  *)
(* messages between the modules do.                                        *)
(*                                                                         *)
(* A request gets a number of its own.  One that waits comes back once,    *)
(* with the answer to that very number or word that time ran out.  The     *)
(* answers to asynchronous ones are handed over one at a time, each once,  *)
(* to the sequence that asked and only when it asks for one.  A sequence   *)
(* ends with nothing left to collect.  The coming of an answer, early,     *)
(* late or twice, is not a step here: it changes nothing the sequence can  *)
(* see.  Coseq is shown to implement this with its table of pending        *)
(* requests, its wait flags and its reply queues.                          *)
(***************************************************************************)
EXTENDS Naturals

CONSTANTS
  Askers,          \* modules: each numbers its requests
  Sequences        \* what a running sequence is known by, again when it has ended

VARIABLES
  asking,          \* the sequences of each module
  next,            \* the number of its next request
  inside,          \* [Askers -> [Sequences -> numbers]]: the request it is inside
  owed,            \* ... its asynchronous requests without an answer handed over
  handed           \* [Sequences -> number]: what the last answer answered

vars == <<asking, next, inside, owed, handed>>

None == [s \in Sequences |-> {}]

Init ==
  /\ asking = [m \in Askers |-> {}]
  /\ next = [m \in Askers |-> 1]
  /\ inside = [m \in Askers |-> None]
  /\ owed = [m \in Askers |-> None]
  /\ handed = [s \in Sequences |-> 0]

\* s may make a call: it is inside no other.
Runs(m, s) == s \in asking[m] /\ inside[m][s] = {}

NewNumber(m) == next' = [next EXCEPT ![m] = @ + 1]

\* A sequence starts, with what it was started by in place of an answer.
Begin(m, s) ==
  /\ \A n \in Askers : s \notin asking[n]
  /\ asking' = [asking EXCEPT ![m] = @ \cup {s}]
  /\ \E id \in {handed'[s]} : handed' = [handed EXCEPT ![s] = id]
  /\ UNCHANGED <<next, inside, owed>>

Ask(m, s) ==
  /\ Runs(m, s)
  /\ NewNumber(m)
  /\ inside' = [inside EXCEPT ![m][s] = {next[m]}]
  /\ UNCHANGED <<asking, owed, handed>>

AskAsync(m, s) ==
  /\ Runs(m, s)
  /\ NewNumber(m)
  /\ owed' = [owed EXCEPT ![m][s] = @ \cup {next[m]}]
  /\ UNCHANGED <<asking, inside, handed>>

\* A request nobody answers.
Tell(m, s) ==
  /\ Runs(m, s)
  /\ NewNumber(m)
  /\ UNCHANGED <<asking, inside, owed, handed>>

\* The answer is there, or time ran out.
ComeBack(m, s) ==
  /\ s \in asking[m] /\ inside[m][s] # {}
  /\ \E id \in inside[m][s] : handed' = [handed EXCEPT ![s] = id]
  /\ inside' = [inside EXCEPT ![m][s] = {}]
  /\ UNCHANGED <<asking, next, owed>>

Collect(m, s) ==
  /\ Runs(m, s)
  /\ \E id \in owed[m][s] :
       /\ handed' = [handed EXCEPT ![s] = id]
       /\ owed' = [owed EXCEPT ![m][s] = @ \ {id}]
  /\ UNCHANGED <<asking, next, inside>>

End(m, s) ==
  /\ Runs(m, s) /\ owed[m][s] = {}
  /\ asking' = [asking EXCEPT ![m] = @ \ {s}]
  /\ UNCHANGED <<next, inside, owed, handed>>

\* The instance goes, and every sequence with it.
Discard ==
  /\ asking' = [m \in Askers |-> {}]
  /\ inside' = [m \in Askers |-> None]
  /\ owed' = [m \in Askers |-> None]
  /\ UNCHANGED <<next, handed>>

Next ==
  \/ \E m \in Askers, s \in Sequences :
       \/ Begin(m, s) \/ Ask(m, s) \/ AskAsync(m, s) \/ Tell(m, s)
       \/ ComeBack(m, s) \/ Collect(m, s) \/ End(m, s)
  \/ Discard

Spec == Init /\ [][Next]_vars
=============================================================================
