------------------------------ MODULE Lifecycle ------------------------------
(***************************************************************************)
(* The life of a coseq instance: create, setup, teardown, setup again,     *)
(* destroy, one pthread call at a time.  Any of them may fail; setup then  *)
(* rolls back.  Meanwhile the module threads that were started lock their  *)
(* own mutex and, to post, those of other modules.                         *)
(*                                                                         *)
(* The owner is one thread and makes one call at a time.  A mutex is held  *)
(* for a moment only, by a thread that holds no other, so that the step    *)
(* which locks it also releases it.                                        *)
(***************************************************************************)
EXTENDS Naturals

CONSTANTS
  MaxModule,     \* MAX_MODULE
  Sizes          \* the sizes of table the owner may set up

ASSUME LifecycleAssumption == MaxModule \in Nat \ {0} /\ Sizes \subseteq 0..255

Slots == 0..(MaxModule - 1)

VARIABLES
  alive,         \* create_coseq has returned an instance that was not destroyed
  nr_module,
  mtx, cv,       \* modules[i].mtx and .cv are initialised
  th_started, stop,
  thread,        \* "none", "top", "wait", "run", "post", "ended", "joined"
  target,        \* the module whose mutex the thread is about to lock in post
  call,          \* where the owner is: which call, which loop of it, how far
  init_failed    \* history: a mutex or condition variable could not be initialised

modules == <<mtx, cv, th_started, stop>>
threads == <<thread, target>>
vars == <<alive, nr_module, modules, threads, call, init_failed>>

Idle == [op |-> "none", at |-> "idle", i |-> 0, nr |-> 0]
In(op, loop, nr) == [op |-> op, at |-> loop, i |-> 0, nr |-> nr]
Further == [call EXCEPT !.i = @ + 1]
Loop(name) == call.at = name /\ call.i < call.nr
LoopDone(name) == call.at = name /\ call.i = call.nr

Init ==
  /\ alive = FALSE /\ nr_module = 0
  /\ mtx = [i \in Slots |-> FALSE] /\ cv = [i \in Slots |-> FALSE]
  /\ th_started = [i \in Slots |-> FALSE] /\ stop = [i \in Slots |-> FALSE]
  /\ thread = [i \in Slots |-> "none"] /\ target = [i \in Slots |-> 0]
  /\ call = Idle /\ init_failed = FALSE

-----------------------------------------------------------------------------
(* create_coseq, setup *)

\* On failure create_coseq leaves nothing; alive stays FALSE.
Create ==
  /\ ~alive
  /\ alive' = TRUE
  /\ UNCHANGED <<nr_module, modules, threads, call, init_failed>>

\* mutant of Fits: off by one
FitsOneMore(n) == n <= MaxModule + 1
Fits(n) == n <= MaxModule

\* A table that is too large is refused with nothing changed.  setup does not look
\* whether the instance is already set up; that the owner does not do this twice
\* without a teardown in between is assumed here.
Setup(n) ==
  /\ alive /\ call = Idle /\ nr_module = 0
  /\ Fits(n)
  /\ nr_module' = n
  /\ call' = In("setup", "init", n)
  /\ UNCHANGED <<alive, modules, threads, init_failed>>

\* memset, then the two objects of module i
InitModule ==
  LET i == call.i IN
  /\ Loop("init")
  /\ mtx' = [mtx EXCEPT ![i] = TRUE] /\ cv' = [cv EXCEPT ![i] = TRUE]
  /\ th_started' = [th_started EXCEPT ![i] = FALSE] /\ stop' = [stop EXCEPT ![i] = FALSE]
  /\ call' = Further
  /\ UNCHANGED <<alive, nr_module, threads, init_failed>>

\* One of the two fails.  Of this module neither is left; setup returns false.
InitFails ==
  LET i == call.i IN
  /\ Loop("init")
  /\ mtx' = [mtx EXCEPT ![i] = FALSE] /\ cv' = [cv EXCEPT ![i] = FALSE]
  /\ th_started' = [th_started EXCEPT ![i] = FALSE] /\ stop' = [stop EXCEPT ![i] = FALSE]
  /\ call' = Idle /\ nr_module' = 0 /\ init_failed' = TRUE
  /\ UNCHANGED <<alive, threads>>

StartThreads ==
  /\ LoopDone("init")
  /\ call' = In("setup", "spawn", call.nr)
  /\ UNCHANGED <<alive, nr_module, modules, threads, init_failed>>

Spawn ==
  LET i == call.i IN
  /\ Loop("spawn")
  /\ thread' = [thread EXCEPT ![i] = "top"]
  /\ th_started' = [th_started EXCEPT ![i] = TRUE]
  /\ call' = Further
  /\ UNCHANGED <<alive, nr_module, mtx, cv, stop, target, init_failed>>

\* mutant of RollBackOver: only the modules started so far
RollBackStarted == call.i
RollBackOver == call.nr

\* pthread_create fails: stop_modules, over the whole table
SpawnFails ==
  /\ Loop("spawn")
  /\ call' = In("setup", "ask", RollBackOver)
  /\ UNCHANGED <<alive, nr_module, modules, threads, init_failed>>

SetupReturns ==
  /\ LoopDone("spawn")
  /\ call' = Idle
  /\ UNCHANGED <<alive, nr_module, modules, threads, init_failed>>

-----------------------------------------------------------------------------
(* teardown, destroy *)

\* mutant of NrTornDown: teardown leaves nr_module
NrKept == nr_module
NrTornDown == 0

\* Of an instance that is not set up, teardown does nothing.
Teardown ==
  /\ alive /\ call = Idle /\ nr_module # 0
  /\ nr_module' = NrTornDown
  /\ call' = In("teardown", "ask", nr_module)
  /\ UNCHANGED <<alive, modules, threads, init_failed>>

\* destroy tears down what is left, then frees the instance.
Destroy ==
  /\ alive /\ call = Idle /\ nr_module # 0
  /\ nr_module' = NrTornDown
  /\ call' = In("destroy", "ask", nr_module)
  /\ UNCHANGED <<alive, modules, threads, init_failed>>

DestroyIdle ==
  /\ alive /\ call = Idle /\ nr_module = 0
  /\ alive' = FALSE
  /\ UNCHANGED <<nr_module, modules, threads, call, init_failed>>

-----------------------------------------------------------------------------
(* stop_modules *)

AskStop ==
  LET i == call.i IN
  /\ Loop("ask")
  /\ stop' = IF th_started[i] THEN [stop EXCEPT ![i] = TRUE] ELSE stop
  /\ call' = Further
  /\ UNCHANGED <<alive, nr_module, mtx, cv, th_started, threads, init_failed>>

\* mutant of NextLoop: the modules are freed before their threads are joined
FreeFirst(op) == IF call.at = "ask" THEN In(op, "free", call.nr) ELSE In(op, "join", call.nr)
NextLoop(op) == IF call.at = "ask" THEN In(op, "join", call.nr) ELSE In(op, "free", call.nr)

NextStopLoop ==
  /\ LoopDone("ask") \/ LoopDone("join")
  /\ call' = NextLoop(call.op)
  /\ UNCHANGED <<alive, nr_module, modules, threads, init_failed>>

MustJoin(i) == th_started[i]

Join ==
  LET i == call.i IN
  /\ Loop("join") /\ MustJoin(i)
  /\ thread[i] = "ended"
  /\ thread' = [thread EXCEPT ![i] = "joined"]
  /\ th_started' = [th_started EXCEPT ![i] = FALSE]
  /\ call' = Further
  /\ UNCHANGED <<alive, nr_module, mtx, cv, stop, target, init_failed>>

NoneToJoin ==
  /\ Loop("join") /\ ~MustJoin(call.i)
  /\ call' = Further
  /\ UNCHANGED <<alive, nr_module, modules, threads, init_failed>>

FreeModule ==
  LET i == call.i IN
  /\ Loop("free")
  /\ mtx' = [mtx EXCEPT ![i] = FALSE] /\ cv' = [cv EXCEPT ![i] = FALSE]
  /\ call' = Further
  /\ UNCHANGED <<alive, nr_module, th_started, stop, threads, init_failed>>

\* mutant of NrAfter: a rolled back setup leaves nr_module
NrSetUp == nr_module
NrAfter == IF call.op = "setup" THEN 0 ELSE nr_module

Stopped ==
  /\ LoopDone("free")
  /\ nr_module' = NrAfter
  /\ alive' = IF call.op = "destroy" THEN FALSE ELSE alive
  /\ call' = Idle
  /\ UNCHANGED <<modules, threads, init_failed>>

-----------------------------------------------------------------------------
(* A module's thread *)

Goes(i, from, to) == thread[i] = from /\ thread' = [thread EXCEPT ![i] = to]

\* mutant of MayGoOn: a stop that comes while the thread is in a pass is missed
MayAlwaysGoOn(i) == TRUE
MayGoOn(i) == ~stop[i]

\* Under its mutex the thread finds nothing to do, or a batch, or a stop.
LoopTop(i) ==
  /\ \/ Goes(i, "top", "wait") /\ MayGoOn(i)
     \/ Goes(i, "top", "run") /\ MayGoOn(i)
     \/ Goes(i, "top", "ended") /\ stop[i]
  /\ UNCHANGED <<alive, nr_module, modules, target, call, init_failed>>

\* An event, a timer or nothing woke it up.
WakesUp(i) ==
  /\ Goes(i, "wait", "run") /\ ~stop[i]
  /\ UNCHANGED <<alive, nr_module, modules, target, call, init_failed>>

WakesToStop(i) ==
  /\ Goes(i, "wait", "ended") /\ stop[i]
  /\ UNCHANGED <<alive, nr_module, modules, target, call, init_failed>>

\* post reads nr_module without a lock, then locks.
StartPost(i) ==
  /\ Goes(i, "run", "post")
  /\ \E j \in Slots : j < nr_module /\ target' = [target EXCEPT ![i] = j]
  /\ UNCHANGED <<alive, nr_module, modules, call, init_failed>>

Posted(i) ==
  /\ Goes(i, "post", "run")
  /\ target' = [target EXCEPT ![i] = 0]
  /\ UNCHANGED <<alive, nr_module, modules, call, init_failed>>

PassOver(i) ==
  /\ Goes(i, "run", "top")
  /\ UNCHANGED <<alive, nr_module, modules, target, call, init_failed>>

ThreadStep(i) ==
  LoopTop(i) \/ WakesUp(i) \/ WakesToStop(i) \/ StartPost(i) \/ Posted(i) \/ PassOver(i)

Call ==
  \/ InitModule \/ InitFails \/ StartThreads \/ Spawn \/ SpawnFails \/ SetupReturns
  \/ AskStop \/ NextStopLoop \/ Join \/ NoneToJoin \/ FreeModule \/ Stopped

Next ==
  \/ Create \/ Teardown \/ Destroy \/ DestroyIdle \/ (\E n \in Sizes : Setup(n))
  \/ Call
  \/ \E i \in Slots : ThreadStep(i)

Spec == Init /\ [][Next]_vars

\* A call that was begun goes on, the kernel runs every thread, and a pass, which
\* has a finite batch, ends.
FairSpec ==
  /\ Spec /\ WF_vars(Call)
  /\ \A i \in Slots : WF_vars(LoopTop(i) \/ WakesToStop(i) \/ Posted(i)) /\ SF_vars(PassOver(i))

-----------------------------------------------------------------------------
(* Properties *)

Working == {"top", "wait", "run", "post"}

CallRecord ==
  [op : {"none", "setup", "teardown", "destroy"}, i : 0..MaxModule,
   at : {"idle", "init", "spawn", "ask", "join", "free"}, nr : 0..MaxModule]
TypeOK ==
  /\ alive \in BOOLEAN /\ nr_module \in 0..MaxModule
  /\ mtx \in [Slots -> BOOLEAN] /\ cv \in [Slots -> BOOLEAN]
  /\ th_started \in [Slots -> BOOLEAN] /\ stop \in [Slots -> BOOLEAN]
  /\ thread \in [Slots -> Working \cup {"none", "ended", "joined"}]
  /\ target \in [Slots -> Slots]
  /\ call \in CallRecord
  /\ init_failed \in BOOLEAN

\* stop_modules, setup: a module thread never locks or waits on what is not
\* initialised or is destroyed, its own or another module's, not even when setup
\* rolls back while threads already post.
MutexesOutliveThreads ==
  \A i \in Slots :
    /\ thread[i] \in Working => mtx[i] /\ cv[i]
    /\ thread[i] = "post" => mtx[target[i]]

\* stop_modules: it joins threads that exist and were not joined, and frees modules
\* whose objects exist and whose thread is gone, also when called for a setup that
\* failed half way or after another teardown.
StopsOnlyWhatWasStarted ==
  /\ Loop("join") /\ MustJoin(call.i) => thread[call.i] \in Working \cup {"ended"}
  /\ Loop("free") => /\ mtx[call.i] /\ cv[call.i]
                     /\ thread[call.i] \in {"none", "joined"}

\* setup, teardown: when a call returns, either all the modules of the table run or
\* no thread is left.  (What Coseq takes for its initial state.)
AllOrNothing ==
  call = Idle =>
    \A i \in Slots :
      IF i < nr_module THEN thread[i] \in Working /\ th_started[i] /\ ~stop[i]
                       ELSE thread[i] \in {"none", "joined"}

\* ... and no mutex or condition variable is left, but where the initialisation of
\* one failed: setup then forgets those it had initialised.
NothingLeft ==
  call = Idle /\ ~init_failed => \A i \in Slots : mtx[i] \/ cv[i] => i < nr_module

\* setup, teardown and destroy return.
CallsReturn == call # Idle ~> call = Idle
=============================================================================
