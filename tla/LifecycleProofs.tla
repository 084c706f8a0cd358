--------------------------- MODULE LifecycleProofs ---------------------------
(***************************************************************************)
(* The safety properties of Lifecycle, for any MAX_MODULE and any tables.  *)
(***************************************************************************)
EXTENDS Lifecycle, TLAPS

-----------------------------------------------------------------------------
(* Types *)

LEMMA SlotsAreNat == Slots \subseteq Nat /\ MaxModule \in Nat /\ MaxModule > 0
  BY LifecycleAssumption DEF Slots

LEMMA CallTyped ==
  ASSUME TypeOK
  PROVE  /\ call.i \in Nat /\ call.nr \in 0..MaxModule
         /\ call.i < call.nr => call.i \in Slots
  BY SlotsAreNat DEF TypeOK, CallRecord, Slots

LEMMA IdleTyped == Idle \in CallRecord
  BY SlotsAreNat DEF Idle, CallRecord

LEMMA InTyped ==
  ASSUME NEW op \in {"setup", "teardown", "destroy"}, NEW n \in 0..MaxModule,
         NEW loop \in {"init", "spawn", "ask", "join", "free"}
  PROVE  In(op, loop, n) \in CallRecord
  BY SlotsAreNat DEF In, CallRecord

LEMMA FurtherTyped ==
  ASSUME TypeOK, call.i < call.nr
  PROVE  /\ Further \in CallRecord
         /\ Further = [op |-> call.op, at |-> call.at, i |-> call.i + 1, nr |-> call.nr]
  BY SlotsAreNat DEF TypeOK, CallRecord, Further

-----------------------------------------------------------------------------
(* The invariant *)

Started(i) == thread[i] \in Working \cup {"ended"}
Up(i) == mtx[i] /\ cv[i]

\* The modules the current call, or the running instance, is about.
Span == IF call.at = "idle" THEN nr_module ELSE call.nr

\* Which loop a call is in, and what nr_module is meanwhile.
CallOk ==
  /\ call.i <= call.nr
  /\ call.at # "idle" => call.op # "none"
  /\ call.at \in {"init", "spawn"} => call.op = "setup"
  /\ call.op = "setup" => nr_module = call.nr
  /\ call.op \in {"teardown", "destroy"} => nr_module = 0

\* A thread that was started has all it uses.
ThreadsOk ==
  \A i \in Slots :
    /\ th_started[i] <=> Started(i)
    /\ Started(i) => i < Span /\ Up(i)
    /\ thread[i] = "post" => target[i] < Span /\ Up(target[i])
    /\ thread[i] = "ended" => stop[i]

\* What each loop has done so far, and what it has left.
LoopOk ==
  \A i \in Slots :
    /\ call.at = "idle" /\ i < nr_module => thread[i] \in Working /\ ~stop[i]
    /\ call.at = "init" => ~Started(i) /\ (i < call.i => Up(i) /\ ~stop[i])
    /\ call.at = "spawn" /\ i < call.nr =>
         /\ Up(i) /\ ~stop[i]
         /\ IF i < call.i THEN thread[i] \in Working ELSE ~Started(i)
    /\ call.at \in {"ask", "join"} /\ i < call.nr => Up(i)
    /\ call.at = "join" /\ i < call.i => ~Started(i)
    /\ call.at = "free" => ~Started(i) /\ (call.i <= i /\ i < call.nr => Up(i))

\* What is initialised can be reached, as long as no initialisation failed.
ReachedIn(i) ==
  /\ call.at = "idle" => i < nr_module
  /\ call.at = "init" => i < call.i
  /\ call.at \in {"spawn", "ask", "join"} => i < call.nr
  /\ call.at = "free" => call.i <= i /\ i < call.nr
ObjectsOk == ~init_failed => \A i \in Slots : mtx[i] \/ cv[i] => ReachedIn(i)

LifeInv == CallOk /\ ThreadsOk /\ LoopOk /\ ObjectsOk

\* The types are kept by every step, given which calls are in which loops.
LEMMA TypeStep ==
  ASSUME TypeOK, CallOk, [Next]_vars
  PROVE  TypeOK'
<1> USE SlotsAreNat, CallTyped DEF TypeOK, modules, threads
<1>1. CASE Create
  BY <1>1 DEF Create
<1>2. CASE Teardown
  BY <1>2, InTyped DEF Teardown, NrTornDown, CallOk
<1>3. CASE Destroy
  BY <1>3, InTyped DEF Destroy, NrTornDown, CallOk
<1>4. CASE DestroyIdle
  BY <1>4 DEF DestroyIdle
<1>5. CASE InitModule
  BY <1>5, FurtherTyped DEF InitModule, Loop
<1>6. CASE InitFails
  BY <1>6, IdleTyped DEF InitFails, Loop
<1>7. CASE StartThreads
  BY <1>7, InTyped DEF StartThreads, LoopDone, CallOk
<1>8. CASE Spawn
  BY <1>8, FurtherTyped DEF Spawn, Loop, Working
<1>9. CASE SpawnFails
  BY <1>9, InTyped DEF SpawnFails, RollBackOver, Loop, CallOk
<1>10. CASE SetupReturns
  BY <1>10, IdleTyped DEF SetupReturns
<1>11. CASE AskStop
  BY <1>11, FurtherTyped DEF AskStop, Loop
<1>12. CASE NextStopLoop
  <2>1. call.op \in {"setup", "teardown", "destroy"} /\ call.nr \in 0..MaxModule
    BY <1>12 DEF NextStopLoop, LoopDone, CallOk, CallRecord
  <2>2. call' \in CallRecord
    BY <1>12, <2>1, InTyped DEF NextStopLoop, NextLoop
  <2> QED BY <1>12, <2>2 DEF NextStopLoop
<1>13. CASE Join
  BY <1>13, FurtherTyped DEF Join, MustJoin, Loop
<1>14. CASE NoneToJoin
  BY <1>14, FurtherTyped DEF NoneToJoin, MustJoin, Loop
<1>15. CASE FreeModule
  BY <1>15, FurtherTyped DEF FreeModule, Loop
<1>16. CASE Stopped
  <2>1. nr_module' \in 0..MaxModule
    BY <1>16 DEF Stopped, NrAfter
  <2>2. alive' \in BOOLEAN
    BY <1>16 DEF Stopped
  <2> QED BY <1>16, <2>1, <2>2, IdleTyped DEF Stopped
<1>17. ASSUME NEW n \in Sizes, Setup(n) PROVE TypeOK'
  <2>1. n \in 0..MaxModule
    BY <1>17, LifecycleAssumption DEF Setup, Fits
  <2> QED BY <2>1, <1>17, InTyped DEF Setup
<1>18. ASSUME NEW i \in Slots, ThreadStep(i) PROVE TypeOK'
  <2>1. UNCHANGED <<alive, nr_module, modules, call, init_failed>>
    BY <1>18 DEF ThreadStep, LoopTop, WakesUp, WakesToStop, StartPost, Posted, PassOver
  <2>2. \E to \in Working \cup {"ended"} : thread' = [thread EXCEPT ![i] = to]
    BY <1>18 DEF ThreadStep, Goes, Working, LoopTop, WakesUp, WakesToStop, StartPost, Posted,
       PassOver
  <2>3. target' = target \/ \E j \in Slots : target' = [target EXCEPT ![i] = j]
    <3>1. 0 \in Slots
      BY DEF Slots
    <3> QED BY <1>18, <3>1 DEF ThreadStep, LoopTop, WakesUp, WakesToStop, StartPost, Posted,
               PassOver
  <2> QED BY <2>1, <2>2, <2>3
<1>19. CASE UNCHANGED vars
  BY <1>19 DEF vars
<1> QED
  BY <1>1, <1>2, <1>3, <1>4, <1>5, <1>6, <1>7, <1>8, <1>9, <1>10,
     <1>11, <1>12, <1>13, <1>14, <1>15, <1>16, <1>17, <1>18, <1>19
     DEF Next, Call

LEMMA InitLife == Init => TypeOK /\ LifeInv
<1> SUFFICES ASSUME Init PROVE TypeOK /\ LifeInv
  OBVIOUS
<1>1. TypeOK
  <2>1. 0 \in Slots
    BY SlotsAreNat DEF Slots
  <2>2. 0 \in 0..MaxModule
    BY SlotsAreNat
  <2> QED BY <2>1, <2>2, IdleTyped DEF Init, TypeOK
<1> USE DEF Init, Idle
<1>2. CallOk
  BY DEF CallOk
<1>3. ThreadsOk
  BY DEF ThreadsOk, Started, Working
<1>4. LoopOk
  BY SlotsAreNat DEF LoopOk, Slots
<1>5. ObjectsOk
  BY DEF ObjectsOk
<1> QED BY <1>1, <1>2, <1>3, <1>4, <1>5 DEF LifeInv

LEMMA CreateLife ==
  ASSUME TypeOK, LifeInv, Create
  PROVE  LifeInv'
<1> USE SlotsAreNat, CallTyped DEF TypeOK, LifeInv, Create, Idle, In, Loop, LoopDone,
        modules, threads, Slots
<1>1. CallOk'
  BY DEF CallOk
<1>2. ThreadsOk'
  BY DEF CallOk, ThreadsOk, LoopOk, Started, Up, Span, Working
<1>3. LoopOk'
  BY DEF CallOk, ThreadsOk, LoopOk, Started, Up, Span, Working
<1>4. ObjectsOk'
  BY DEF CallOk, ThreadsOk, LoopOk, ObjectsOk, ReachedIn, Started, Up, Span
<1> QED BY <1>1, <1>2, <1>3, <1>4

LEMMA TeardownLife ==
  ASSUME TypeOK, LifeInv, Teardown
  PROVE  LifeInv'
<1> USE SlotsAreNat, CallTyped DEF TypeOK, LifeInv, Teardown, NrTornDown, Idle, In, Loop, LoopDone,
        modules, threads, Slots
<1>1. CallOk'
  BY DEF CallOk
<1>2. ThreadsOk'
  BY DEF CallOk, ThreadsOk, LoopOk, Started, Up, Span, Working
<1>3. LoopOk'
  BY DEF CallOk, ThreadsOk, LoopOk, Started, Up, Span, Working
<1>4. ObjectsOk'
  BY DEF CallOk, ThreadsOk, LoopOk, ObjectsOk, ReachedIn, Started, Up, Span
<1> QED BY <1>1, <1>2, <1>3, <1>4

LEMMA DestroyLife ==
  ASSUME TypeOK, LifeInv, Destroy
  PROVE  LifeInv'
<1> USE SlotsAreNat, CallTyped DEF TypeOK, LifeInv, Destroy, NrTornDown, Idle, In, Loop, LoopDone,
        modules, threads, Slots
<1>1. CallOk'
  BY DEF CallOk
<1>2. ThreadsOk'
  BY DEF CallOk, ThreadsOk, LoopOk, Started, Up, Span, Working
<1>3. LoopOk'
  BY DEF CallOk, ThreadsOk, LoopOk, Started, Up, Span, Working
<1>4. ObjectsOk'
  BY DEF CallOk, ThreadsOk, LoopOk, ObjectsOk, ReachedIn, Started, Up, Span
<1> QED BY <1>1, <1>2, <1>3, <1>4

LEMMA DestroyIdleLife ==
  ASSUME TypeOK, LifeInv, DestroyIdle
  PROVE  LifeInv'
<1> USE SlotsAreNat, CallTyped DEF TypeOK, LifeInv, DestroyIdle, Idle, In, Loop, LoopDone,
        modules, threads, Slots
<1>1. CallOk'
  BY DEF CallOk
<1>2. ThreadsOk'
  BY DEF CallOk, ThreadsOk, LoopOk, Started, Up, Span, Working
<1>3. LoopOk'
  BY DEF CallOk, ThreadsOk, LoopOk, Started, Up, Span, Working
<1>4. ObjectsOk'
  BY DEF CallOk, ThreadsOk, LoopOk, ObjectsOk, ReachedIn, Started, Up, Span
<1> QED BY <1>1, <1>2, <1>3, <1>4

LEMMA InitModuleLife ==
  ASSUME TypeOK, LifeInv, InitModule
  PROVE  LifeInv'
<1> USE SlotsAreNat, CallTyped, FurtherTyped DEF TypeOK, LifeInv, InitModule, Idle, In, Loop, LoopDone,
        modules, threads, Slots
<1>1. CallOk'
  BY DEF CallOk
<1>2. ThreadsOk'
  BY DEF CallOk, ThreadsOk, LoopOk, Started, Up, Span, Working
<1>3. LoopOk'
  BY DEF CallOk, ThreadsOk, LoopOk, Started, Up, Span, Working
<1>4. ObjectsOk'
  BY DEF CallOk, ThreadsOk, LoopOk, ObjectsOk, ReachedIn, Started, Up, Span
<1> QED BY <1>1, <1>2, <1>3, <1>4

LEMMA InitFailsLife ==
  ASSUME TypeOK, LifeInv, InitFails
  PROVE  LifeInv'
<1> USE SlotsAreNat, CallTyped DEF Slots
<1>1. call.at = "init" /\ \A j \in Slots : ~Started(j)
  BY DEF InitFails, Loop, LifeInv, LoopOk
<1>2. /\ call'.at = "idle" /\ call'.op = "none" /\ call'.i = 0 /\ call'.nr = 0
      /\ nr_module' = 0 /\ init_failed' = TRUE
      /\ th_started' = [th_started EXCEPT ![call.i] = FALSE]
      /\ UNCHANGED <<thread, target>>
  BY DEF InitFails, Idle, threads
<1>3. CallOk'
  BY <1>2 DEF CallOk
<1>4. ThreadsOk'
  BY <1>1, <1>2 DEF TypeOK, LifeInv, ThreadsOk, Started, Working
<1>5. LoopOk'
  BY <1>2 DEF LoopOk
<1>6. ObjectsOk'
  BY <1>2 DEF ObjectsOk
<1> QED BY <1>3, <1>4, <1>5, <1>6 DEF LifeInv

LEMMA StartThreadsLife ==
  ASSUME TypeOK, LifeInv, StartThreads
  PROVE  LifeInv'
<1> USE SlotsAreNat, CallTyped DEF Slots
<1>1. call.at = "init" /\ call.i = call.nr /\ call.op = "setup" /\ nr_module = call.nr
  BY DEF StartThreads, LoopDone, LifeInv, CallOk
<1>2. /\ call'.at = "spawn" /\ call'.op = "setup" /\ call'.i = 0 /\ call'.nr = call.nr
      /\ UNCHANGED <<nr_module, mtx, cv, th_started, stop, thread, target, init_failed>>
  BY DEF StartThreads, In, modules, threads
<1>3. CallOk'
  BY <1>1, <1>2 DEF LifeInv, CallOk
<1>4. ThreadsOk'
  BY <1>1, <1>2 DEF LifeInv, ThreadsOk, LoopOk, Started, Up, Span, Working
<1>5. LoopOk'
  BY <1>1, <1>2 DEF LifeInv, ThreadsOk, LoopOk, Started, Up, Span, Working
<1>6. ObjectsOk'
  BY <1>1, <1>2 DEF LifeInv, ObjectsOk, ReachedIn
<1> QED BY <1>3, <1>4, <1>5, <1>6 DEF LifeInv

LEMMA SpawnLife ==
  ASSUME TypeOK, LifeInv, Spawn
  PROVE  LifeInv'
<1> USE SlotsAreNat, CallTyped, FurtherTyped DEF TypeOK, LifeInv, Spawn, Idle, In, Loop, LoopDone,
        modules, threads, Slots
<1>1. CallOk'
  BY DEF CallOk
<1>2. ThreadsOk'
  BY DEF CallOk, ThreadsOk, LoopOk, Started, Up, Span, Working
<1>3. LoopOk'
  BY DEF CallOk, ThreadsOk, LoopOk, Started, Up, Span, Working
<1>4. ObjectsOk'
  BY DEF CallOk, ThreadsOk, LoopOk, ObjectsOk, ReachedIn, Started, Up, Span
<1> QED BY <1>1, <1>2, <1>3, <1>4

LEMMA SpawnFailsLife ==
  ASSUME TypeOK, LifeInv, SpawnFails
  PROVE  LifeInv'
<1> USE SlotsAreNat, CallTyped DEF TypeOK, LifeInv, SpawnFails, RollBackOver, Idle, In, Loop, LoopDone,
        modules, threads, Slots
<1>1. CallOk'
  BY DEF CallOk
<1>2. ThreadsOk'
  BY DEF CallOk, ThreadsOk, LoopOk, Started, Up, Span, Working
<1>3. LoopOk'
  BY DEF CallOk, ThreadsOk, LoopOk, Started, Up, Span, Working
<1>4. ObjectsOk'
  BY DEF CallOk, ThreadsOk, LoopOk, ObjectsOk, ReachedIn, Started, Up, Span
<1> QED BY <1>1, <1>2, <1>3, <1>4

LEMMA SetupReturnsLife ==
  ASSUME TypeOK, LifeInv, SetupReturns
  PROVE  LifeInv'
<1> USE SlotsAreNat, CallTyped DEF Slots
<1>1. call.at = "spawn" /\ call.i = call.nr /\ call.op = "setup" /\ nr_module = call.nr
  BY DEF SetupReturns, LoopDone, LifeInv, CallOk
<1>2. /\ call'.at = "idle" /\ call'.op = "none" /\ call'.i = 0 /\ call'.nr = 0
      /\ UNCHANGED <<nr_module, mtx, cv, th_started, stop, thread, target, init_failed>>
  BY DEF SetupReturns, Idle, modules, threads
<1>3. CallOk'
  BY <1>1, <1>2 DEF LifeInv, CallOk
<1>4. ThreadsOk'
  BY <1>1, <1>2 DEF LifeInv, ThreadsOk, LoopOk, Started, Up, Span, Working
<1>5. LoopOk'
  BY <1>1, <1>2 DEF LifeInv, ThreadsOk, LoopOk, Started, Up, Working
<1>6. ObjectsOk'
  BY <1>1, <1>2 DEF LifeInv, ObjectsOk, ReachedIn
<1> QED BY <1>3, <1>4, <1>5, <1>6 DEF LifeInv

LEMMA AskStopLife ==
  ASSUME TypeOK, LifeInv, AskStop
  PROVE  LifeInv'
<1> USE SlotsAreNat, CallTyped, FurtherTyped DEF TypeOK, LifeInv, AskStop, Idle, In, Loop, LoopDone,
        modules, threads, Slots
<1>1. CallOk'
  BY DEF CallOk
<1>2. ThreadsOk'
  BY DEF CallOk, ThreadsOk, LoopOk, Started, Up, Span, Working
<1>3. LoopOk'
  BY DEF CallOk, ThreadsOk, LoopOk, Started, Up, Span, Working
<1>4. ObjectsOk'
  BY DEF CallOk, ThreadsOk, LoopOk, ObjectsOk, ReachedIn, Started, Up, Span
<1> QED BY <1>1, <1>2, <1>3, <1>4

LEMMA NextStopLoopLife ==
  ASSUME TypeOK, LifeInv, NextStopLoop
  PROVE  LifeInv'
<1> USE SlotsAreNat, CallTyped DEF Slots
<1>1. call.at \in {"ask", "join"} /\ call.i = call.nr
  BY DEF NextStopLoop, LoopDone
<1>2. /\ call'.at = (IF call.at = "ask" THEN "join" ELSE "free")
      /\ call'.op = call.op /\ call'.i = 0 /\ call'.nr = call.nr
      /\ UNCHANGED <<nr_module, mtx, cv, th_started, stop, thread, target, init_failed>>
  BY DEF NextStopLoop, NextLoop, In, modules, threads
<1>3. CallOk'
  BY <1>1, <1>2 DEF LifeInv, CallOk
<1>4. ThreadsOk'
  BY <1>1, <1>2 DEF LifeInv, ThreadsOk, LoopOk, Started, Up, Span, Working
<1>5. LoopOk'
  BY <1>1, <1>2 DEF LifeInv, ThreadsOk, LoopOk, Started, Up, Span, Working
<1>6. ObjectsOk'
  BY <1>1, <1>2 DEF LifeInv, ObjectsOk, ReachedIn
<1> QED BY <1>3, <1>4, <1>5, <1>6 DEF LifeInv

LEMMA JoinLife ==
  ASSUME TypeOK, LifeInv, Join
  PROVE  LifeInv'
<1> USE SlotsAreNat, CallTyped, FurtherTyped DEF TypeOK, LifeInv, Join, MustJoin, Idle, In, Loop, LoopDone,
        modules, threads, Slots
<1>1. CallOk'
  BY DEF CallOk
<1>2. ThreadsOk'
  BY DEF CallOk, ThreadsOk, LoopOk, Started, Up, Span, Working
<1>3. LoopOk'
  BY DEF CallOk, ThreadsOk, LoopOk, Started, Up, Span, Working
<1>4. ObjectsOk'
  BY DEF CallOk, ThreadsOk, LoopOk, ObjectsOk, ReachedIn, Started, Up, Span
<1> QED BY <1>1, <1>2, <1>3, <1>4

LEMMA NoneToJoinLife ==
  ASSUME TypeOK, LifeInv, NoneToJoin
  PROVE  LifeInv'
<1> USE SlotsAreNat, CallTyped, FurtherTyped DEF TypeOK, LifeInv, NoneToJoin, MustJoin, Idle, In, Loop, LoopDone,
        modules, threads, Slots
<1>1. CallOk'
  BY DEF CallOk
<1>2. ThreadsOk'
  BY DEF CallOk, ThreadsOk, LoopOk, Started, Up, Span, Working
<1>3. LoopOk'
  BY DEF CallOk, ThreadsOk, LoopOk, Started, Up, Span, Working
<1>4. ObjectsOk'
  BY DEF CallOk, ThreadsOk, LoopOk, ObjectsOk, ReachedIn, Started, Up, Span
<1> QED BY <1>1, <1>2, <1>3, <1>4

LEMMA FreeModuleLife ==
  ASSUME TypeOK, LifeInv, FreeModule
  PROVE  LifeInv'
<1> USE SlotsAreNat, CallTyped, FurtherTyped DEF TypeOK, LifeInv, FreeModule, Idle, In, Loop, LoopDone,
        modules, threads, Slots
<1>1. CallOk'
  BY DEF CallOk
<1>2. ThreadsOk'
  BY DEF CallOk, ThreadsOk, LoopOk, Started, Up, Span, Working
<1>3. LoopOk'
  BY DEF CallOk, ThreadsOk, LoopOk, Started, Up, Span, Working
<1>4. ObjectsOk'
  BY DEF CallOk, ThreadsOk, LoopOk, ObjectsOk, ReachedIn, Started, Up, Span
<1> QED BY <1>1, <1>2, <1>3, <1>4

LEMMA StoppedLife ==
  ASSUME TypeOK, LifeInv, Stopped
  PROVE  LifeInv'
<1> USE SlotsAreNat, CallTyped DEF Slots
<1>1. call.at = "free" /\ call.i = call.nr
  BY DEF Stopped, LoopDone
<1>2. /\ call'.at = "idle" /\ call'.op = "none" /\ call'.i = 0 /\ call'.nr = 0
      /\ nr_module' = 0
      /\ UNCHANGED <<mtx, cv, th_started, stop, thread, target, init_failed>>
  BY <1>1 DEF Stopped, NrAfter, Idle, modules, threads, TypeOK, CallRecord, LifeInv, CallOk
<1>3. CallOk'
  BY <1>1, <1>2 DEF LifeInv, CallOk
<1>4. ThreadsOk'
  BY <1>1, <1>2 DEF LifeInv, ThreadsOk, LoopOk, Started, Up, Span, Working
<1>5. LoopOk'
  BY <1>1, <1>2 DEF LifeInv, ThreadsOk, LoopOk, Started, Up, Working
<1>6. ObjectsOk'
  BY <1>1, <1>2 DEF LifeInv, ObjectsOk, ReachedIn
<1> QED BY <1>3, <1>4, <1>5, <1>6 DEF LifeInv

LEMMA SetupLife ==
  ASSUME TypeOK, LifeInv, NEW n \in Sizes, Setup(n)
  PROVE  LifeInv'
<1>0. n \in Nat
  BY LifecycleAssumption
<1> USE <1>0, SlotsAreNat, CallTyped DEF TypeOK, LifeInv, Setup, Idle, In, Loop, LoopDone,
        modules, threads, Slots
<1>1. CallOk'
  BY DEF CallOk
<1>2. ThreadsOk'
  BY DEF CallOk, ThreadsOk, LoopOk, Started, Up, Span, Working
<1>3. LoopOk'
  BY DEF CallOk, ThreadsOk, LoopOk, Started, Up, Span, Working
<1>4. ObjectsOk'
  BY DEF CallOk, ThreadsOk, LoopOk, ObjectsOk, ReachedIn, Started, Up, Span
<1> QED BY <1>1, <1>2, <1>3, <1>4

LEMMA LoopTopLife ==
  ASSUME TypeOK, LifeInv, NEW i \in Slots, LoopTop(i)
  PROVE  LifeInv'
<1> USE DEF TypeOK, LifeInv, LoopTop, MayGoOn, Goes, modules
<1>1. CallOk'
  BY DEF CallOk
<1>2. ThreadsOk'
  BY SlotsAreNat DEF ThreadsOk, Started, Up, Span, Working
<1>3. LoopOk'
  BY DEF LoopOk, ThreadsOk, Started, Up, Span, Working
<1>4. ObjectsOk'
  BY DEF ObjectsOk, ReachedIn
<1> QED BY <1>1, <1>2, <1>3, <1>4

LEMMA WakesUpLife ==
  ASSUME TypeOK, LifeInv, NEW i \in Slots, WakesUp(i)
  PROVE  LifeInv'
<1> USE DEF TypeOK, LifeInv, WakesUp, Goes, modules
<1>1. CallOk'
  BY DEF CallOk
<1>2. ThreadsOk'
  BY SlotsAreNat DEF ThreadsOk, Started, Up, Span, Working
<1>3. LoopOk'
  BY DEF LoopOk, ThreadsOk, Started, Up, Span, Working
<1>4. ObjectsOk'
  BY DEF ObjectsOk, ReachedIn
<1> QED BY <1>1, <1>2, <1>3, <1>4

LEMMA WakesToStopLife ==
  ASSUME TypeOK, LifeInv, NEW i \in Slots, WakesToStop(i)
  PROVE  LifeInv'
<1> USE DEF TypeOK, LifeInv, WakesToStop, Goes, modules
<1>1. CallOk'
  BY DEF CallOk
<1>2. ThreadsOk'
  BY SlotsAreNat DEF ThreadsOk, Started, Up, Span, Working
<1>3. LoopOk'
  BY DEF LoopOk, ThreadsOk, Started, Up, Span, Working
<1>4. ObjectsOk'
  BY DEF ObjectsOk, ReachedIn
<1> QED BY <1>1, <1>2, <1>3, <1>4

LEMMA StartPostLife ==
  ASSUME TypeOK, LifeInv, NEW i \in Slots, StartPost(i)
  PROVE  LifeInv'
<1> USE DEF TypeOK, LifeInv, StartPost, Goes, modules
<1>1. CallOk'
  BY DEF CallOk
<1>2. ThreadsOk'
  <2>1. Started(i)
    BY DEF Started, Working
  <2>2. ASSUME NEW k \in Slots, k < nr_module PROVE k < Span /\ Up(k)
    <3>1. CASE call.at = "idle"
      BY <2>2, <3>1 DEF ThreadsOk, LoopOk, Started, Span
    <3>2. CASE call.at # "idle"
      <4>1. call.at \in {"spawn", "ask", "join"}
        BY <2>1, <3>2 DEF CallRecord, LoopOk
      <4>2. nr_module = call.nr
        BY <2>2, <3>2, SlotsAreNat DEF CallOk, CallRecord, Slots
      <4> QED BY <2>2, <4>1, <4>2 DEF LoopOk, Span
    <3> QED BY <3>1, <3>2
  <2> QED BY <2>1, <2>2 DEF ThreadsOk, Started, Up, Span, Working
<1>3. LoopOk'
  BY DEF LoopOk, ThreadsOk, Started, Up, Span, Working
<1>4. ObjectsOk'
  BY DEF ObjectsOk, ReachedIn
<1> QED BY <1>1, <1>2, <1>3, <1>4

LEMMA PostedLife ==
  ASSUME TypeOK, LifeInv, NEW i \in Slots, Posted(i)
  PROVE  LifeInv'
<1> USE DEF TypeOK, LifeInv, Posted, Goes, modules
<1>1. CallOk'
  BY DEF CallOk
<1>2. ThreadsOk'
  BY SlotsAreNat DEF ThreadsOk, Started, Up, Span, Working
<1>3. LoopOk'
  BY DEF LoopOk, ThreadsOk, Started, Up, Span, Working
<1>4. ObjectsOk'
  BY DEF ObjectsOk, ReachedIn
<1> QED BY <1>1, <1>2, <1>3, <1>4

LEMMA PassOverLife ==
  ASSUME TypeOK, LifeInv, NEW i \in Slots, PassOver(i)
  PROVE  LifeInv'
<1> USE DEF TypeOK, LifeInv, PassOver, Goes, modules
<1>1. CallOk'
  BY DEF CallOk
<1>2. ThreadsOk'
  BY SlotsAreNat DEF ThreadsOk, Started, Up, Span, Working
<1>3. LoopOk'
  BY DEF LoopOk, ThreadsOk, Started, Up, Span, Working
<1>4. ObjectsOk'
  BY DEF ObjectsOk, ReachedIn
<1> QED BY <1>1, <1>2, <1>3, <1>4

LEMMA NextLife == TypeOK /\ LifeInv /\ [Next]_vars => (TypeOK /\ LifeInv)'
<1> SUFFICES ASSUME TypeOK, LifeInv, [Next]_vars PROVE TypeOK' /\ LifeInv'
  OBVIOUS
<1>1. TypeOK'
  BY TypeStep DEF LifeInv
<1>2. CASE Create \/ Teardown \/ Destroy \/ DestroyIdle
  BY <1>1, <1>2, CreateLife, TeardownLife, DestroyLife, DestroyIdleLife
<1>3. ASSUME NEW n \in Sizes, Setup(n) PROVE LifeInv'
  BY <1>1, <1>3, SetupLife
<1>4. CASE Call
  BY <1>1, <1>4, InitModuleLife, InitFailsLife, StartThreadsLife, SpawnLife, SpawnFailsLife, SetupReturnsLife, AskStopLife, NextStopLoopLife, JoinLife, NoneToJoinLife, FreeModuleLife, StoppedLife DEF Call
<1>5. ASSUME NEW i \in Slots, ThreadStep(i) PROVE LifeInv'
  BY <1>1, <1>5, LoopTopLife, WakesUpLife, WakesToStopLife, StartPostLife, PostedLife,
     PassOverLife DEF ThreadStep
<1>6. CASE UNCHANGED vars
  <2>1. UNCHANGED <<call, nr_module, mtx, cv, th_started, stop, thread, target, init_failed>>
    BY <1>6 DEF vars, modules, threads
  <2>2. CallOk'
    BY <2>1 DEF LifeInv, CallOk
  <2>3. ThreadsOk'
    BY <2>1 DEF LifeInv, ThreadsOk, Started, Up, Span
  <2>5. LoopOk'
    BY <2>1 DEF LifeInv, LoopOk, Started, Up
  <2>6. ObjectsOk'
    BY <2>1 DEF LifeInv, ObjectsOk, ReachedIn
  <2> QED BY <1>1, <2>2, <2>3, <2>5, <2>6 DEF LifeInv
<1> QED BY <1>1, <1>2, <1>3, <1>4, <1>5, <1>6 DEF Next

LEMMA LifeIsInvariant == Spec => [](TypeOK /\ LifeInv)
  BY InitLife, NextLife, PTL DEF Spec

-----------------------------------------------------------------------------
(* Theorems *)

\* create, setup, teardown, destroy: nr_module and every index into the table stay
\* within MAX_MODULE.
THEOREM TypeCorrect == Spec => []TypeOK
  BY LifeIsInvariant, PTL

\* setup, stop_modules: a module thread never locks a mutex that is not there.
THEOREM MutexesAreThere == Spec => []MutexesOutliveThreads
<1>1. TypeOK /\ LifeInv => MutexesOutliveThreads
  BY DEF Idle, Loop, TypeOK, LifeInv, ThreadsOk, MutexesOutliveThreads, Started, Up
<1> QED BY <1>1, LifeIsInvariant, PTL

\* stop_modules: nothing is joined or destroyed twice, or while in use.
THEOREM StopsWhatRuns == Spec => []StopsOnlyWhatWasStarted
<1>1. TypeOK /\ LifeInv => StopsOnlyWhatWasStarted
  <2> SUFFICES ASSUME TypeOK, LifeInv PROVE StopsOnlyWhatWasStarted
    OBVIOUS
  <2>1. call.i < call.nr => call.i \in Slots
    BY CallTyped
  <2>2. Loop("join") /\ MustJoin(call.i) => thread[call.i] \in Working \cup {"ended"}
    BY <2>1 DEF Loop, MustJoin, LifeInv, ThreadsOk, Started
  <2>3. Loop("free") => mtx[call.i] /\ cv[call.i] /\ ~Started(call.i)
    BY <2>1, CallTyped DEF Loop, LifeInv, LoopOk, Up
  <2>4. call.i < call.nr => thread[call.i] \in Working \cup {"none", "ended", "joined"}
    BY <2>1 DEF TypeOK
  <2> QED BY <2>2, <2>3, <2>4 DEF StopsOnlyWhatWasStarted, Loop, Started
<1> QED BY <1>1, LifeIsInvariant, PTL

\* setup, teardown: all modules of the table run, or none.
THEOREM SetupIsAllOrNothing == Spec => []AllOrNothing
<1>1. TypeOK /\ LifeInv => AllOrNothing
  BY SlotsAreNat, CallTyped DEF Idle, Loop, TypeOK, LifeInv, ThreadsOk, LoopOk, AllOrNothing, Started, Span, Working,
     Slots
<1> QED BY <1>1, LifeIsInvariant, PTL

\* setup, teardown: no mutex or condition variable is left behind.
THEOREM NothingIsLeft == Spec => []NothingLeft
<1>1. TypeOK /\ LifeInv => NothingLeft
  BY DEF Idle, Loop, TypeOK, LifeInv, ObjectsOk, ReachedIn, NothingLeft
<1> QED BY <1>1, LifeIsInvariant, PTL
=============================================================================
