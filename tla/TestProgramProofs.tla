------------------------- MODULE TestProgramProofs -------------------------
(***************************************************************************)
(* The programs that come with coseq are behaviours of Coseq: what main,   *)
(* the clock and the sequences of TestProgram do to an instance is what    *)
(* Next allows.  The theorems about Coseq hold of them: TLC evaluates, on  *)
(* the programs themselves, the conditions those theorems ask for.         *)
(***************************************************************************)
EXTENDS CoseqLockProofs, CoseqRequestProofs, TestProgram

\* What main has left asks for what external threads may ask; the client id main was
\* handed is one.
MainInv ==
  /\ main \in Seq(MainStatements)
  /\ client_id \in ClientId

\* The next statement of main is one of its program.
LEMMA NextStatement ==
  ASSUME MainInv, main # <<>>
  PROVE  Head(main) \in MainStatements /\ Tail(main) \in Seq(MainStatements)
  BY HeadTailProperties DEF MainInv

\* main: its requests are those of an external thread.
LEMMA MainSteps ==
  ASSUME MainInv, MainStep
  PROVE  [Next]_vars /\ MainInv'
<1>0. main' = main \/ (main # <<>> /\ main' = Tail(main))
  BY DEF MainStep, MainAsks, MainIsAnswered, MainFires, MainSleeps, MainRemembers, MainChecks,
         MainEnds, MainStops, Executes, Next1
<1>1. client_id' = client_id
  BY DEF MainStep, MainAsks, MainIsAnswered, MainFires, MainSleeps, MainRemembers, MainChecks,
         MainEnds, MainStops, dataVars
<1>2. MainInv'
  BY <1>0, <1>1, NextStatement DEF MainInv
<1>3. ASSUME Executes("sync") \/ Executes("async")
      PROVE  Asked \in ExtCalls
  BY <1>3, NextStatement, InstanceAssumption DEF Executes, Asked
<1>4. MainThread \in Clients
  BY InstanceAssumption
<1>5. CASE MainAsks \/ MainIsAnswered \/ MainFires
  <2>1. External(MainThread)
    BY <1>3, <1>5 DEF MainAsks, MainIsAnswered, MainFires, External
  <2> QED BY <1>2, <1>4, <2>1 DEF Next
<1>6. CASE MainSleeps \/ MainRemembers \/ MainChecks
  BY <1>2, <1>6 DEF MainSleeps, MainRemembers, MainChecks
<1>7. CASE MainEnds \/ MainStops
  BY <1>2, <1>7 DEF MainEnds, MainStops, Next, Owner
<1> QED BY <1>5, <1>6, <1>7 DEF MainStep

\* A module's thread makes the calls Coseq lets it make: unregist passes on a client id
\* that a registration was given.
LEMMA ModuleSteps ==
  ASSUME MainInv, NEW m \in Modules, ModuleStep(m)
  PROVE  Next /\ MainInv'
<1>1. main' = main
  BY DEF ModuleStep
<1>2. CASE SchedulerStep(m)
  <2>1. Sched(m) /\ client_id' = client_id
    BY <1>2 DEF SchedulerStep, Sched
  <2> QED BY <1>1, <2>1 DEF Next, Thread, MainInv
<1>3. CASE SequenceStep(m)
  <2> DEFINE f == current[m]
  <2>1. PICK c \in NextCalls(m) :
          \/ RegNotify(m, f, c) \/ Unregisters(m, f, c)
          \/ Calls(m, f, c) \/ NotifyCalls(m, f, c)
    BY <1>3 DEF SequenceStep
  <2>2. f # NoFiber /\ client_id' = IF fib[f].reg \in ClientId THEN fib[f].reg ELSE client_id
    BY <1>3 DEF SequenceStep
  <2> HIDE DEF f
  <2>3. RegNotify(m, f, c) \/ Unregisters(m, f, c) => NotifyCalls(m, f, c)
    BY DEF RegNotify, Unregisters, NotifyCalls, MainInv
  <2>4. Sequence(m)
    BY <2>1, <2>2, <2>3 DEF Sequence, f
  <2> QED BY <1>1, <2>2, <2>4 DEF Next, Thread, MainInv
<1> QED BY <1>2, <1>3 DEF ModuleStep

\* testpp/main.cpp, sample.c and samplespp/sample.cpp run on the instance coseq.c
\* implements: each step of theirs, of main, of a module's thread or of the clock, is
\* one of Coseq or leaves the instance alone.
THEOREM ProgramsRunOnCoseq == TestSpec => Spec
<1>1. TestInit => Init /\ MainInv
  <2>1. TestMain \in Seq(MainStatements) /\ SampleMain \in Seq(MainStatements)
    BY InstanceAssumption
  <2>2. 0 \in ClientId
    BY ZeroClient
  <2> QED BY <2>1, <2>2 DEF TestInit, MainInv
<1>2. MainInv /\ [TestNext]_testVars => [Next]_vars /\ MainInv'
  <2> SUFFICES ASSUME MainInv, [TestNext]_testVars PROVE [Next]_vars /\ MainInv'
    OBVIOUS
  <2>1. CASE MainStep
    BY <2>1, MainSteps
  <2>2. ASSUME NEW m \in Modules, ModuleStep(m) PROVE [Next]_vars /\ MainInv'
    BY <2>2, ModuleSteps
  <2>3. ASSUME NEW f \in Fibers, Expires(f) PROVE [Next]_vars /\ MainInv'
    BY <2>3 DEF Expires, Next, MainInv, dataVars
  <2>4. CASE TimeGoesOn
    BY <2>4 DEF TimeGoesOn, MainInv, dataVars
  <2>5. CASE UNCHANGED testVars
    BY <2>5 DEF testVars, MainInv, dataVars
  <2> QED BY <2>1, <2>2, <2>3, <2>4, <2>5 DEF TestNext
<1> QED BY <1>1, <1>2, PTL DEF TestSpec, Spec

-----------------------------------------------------------------------------
(* What the programs get from coseq *)

\* They meet the conditions of the theorems about Coseq.
LEMMA ProgramsAreSound ==
  CollectsBeforeReturn /\ HandlersDoNotLock /\ OnePublisher /\ AtMostOneClient
<1>1. CollectsBeforeReturn
  BY ProgramsAssumption DEF HasLargestLedgers, CollectsBeforeReturn
<1>2. AtMostOneClient
  BY InstanceAssumption DEF AtMostOneClient
<1> QED BY <1>1, <1>2, ProgramsAssumption

\* coseq_lock, coseq_unlock and reap_done, as testpp's lock_seq and the sample's a_chain
\* use them: while one of them holds module A, nothing else of it runs but handlers, and
\* the lock is given back, however long main's requests and the timers take.
THEOREM ProgramsLock == TestSpec => [](LockExclusion /\ LockHolderLive /\ NothingStranded)
  BY ProgramsRunOnCoseq, ProgramsAreSound, LockExcludes, LockHolderIsLive, NothingIsStranded, PTL

\* The requests, fan-outs and gathers of the programs: no answer is lost or handed out
\* twice, none comes from a module that was not asked, none reaches a freed fiber.
THEOREM ProgramsRequests ==
  TestSpec => /\ [](PendingFibersLive /\ AsyncAccounting /\ NoFiberForgotten)
              /\ RequestGetsItsReply /\ AnswersRequests /\ AnswersComeFromCallee
  BY ProgramsRunOnCoseq, ProgramsAreSound, PendingFibersAreLive, AccountsBalance,
     NoFiberIsForgotten, RequestIsAnswered, RequestsAreAnswered, CalleesAnswer, PTL

\* Main's request_sync returns with the answer to its own request, and B and C register
\* with client ids that are not the sentinel.
THEOREM ProgramsOutside == TestSpec => [](ClientGetsOwnReply /\ SentinelNeverGiven)
  BY ProgramsRunOnCoseq, ProgramsAreSound, OneClient, SentinelIsNeverGiven, PTL
=============================================================================
