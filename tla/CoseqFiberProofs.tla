------------------------- MODULE CoseqFiberProofs -------------------------
(***************************************************************************)
(* What keeps the fibers of a module resumable: its list, the lock, the    *)
(* table of pending requests and the waits of each fiber agree.  The       *)
(* argument is one inductive invariant, FiberInv, local to each thread: a  *)
(* step of one thread touches nothing that another thread's part reads.    *)
(*                                                                         *)
(* One thing is asked of the program: a sequence that made asynchronous    *)
(* requests collects their replies before it returns.  Without it the run  *)
(* abandoned shows handle_reply writing through a fiber that was freed.    *)
(***************************************************************************)
EXTENDS CoseqProofs, FiniteSetTheorems

(***************************************************************************)
(* The record of one fiber, as a predicate on values: r is its contents,   *)
(* mine the pending entries that name it, running whether its thread is in *)
(* it.                                                                     *)
(***************************************************************************)
Awaited(r, mine) == {p \in mine : ~("reply" \in r.waits /\ p.req_id = r.wait_req_id)}

RecordOk(f, r, mine, running) ==
  /\ running => ~r.done /\ r.waits = {}
  /\ ~running /\ ~r.done => r.waits # {}
  /\ r.done => r.waits = {}
  /\ ~({"reply", "any"} \subseteq r.waits)
  /\ "reply" \in r.waits => Pending(r.wait_req_id, f) \in mine
  /\ "any" \in r.waits => Awaited(r, mine) # {}
  /\ r.async_outstanding = Cardinality(Awaited(r, mine)) + Len(r.rq)

\* The pending entries of module m that name f.
Mine(m, f) == {p \in pending[m] : p.f = f}

FibersOk(m) ==
  \A f \in Live(m) :
    /\ RecordOk(f, fib[f], Mine(m, f), f = current[m])
    /\ loop[m] # "run" => ~fib[f].done

\* Every pending entry leads to a live fiber, and no two have the same id.
PendingOk(m) ==
  /\ IsFiniteSet(pending[m])
  /\ \A p \in pending[m] : p.f \in Live(m) /\ p.req_id < next_req_id[m]
  /\ \A p, q \in pending[m] : p.req_id = q.req_id => p = q

SchedulerOk(m) ==
  /\ current[m] # NoFiber => current[m] \in Live(m) /\ loop[m] = "run"
  /\ due[m] \subseteq Live(m)
  /\ \A f \in due[m] : "timer" \in fib[f].waits
  /\ due[m] # {} => loop[m] = "run"
  /\ loop[m] # "stopped" => locked_by[m] \in Live(m) \cup {NoFiber}
  /\ loop[m] = "wait" /\ deferred[m] # <<>> => locked_by[m] # NoFiber

ThreadOk(m) == FibersOk(m) /\ PendingOk(m) /\ SchedulerOk(m)

\* No record is in the lists of two modules, and a free one waits for nothing.
AllStopped == \A m \in Modules : loop[m] = "stopped"
HeapOk ==
  /\ \A m, n \in Modules : m # n => Live(m) \cap Live(n) = {}
  /\ AllStopped \/ \A f \in Unused : fib[f].waits = {}

FiberInv == HeapOk /\ \A m \in Modules : ThreadOk(m)

\* What is asked of the program.
AllCollected ==
  \A m \in Modules : \A f \in Live(m) : fib[f].done => fib[f].async_outstanding = 0

-----------------------------------------------------------------------------
(* Records *)

\* One entry more or one fewer among the entries a fiber awaits.
LEMMA OneMore ==
  ASSUME NEW S, IsFiniteSet(S), NEW x
  PROVE  /\ x \notin S => IsFiniteSet(S \cup {x}) /\ Cardinality(S \cup {x}) = Cardinality(S) + 1
         /\ x \in S => IsFiniteSet(S \ {x}) /\ Cardinality(S \ {x}) = Cardinality(S) - 1
         /\ Cardinality(S) \in Nat
  BY FS_AddElement, FS_RemoveElement, FS_CardinalityType

\* A call that neither asks, waits nor collects.
LEMMA SameAccounts ==
  ASSUME NEW f, NEW r, NEW mine, RecordOk(f, r, mine, TRUE), NEW s,
         s.done = r.done, s.waits = r.waits, s.rq = r.rq,
         s.async_outstanding = r.async_outstanding
  PROVE  RecordOk(f, s, mine, TRUE)
  BY DEF RecordOk, Awaited

\* request_common: the new entry is the one the fiber is inside, not an awaited one.
LEMMA AskAndWait ==
  ASSUME NEW f, NEW r, NEW mine, RecordOk(f, r, mine, TRUE),
         NEW rid, \A p \in mine : p.req_id # rid, NEW s,
         s.done = r.done, s.rq = r.rq, s.async_outstanding = r.async_outstanding,
         s.wait_req_id = rid, s.waits \in {{"reply"}, {"reply", "timer"}}
  PROVE  RecordOk(f, s, mine \cup {Pending(rid, f)}, FALSE)
<1>1. Awaited(s, mine \cup {Pending(rid, f)}) = mine /\ Awaited(r, mine) = mine
  BY DEF Awaited, Pending, RecordOk
<1> QED BY <1>1 DEF RecordOk

\* coseq_request_async: one entry and one reply outstanding more.
LEMMA AskAndGoOn ==
  ASSUME NEW f, NEW r, NEW mine, RecordOk(f, r, mine, TRUE), IsFiniteSet(mine),
         NEW rid, \A p \in mine : p.req_id # rid, NEW s,
         s.done = r.done, s.rq = r.rq, s.waits = r.waits, Len(r.rq) \in Nat,
         s.async_outstanding = r.async_outstanding + 1
  PROVE  RecordOk(f, s, mine \cup {Pending(rid, f)}, TRUE)
<1>1. Pending(rid, f) \notin mine
  BY DEF Pending
<1>2. /\ Awaited(s, mine \cup {Pending(rid, f)}) = mine \cup {Pending(rid, f)}
      /\ Awaited(r, mine) = mine
  BY DEF Awaited, RecordOk
<1>3. Cardinality(mine \cup {Pending(rid, f)}) = Cardinality(mine) + 1 /\ Cardinality(mine) \in Nat
  BY <1>1, OneMore
<1>4. s.async_outstanding = Cardinality(mine \cup {Pending(rid, f)}) + Len(s.rq)
  BY <1>2, <1>3 DEF RecordOk
<1> QED BY <1>2, <1>4 DEF RecordOk

\* coseq_wait_reply that finds a queued reply.
LEMMA TakeQueued ==
  ASSUME NEW f, NEW r, NEW mine, RecordOk(f, r, mine, TRUE), IsFiniteSet(mine), NEW s,
         s.done = r.done, s.waits = r.waits, Len(r.rq) \in Nat, Len(s.rq) = Len(r.rq) - 1,
         s.async_outstanding = r.async_outstanding - 1
  PROVE  RecordOk(f, s, mine, TRUE)
<1>1. Awaited(s, mine) = mine /\ Awaited(r, mine) = mine
  BY DEF Awaited, RecordOk
<1>2. Cardinality(mine) \in Nat
  BY OneMore
<1>3. s.async_outstanding = Cardinality(mine) + Len(s.rq)
  BY <1>1, <1>2 DEF RecordOk
<1> QED BY <1>1, <1>3 DEF RecordOk

\* coseq_wait_reply that must wait: there is an entry to wait for.
LEMMA WaitForAny ==
  ASSUME NEW f, NEW r, NEW mine, RecordOk(f, r, mine, TRUE), NEW s,
         s.done = r.done, s.rq = r.rq, s.async_outstanding = r.async_outstanding,
         s.waits = {"any"}, r.async_outstanding # 0, Len(r.rq) = 0
  PROVE  RecordOk(f, s, mine, FALSE)
<1>1. Awaited(s, mine) = mine /\ Awaited(r, mine) = mine
  BY DEF Awaited, RecordOk
<1>2. mine # {}
  <2>1. r.async_outstanding = Cardinality(mine) + 0
    BY <1>1 DEF RecordOk
  <2>2. SUFFICES ASSUME mine = {} PROVE FALSE
    OBVIOUS
  <2>3. Cardinality(mine) = 0
    BY <2>2, FS_EmptySet
  <2>4. r.async_outstanding = 0
    BY <2>1, <2>3
  <2> QED BY <2>4
<1> QED BY <1>1, <1>2 DEF RecordOk

\* coseq_wait_timeout.
LEMMA WaitForTimer ==
  ASSUME NEW f, NEW r, NEW mine, RecordOk(f, r, mine, TRUE), NEW s,
         s.done = r.done, s.rq = r.rq, s.async_outstanding = r.async_outstanding,
         s.waits = {"timer"}
  PROVE  RecordOk(f, s, mine, FALSE)
<1>1. Awaited(s, mine) = mine /\ Awaited(r, mine) = mine
  BY DEF Awaited, RecordOk
<1> QED BY <1>1 DEF RecordOk

\* fiber_entry, when the sequence has returned.
LEMMA Finish ==
  ASSUME NEW f, NEW r, NEW mine, RecordOk(f, r, mine, TRUE), NEW s,
         s.done, s.rq = r.rq, s.async_outstanding = r.async_outstanding, s.waits = {}
  PROVE  RecordOk(f, s, mine, FALSE)
<1>1. Awaited(s, mine) = mine /\ Awaited(r, mine) = mine
  BY DEF Awaited, RecordOk
<1> QED BY <1>1 DEF RecordOk

\* A fiber whose request ended, by its reply or by its timeout: its entry is gone.
LEMMA RequestOver ==
  ASSUME NEW f, NEW r, NEW mine, RecordOk(f, r, mine, FALSE), "reply" \in r.waits, NEW s,
         s.done = r.done, s.rq = r.rq, s.async_outstanding = r.async_outstanding,
         s.waits = {}
  PROVE  RecordOk(f, s, {p \in mine : p.req_id # r.wait_req_id}, TRUE)
<1>1. /\ Awaited(s, {p \in mine : p.req_id # r.wait_req_id}) = {p \in mine : p.req_id # r.wait_req_id}
      /\ Awaited(r, mine) = {p \in mine : p.req_id # r.wait_req_id}
  BY DEF Awaited
<1> QED BY <1>1 DEF RecordOk

\* A fiber whose plain timer expired.
LEMMA TimerOver ==
  ASSUME NEW f, NEW r, NEW mine, RecordOk(f, r, mine, FALSE), "timer" \in r.waits,
         "reply" \notin r.waits, NEW s,
         s.done = r.done, s.rq = r.rq, s.async_outstanding = r.async_outstanding,
         s.waits = {}
  PROVE  RecordOk(f, s, mine, TRUE)
<1>1. Awaited(s, mine) = mine /\ Awaited(r, mine) = mine
  BY DEF Awaited
<1> QED BY <1>1 DEF RecordOk

\* An awaited reply arrives: its entry goes.  The fiber sleeps in
\* coseq_wait_reply and takes the reply with it ...
LEMMA HandedOver ==
  ASSUME NEW f, NEW r, NEW mine, RecordOk(f, r, mine, FALSE), IsFiniteSet(mine),
         NEW p \in Awaited(r, mine),
         Len(r.rq) \in Nat, "any" \in r.waits,
         NEW s, s.done = r.done, s.rq = r.rq, s.waits = {},
         s.async_outstanding = r.async_outstanding - 1
  PROVE  RecordOk(f, s, mine \ {p}, TRUE)
<1>0. /\ Cardinality(Awaited(r, mine) \ {p}) = Cardinality(Awaited(r, mine)) - 1
      /\ Cardinality(Awaited(r, mine)) \in Nat
  <2>1. IsFiniteSet(Awaited(r, mine))
    BY FS_Subset DEF Awaited
  <2> QED BY <2>1, OneMore
<1>1. r.async_outstanding = Cardinality(Awaited(r, mine)) + Len(r.rq)
  BY DEF RecordOk
<1>2. "reply" \notin r.waits /\ ~r.done
  BY DEF RecordOk
<1>3. Awaited(s, mine \ {p}) = Awaited(r, mine) \ {p}
  BY <1>1, <1>2 DEF Awaited
<1>a. Cardinality(Awaited(s, mine \ {p})) = Cardinality(Awaited(r, mine) \ {p})
  BY <1>3, Zenon
<1>4. s.async_outstanding = Cardinality(Awaited(s, mine \ {p})) + Len(s.rq)
  BY <1>0, <1>1, <1>a
<1>5. RecordOk(f, s, mine \ {p}, TRUE)
  BY <1>2, <1>4 DEF RecordOk
<1> QED BY <1>5

\* ... or it does something else, and the reply is queued on it.
LEMMA PutAside ==
  ASSUME NEW f, NEW r, NEW mine, RecordOk(f, r, mine, FALSE), IsFiniteSet(mine),
         NEW p \in Awaited(r, mine),
         Len(r.rq) \in Nat, "any" \notin r.waits,
         NEW s, s.done = r.done, s.waits = r.waits, s.wait_req_id = r.wait_req_id,
         Len(s.rq) = Len(r.rq) + 1, s.async_outstanding = r.async_outstanding
  PROVE  RecordOk(f, s, mine \ {p}, FALSE)
<1>0. /\ Cardinality(Awaited(r, mine) \ {p}) = Cardinality(Awaited(r, mine)) - 1
      /\ Cardinality(Awaited(r, mine)) \in Nat
  <2>1. IsFiniteSet(Awaited(r, mine))
    BY FS_Subset DEF Awaited
  <2> QED BY <2>1, OneMore
<1>1. r.async_outstanding = Cardinality(Awaited(r, mine)) + Len(r.rq)
  BY DEF RecordOk
<1>2. Awaited(s, mine \ {p}) = Awaited(r, mine) \ {p}
  BY <1>1 DEF Awaited
<1>a. Cardinality(Awaited(s, mine \ {p})) = Cardinality(Awaited(r, mine) \ {p})
  BY <1>2, Zenon
<1>3. s.async_outstanding = Cardinality(Awaited(s, mine \ {p})) + Len(s.rq)
  BY <1>0, <1>1, <1>a
<1>4. "reply" \in s.waits => Pending(s.wait_req_id, f) \in mine \ {p}
  BY <1>1 DEF RecordOk, Awaited, Pending
<1>5. RecordOk(f, s, mine \ {p}, FALSE)
  BY <1>3, <1>4 DEF RecordOk
<1> QED BY <1>5

-----------------------------------------------------------------------------
(* Threads *)

\* A step of the thread of m, or of the fiber on it, changes nothing that the
\* other threads' parts of the invariant read.
OthersKept(m) ==
  \A n \in Modules \ {m} :
    /\ loop'[n] = loop[n] /\ due'[n] = due[n] /\ deferred'[n] = deferred[n]
    /\ fibers'[n] = fibers[n] /\ current'[n] = current[n] /\ locked_by'[n] = locked_by[n]
    /\ pending'[n] = pending[n] /\ next_req_id'[n] = next_req_id[n]
    /\ \A f \in Live(n) : fib'[f] = fib[f]

\* The part of a thread whose variables did not change.
LEMMA ThreadKept ==
  ASSUME NEW n \in Modules, ThreadOk(n),
         loop'[n] = loop[n], due'[n] = due[n], deferred'[n] = deferred[n],
         fibers'[n] = fibers[n], current'[n] = current[n], locked_by'[n] = locked_by[n],
         pending'[n] = pending[n], next_req_id'[n] = next_req_id[n],
         \A f \in Live(n) : fib'[f] = fib[f]
  PROVE  ThreadOk(n)'
<1>1. Live(n)' = Live(n)
  BY DEF Live
<1>2. \A f : Mine(n, f)' = Mine(n, f)
  BY DEF Mine
<1>3. FibersOk(n)'
  BY <1>1, <1>2 DEF ThreadOk, FibersOk
<1>4. PendingOk(n)'
  BY <1>1 DEF ThreadOk, PendingOk
<1>5. SchedulerOk(n)'
  BY <1>1 DEF ThreadOk, SchedulerOk
<1> QED BY <1>3, <1>4, <1>5 DEF ThreadOk

\* ... and so a step of one thread has only its own part to keep.
LEMMA OwnPart ==
  ASSUME FiberInv, NEW m \in Modules, OthersKept(m), ThreadOk(m)', HeapOk'
  PROVE  FiberInv'
<1>1. ASSUME NEW n \in Modules, n # m PROVE ThreadOk(n)'
  BY <1>1, ThreadKept DEF FiberInv, OthersKept
<1> QED BY <1>1 DEF FiberInv

\* A thread that runs is not stopped.
LEMMA HeapRunning ==
  ASSUME HeapOk, NEW m \in Modules, loop[m] # "stopped"
  PROVE  \A f \in Unused : fib[f].waits = {}
  BY DEF HeapOk, AllStopped

\* A step that moves no record between the lists, and leaves the free ones alone.
LEMMA HeapKept ==
  ASSUME HeapOk, NEW m \in Modules, loop[m] # "stopped",
         \A n \in Modules : Live(n)' = Live(n),
         \A f \in Unused : fib'[f].waits = fib[f].waits
  PROVE  HeapOk'
<1>1. \A f \in Unused : fib[f].waits = {}
  BY HeapRunning
<1>2. Unused' = Unused
  BY DEF Unused
<1> QED BY <1>1, <1>2 DEF HeapOk

-----------------------------------------------------------------------------
(* Steps of the scheduler that resume no fiber *)

\* Sleeping, waking, stopping and ending a pass: loop, due and deferred change.
LEMMA QuietThread ==
  ASSUME TypeInv, FiberInv, NEW m \in Modules, loop[m] # "stopped",
         UNCHANGED <<fibers, locked_by, current, pending, next_req_id, fib>>,
         \A n \in Modules \ {m} :
           loop'[n] = loop[n] /\ due'[n] = due[n] /\ deferred'[n] = deferred[n],
         loop'[m] # "run" => \A f \in Live(m) : ~fib[f].done,
         current[m] # NoFiber => loop'[m] = "run",
         due'[m] \subseteq {f \in Live(m) : "timer" \in fib[f].waits},
         due'[m] # {} => loop'[m] = "run",
         loop'[m] = "wait" /\ deferred'[m] # <<>> => locked_by[m] # NoFiber
  PROVE  FiberInv'
<1>0. HeapOk /\ FibersOk(m) /\ PendingOk(m) /\ SchedulerOk(m)
  BY DEF FiberInv, ThreadOk
<1>1. \A n \in Modules : Live(n)' = Live(n)
  BY DEF Live
<1>2. HeapOk'
  BY <1>0, <1>1, HeapKept
<1>3. OthersKept(m)
  BY DEF OthersKept
<1>4. \A f : Mine(m, f)' = Mine(m, f)
  BY DEF Mine
<1>5. FibersOk(m)'
  BY <1>0, <1>1, <1>4 DEF FibersOk
<1>6. PendingOk(m)'
  BY <1>0, <1>1 DEF PendingOk
<1>7. SchedulerOk(m)'
  BY <1>0, <1>1 DEF SchedulerOk
<1> QED BY <1>2, <1>3, <1>5, <1>6, <1>7, OwnPart DEF ThreadOk

\* The steps of a pass that QuietThread covers.
LEMMA QuietSteps ==
  ASSUME TypeInv, FiberInv, NEW m \in Modules,
         \/ Sleep(m) \/ StartPass(m) \/ SpuriousWake(m) \/ Stopped(m)
         \/ (\E f \in Fibers : TimerHeldBack(m, f))
         \/ Defer(m) \/ StartRefused(m) \/ NotifyRefused(m) \/ ReplyUnknown(m) \/ EndPass(m)
  PROVE  FiberInv'
<1>1. FibersOk(m) /\ SchedulerOk(m)
  BY DEF FiberInv, ThreadOk
<1>2. /\ loop \in [Modules -> {"top", "wait", "run", "stopped"}]
      /\ due \in [Modules -> SUBSET Fibers]
      /\ deferred \in [Modules -> Seq(Event)] /\ inbox \in [Modules -> Seq(Event)]
  BY DEF TypeInv, TypeOK
<1>3. CASE Sleep(m)
  <2>1. deferred[m] # <<>> => locked_by[m] # NoFiber
    <3>1. SUFFICES ASSUME locked_by[m] = NoFiber PROVE deferred[m] = <<>>
      OBVIOUS
    <3>2. deferred[m] \o inbox[m] = <<>>
      BY <1>3, <3>1 DEF Sleep, Refilled
    <3>3. deferred[m] \in Seq(Event) /\ inbox[m] \in Seq(Event)
      BY <1>2
    <3> QED BY <3>2, <3>3, ConcatSimplifications
  <2>2. loop[m] = "top" /\ loop'[m] = "wait" /\ \A n \in Modules \ {m} : loop'[n] = loop[n]
    BY <1>2, <1>3 DEF Sleep
  <2>3. /\ UNCHANGED <<fibers, locked_by, current, pending, next_req_id, fib>>
        /\ UNCHANGED <<due, deferred>>
    BY <1>3 DEF Sleep, lockVars
  <2> QED BY <1>1, <2>1, <2>2, <2>3, QuietThread DEF FibersOk, SchedulerOk
<1>4. CASE StartPass(m) \/ SpuriousWake(m)
  <2>1. TakeInbox(m) /\ loop[m] \in {"top", "wait"}
    BY <1>4 DEF StartPass, SpuriousWake
  <2>2. /\ UNCHANGED <<fibers, locked_by, current, pending, next_req_id, fib>>
        /\ due' = [due EXCEPT ![m] = {f \in Live(m) : TimerExpired(m, f)}]
        /\ deferred' = [deferred EXCEPT ![m] = StillDeferred(m)]
        /\ loop' = [loop EXCEPT ![m] = "run"]
    BY <2>1 DEF TakeInbox, lockVars
  <2>3. loop'[m] = "run" /\ due'[m] \subseteq {f \in Live(m) : "timer" \in fib[f].waits}
    BY <1>2, <2>2 DEF TimerExpired
  <2>4. \A n \in Modules \ {m} :
          loop'[n] = loop[n] /\ due'[n] = due[n] /\ deferred'[n] = deferred[n]
    BY <1>2, <2>2
  <2> QED BY <2>1, <2>2, <2>3, <2>4, QuietThread
<1>5. CASE Stopped(m)
  <2>1. /\ UNCHANGED <<fibers, locked_by, current, pending, next_req_id, fib, due>>
        /\ deferred' = [deferred EXCEPT ![m] = StillDeferred(m)]
        /\ loop' = [loop EXCEPT ![m] = "stopped"] /\ loop[m] \in {"top", "wait"}
    BY <1>5 DEF Stopped, SeesStop, lockVars
  <2>2. /\ loop'[m] = "stopped" /\ loop[m] # "run"
        /\ \A n \in Modules \ {m} :
             loop'[n] = loop[n] /\ due'[n] = due[n] /\ deferred'[n] = deferred[n]
    BY <1>2, <2>1
  <2>3. due'[m] = {} /\ current[m] = NoFiber
    BY <1>1, <2>1, <2>2 DEF SchedulerOk
  <2> QED BY <1>1, <2>1, <2>2, <2>3, QuietThread DEF FibersOk
<1>6. CASE \E f \in Fibers : TimerHeldBack(m, f)
  <2>1. PICK f \in Fibers : TimerHeldBack(m, f)
    BY <1>6
  <2>2. /\ UNCHANGED <<fibers, locked_by, current, pending, next_req_id, fib, loop, deferred>>
        /\ due' = [due EXCEPT ![m] = @ \ {f}] /\ loop[m] = "run"
    BY <2>1 DEF TimerHeldBack, Scheduling, lockVars
  <2>3. due'[m] \subseteq due[m] /\ \A n \in Modules \ {m} : due'[n] = due[n]
    BY <1>2, <2>2
  <2> QED BY <1>1, <2>2, <2>3, QuietThread DEF SchedulerOk
<1>7. CASE Defer(m) \/ StartRefused(m) \/ NotifyRefused(m) \/ ReplyUnknown(m)
  <2>1. /\ UNCHANGED <<fibers, locked_by, current, pending, next_req_id, fib, loop, due>>
        /\ loop[m] = "run"
        /\ \A n \in Modules \ {m} : deferred'[n] = deferred[n]
    BY <1>2, <1>7 DEF Defer, StartRefused, NotifyRefused, ReplyUnknown, Dropped, Handles,
                      Scheduling, lockVars
  <2> QED BY <1>1, <2>1, QuietThread DEF SchedulerOk
<1>8. CASE EndPass(m)
  <2>1. /\ UNCHANGED <<fibers, locked_by, current, pending, next_req_id, fib, due, deferred>>
        /\ loop[m] = "run" /\ current[m] = NoFiber /\ due[m] = {}
        /\ \A f \in Live(m) : ~fib[f].done
        /\ loop' = [loop EXCEPT ![m] = "top"]
    BY <1>8 DEF EndPass, PassOver, Scheduling, lockVars
  <2>2. loop'[m] = "top" /\ \A n \in Modules \ {m} : loop'[n] = loop[n]
    BY <1>2, <2>1
  <2> QED BY <2>1, <2>2, QuietThread
<1> QED BY <1>3, <1>4, <1>5, <1>6, <1>7, <1>8

\* What list_remove keeps: every entry but the one removed.
LEMMA RemoveKeepsOthers ==
  ASSUME NEW S, NEW s \in Seq(S), NEW i \in DOMAIN s
  PROVE  /\ ToSet(RemoveAt(s, i)) \subseteq ToSet(s)
         /\ ToSet(s) \ {s[i]} \subseteq ToSet(RemoveAt(s, i))
<1>1. /\ RemoveAt(s, i) \in Seq(S) /\ Len(RemoveAt(s, i)) = Len(s) - 1
      /\ \A j \in 1..(Len(s) - 1) : RemoveAt(s, i)[j] = IF j < i THEN s[j] ELSE s[j + 1]
      /\ ToSet(RemoveAt(s, i)) \subseteq ToSet(s)
  BY RemoveAtType
<1>2. DOMAIN s = 1..Len(s) /\ Len(s) \in Nat
      /\ DOMAIN RemoveAt(s, i) = 1..(Len(s) - 1)
  BY <1>1, LenProperties
<1>3. ASSUME NEW j \in 1..Len(s), s[j] # s[i] PROVE s[j] \in ToSet(RemoveAt(s, i))
  <2>1. i \in Int /\ j \in Int /\ j # i /\ 1 <= i /\ i <= Len(s) /\ 1 <= j /\ j <= Len(s)
    BY <1>2, <1>3
  <2>2. CASE j < i
    <3>1. j \in 1..(Len(s) - 1)
      BY <1>2, <2>1, <2>2
    <3>2. RemoveAt(s, i)[j] = s[j]
      BY <1>1, <2>2, <3>1
    <3> QED BY <1>2, <3>1, <3>2 DEF ToSet
  <2>3. CASE ~(j < i)
    <3>1. j - 1 \in 1..(Len(s) - 1) /\ ~(j - 1 < i) /\ (j - 1) + 1 = j
      BY <1>2, <2>1, <2>3
    <3>2. RemoveAt(s, i)[j - 1] = s[j]
      BY <1>1, <3>1
    <3> QED BY <1>2, <3>1, <3>2 DEF ToSet
  <2> QED BY <2>2, <2>3
<1>4. ToSet(s) \ {s[i]} \subseteq ToSet(RemoveAt(s, i))
  BY <1>2, <1>3 DEF ToSet
<1> QED BY <1>1, <1>4

\* reap_done: no entry of pending names a finished fiber that collected its
\* replies, so none is left behind when it is freed.
LEMMA ReapStep ==
  ASSUME TypeInv, FiberInv, AllCollected, NEW m \in Modules,
         NEW i \in DOMAIN fibers[m], Reap(m, i)
  PROVE  FiberInv'
<1> DEFINE f == fibers[m][i]
<1>0. /\ fibers \in [Modules -> Seq(Fibers)] /\ fib \in [Fibers -> Fiber]
      /\ locked_by \in [Modules -> Fibers \cup {NoFiber}]
  BY DEF TypeInv, TypeOK
<1>1. FibersOk(m) /\ PendingOk(m) /\ SchedulerOk(m) /\ HeapOk
  BY DEF FiberInv, ThreadOk
<1>2. /\ fib[f].done /\ f \in Live(m) /\ loop[m] = "run" /\ current[m] = NoFiber /\ due[m] = {}
      /\ UNCHANGED <<current, pending, next_req_id, fib, due, deferred, loop>>
      /\ fibers' = [fibers EXCEPT ![m] = RemoveAt(fibers[m], i)]
      /\ locked_by' = LockAfterReap(m, f)
  BY <1>0 DEF Reap, PassOver, Scheduling, Live, ToSet
<1>3. Live(m)' \subseteq Live(m) /\ Live(m) \ {f} \subseteq Live(m)'
      /\ \A n \in Modules \ {m} : Live(n)' = Live(n)
  BY <1>0, <1>2, RemoveKeepsOthers DEF Live
<1>4. RecordOk(f, fib[f], Mine(m, f), f = current[m]) /\ fib[f].async_outstanding = 0
  BY <1>1, <1>2 DEF FibersOk, AllCollected
<1> HIDE DEF f
<1>5. f \in Fibers
  BY <1>0, <1>2 DEF TypeInv, TypeOK, Live, ToSet
<1>6. Mine(m, f) = {}
  <2>1. fib[f].waits = {} /\ Awaited(fib[f], Mine(m, f)) = Mine(m, f)
    BY <1>2, <1>4 DEF RecordOk, Awaited
  <2>2. Mine(m, f) \subseteq pending[m]
    BY DEF Mine
  <2>3. IsFiniteSet(Mine(m, f))
    BY <1>1, <2>2, FS_Subset DEF PendingOk
  <2>4. Cardinality(Mine(m, f)) \in Nat /\ Len(fib[f].rq) \in Nat
    BY <1>5, <2>3, FiberType, FS_CardinalityType, LenProperties DEF TypeInv
  <2>5. Cardinality(Mine(m, f)) = 0
    BY <1>4, <2>1, <2>4 DEF RecordOk
  <2> QED BY <2>3, <2>5, FS_EmptySet
<1>7. PendingOk(m)'
  <2>1. \A p \in pending[m] : p.f \in Live(m)'
    BY <1>1, <1>3, <1>6 DEF PendingOk, Mine
  <2> QED BY <1>1, <1>2, <2>1 DEF PendingOk
<1>8. FibersOk(m)'
  <2>1. \A g : Mine(m, g)' = Mine(m, g)
    BY <1>2 DEF Mine
  <2> QED BY <1>1, <1>2, <1>3, <2>1 DEF FibersOk
<1>9. SchedulerOk(m)'
  <2>1. locked_by'[m] \in Live(m)' \cup {NoFiber}
    BY <1>0, <1>1, <1>2, <1>3 DEF SchedulerOk, LockAfterReap
  <2> QED BY <1>2, <2>1 DEF SchedulerOk
<1>10. HeapOk'
  <2>1. \A g \in Unused : fib[g].waits = {}
    BY <1>1, <1>2, HeapRunning
  <2>2. fib[f].waits = {}
    BY <1>2, <1>4 DEF RecordOk
  <2>3. Unused' \subseteq Unused \cup {f}
    BY <1>3, <1>5 DEF Unused
  <2>4. \A g \in Unused' : fib'[g].waits = {}
    BY <1>2, <2>1, <2>2, <2>3
  <2>5. \A n, k \in Modules : n # k => Live(n)' \cap Live(k)' = {}
    BY <1>1, <1>3 DEF HeapOk
  <2> QED BY <2>4, <2>5 DEF HeapOk
<1>11. OthersKept(m)
  BY <1>0, <1>2 DEF OthersKept, LockAfterReap
<1> QED BY <1>7, <1>8, <1>9, <1>10, <1>11, OwnPart DEF ThreadOk

-----------------------------------------------------------------------------
(* Steps that change one fiber *)

\* The thread of m changes the record of one of its fibers, enters it or leaves
\* it; its entries in pending may change, those of the other fibers do not.
LEMMA OneFiber ==
  ASSUME TypeInv, FiberInv, NEW m \in Modules, NEW f \in Live(m), loop[m] = "run",
         NEW r, fib' = [fib EXCEPT ![f] = r],
         UNCHANGED <<loop, deferred, fibers>>,
         \A n \in Modules \ {m} :
           /\ current'[n] = current[n] /\ due'[n] = due[n] /\ locked_by'[n] = locked_by[n]
           /\ pending'[n] = pending[n] /\ next_req_id'[n] = next_req_id[n],
         current[m] \in {NoFiber, f}, current'[m] \in {NoFiber, f},
         due'[m] \subseteq due[m] \ {f},
         locked_by'[m] \in {locked_by[m], f, NoFiber},
         PendingOk(m)', \A g \in Live(m) \ {f} : Mine(m, g)' = Mine(m, g),
         RecordOk(f, r, Mine(m, f)', f = current'[m])
  PROVE  FiberInv'
<1>0. HeapOk /\ FibersOk(m) /\ PendingOk(m) /\ SchedulerOk(m)
  BY DEF FiberInv, ThreadOk
<1>1. /\ fib \in [Fibers -> Fiber] /\ f \in Fibers /\ f # NoFiber
      /\ \A n \in Modules : Live(n) \subseteq Fibers
  BY RefersType, FibersAssumption DEF TypeInv, TypeOK, Refers
<1>2. \A n \in Modules : Live(n)' = Live(n)
  BY DEF Live
<1>3. \A g \in Fibers \ {f} : fib'[g] = fib[g]
  BY <1>1
<1>4. fib'[f] = r
  BY <1>1
<1>5. HeapOk'
  <2>1. \A g \in Unused : fib'[g].waits = fib[g].waits
    BY <1>3 DEF Unused
  <2> QED BY <1>0, <1>2, <2>1, HeapKept
<1>6. OthersKept(m)
  <2>1. ASSUME NEW n \in Modules \ {m}, NEW g \in Live(n) PROVE fib'[g] = fib[g]
    <3>1. f \notin Live(n)
      BY <1>0 DEF HeapOk
    <3> QED BY <1>1, <1>3, <3>1
  <2> QED BY <2>1 DEF OthersKept
<1>7. FibersOk(m)'
  <2>1. ASSUME NEW g \in Live(m), g # f
        PROVE  RecordOk(g, fib'[g], Mine(m, g)', g = current'[m])
    <3>1. RecordOk(g, fib[g], Mine(m, g), g = current[m])
      BY <1>0 DEF FibersOk
    <3>2. g \in Fibers /\ g # NoFiber
      BY <1>1, FibersAssumption
    <3>3. (g = current[m]) = FALSE /\ (g = current'[m]) = FALSE
      BY <2>1, <3>2
    <3> QED BY <1>3, <2>1, <3>1, <3>2, <3>3
  <2> QED BY <1>2, <1>4, <2>1 DEF FibersOk
<1>8. SchedulerOk(m)'
  <2>1. \A g \in due'[m] : fib'[g] = fib[g]
    BY <1>0, <1>1, <1>3 DEF SchedulerOk
  <2> QED BY <1>0, <1>2, <2>1 DEF SchedulerOk
<1> QED BY <1>5, <1>6, <1>7, <1>8, OwnPart DEF ThreadOk

\* pending_take of one entry: the entries of the other fibers stay.
LEMMA TakeOne ==
  ASSUME TypeInv, NEW m \in Modules, PendingOk(m), NEW p \in pending[m],
         pending' = PendingTake(m, p.req_id), UNCHANGED <<fibers, next_req_id>>
  PROVE  /\ \A n \in Modules \ {m} : pending'[n] = pending[n]
         /\ PendingOk(m)'
         /\ \A g : g # p.f => Mine(m, g)' = Mine(m, g)
         /\ Mine(m, p.f)' = {q \in Mine(m, p.f) : q.req_id # p.req_id}
<1>1. /\ pending'[m] = {q \in pending[m] : q.req_id # p.req_id}
      /\ \A n \in Modules \ {m} : pending'[n] = pending[n]
  BY DEF TypeInv, TypeOK, PendingTake
<1>2. Live(m)' = Live(m)
  BY DEF Live
<1>3. IsFiniteSet(pending'[m])
  BY <1>1, FS_Subset DEF PendingOk
<1>4. PendingOk(m)'
  BY <1>1, <1>2, <1>3 DEF PendingOk
<1>5. \A q \in pending[m] : q.req_id = p.req_id => q = p
  BY DEF PendingOk
<1> QED BY <1>1, <1>4, <1>5 DEF Mine

\* A parked fiber of a module that schedules.
LEMMA Parked ==
  ASSUME TypeInv, FiberInv, NEW m \in Modules, NEW f \in Live(m), current[m] = NoFiber
  PROVE  /\ f \in Fibers /\ f # NoFiber /\ fib[f] \in Fiber /\ Len(fib[f].rq) \in Nat
         /\ PendingOk(m) /\ SchedulerOk(m)
         /\ IsFiniteSet(Mine(m, f))
         /\ RecordOk(f, fib[f], Mine(m, f), FALSE)
<1>1. f \in Fibers /\ f # NoFiber
  BY RefersType, FibersAssumption DEF TypeInv, TypeOK, Refers
<1>2. fib[f] \in Fiber /\ Len(fib[f].rq) \in Nat
  BY <1>1, FiberType, LenProperties DEF TypeInv
<1>3. FibersOk(m) /\ PendingOk(m) /\ SchedulerOk(m)
  BY DEF FiberInv, ThreadOk
<1>4. (f = current[m]) = FALSE
  BY <1>1
<1>5. RecordOk(f, fib[f], Mine(m, f), FALSE)
  BY <1>3, <1>4 DEF FibersOk
<1>6. IsFiniteSet(Mine(m, f))
  BY <1>3, FS_Subset DEF Mine, PendingOk
<1> QED BY <1>1, <1>2, <1>3, <1>5, <1>6

\* Resuming a fiber whose timer expired, request given up or not.
LEMMA TimerStep ==
  ASSUME TypeInv, FiberInv, NEW m \in Modules, NEW f \in Fibers, TimerFires(m, f)
  PROVE  FiberInv'
<1> DEFINE r == [AfterTimer(f) EXCEPT !.waits = {}]
<1>1. /\ loop[m] = "run" /\ current[m] = NoFiber /\ f \in due[m]
      /\ UNCHANGED <<loop, deferred, fibers, locked_by, next_req_id>>
      /\ fib' = [fib EXCEPT ![f] = r] /\ current' = [current EXCEPT ![m] = f]
      /\ due' = [due EXCEPT ![m] = @ \ {f}] /\ pending' = PendingAfterTimer(m, f)
  BY DEF TimerFires, Scheduling, Resume, lockVars
<1>2. SchedulerOk(m)
  BY DEF FiberInv, ThreadOk
<1>3. f \in Live(m) /\ "timer" \in fib[f].waits
  BY <1>1, <1>2 DEF SchedulerOk
<1>4. /\ fib[f] \in Fiber /\ PendingOk(m) /\ f # NoFiber
      /\ RecordOk(f, fib[f], Mine(m, f), FALSE)
  BY <1>1, <1>3, Parked
<1>5. /\ r.waits = {} /\ r.done = fib[f].done /\ r.rq = fib[f].rq
      /\ r.async_outstanding = fib[f].async_outstanding
  BY <1>4 DEF AfterTimer, Fiber
<1> HIDE DEF r
<1>6. /\ \A n \in Modules \ {m} : current'[n] = current[n] /\ due'[n] = due[n]
      /\ current'[m] = f /\ due'[m] = due[m] \ {f}
  BY <1>1 DEF TypeInv, TypeOK
<1>7. (f = current'[m]) = TRUE
  BY <1>6
<1>8. CASE "reply" \in fib[f].waits
  <2> DEFINE p == Pending(fib[f].wait_req_id, f)
  <2>1. p \in pending[m] /\ p.f = f /\ p.req_id = fib[f].wait_req_id
    BY <1>4, <1>8 DEF RecordOk, Mine, Pending
  <2> HIDE DEF p
  <2>2. pending' = PendingTake(m, p.req_id)
    BY <1>1, <1>8, <2>1 DEF PendingAfterTimer
  <2>3. /\ \A n \in Modules \ {m} : pending'[n] = pending[n]
        /\ PendingOk(m)' /\ \A g : g # f => Mine(m, g)' = Mine(m, g)
        /\ Mine(m, f)' = {q \in Mine(m, f) : q.req_id # fib[f].wait_req_id}
    BY <1>1, <1>4, <2>1, <2>2, TakeOne
  <2>4. RecordOk(f, r, {q \in Mine(m, f) : q.req_id # fib[f].wait_req_id}, TRUE)
    BY <1>4, <1>5, <1>8, RequestOver
  <2>5. RecordOk(f, r, Mine(m, f)', f = current'[m])
    BY <1>7, <2>3, <2>4
  <2>6. \A g \in Live(m) \ {f} : Mine(m, g)' = Mine(m, g)
    BY <2>3
  <2> QED BY <1>1, <1>3, <1>6, <2>3, <2>5, <2>6, OneFiber
<1>9. CASE "reply" \notin fib[f].waits
  <2>1. pending' = pending
    BY <1>1, <1>9 DEF PendingAfterTimer
  <2>2. PendingOk(m)' /\ \A g : Mine(m, g)' = Mine(m, g)
    BY <1>1, <1>4, <2>1 DEF PendingOk, Mine, Live
  <2>3. RecordOk(f, r, Mine(m, f), TRUE)
    BY <1>3, <1>4, <1>5, <1>9, TimerOver
  <2>4. RecordOk(f, r, Mine(m, f)', f = current'[m])
    BY <1>7, <2>2, <2>3
  <2>5. /\ PendingOk(m)' /\ \A g \in Live(m) \ {f} : Mine(m, g)' = Mine(m, g)
        /\ \A n \in Modules \ {m} : pending'[n] = pending[n]
    BY <2>1, <2>2
  <2> QED BY <1>1, <1>3, <1>6, <2>4, <2>5, OneFiber
<1> QED BY <1>8, <1>9

\* A reply that ends the request its fiber is in, or one that it collects.
LEMMA ReplyStep ==
  ASSUME TypeInv, FiberInv, NEW m \in Modules, NEW f \in Fibers,
         ReplyEndsRequest(m, f) \/ ReplyEndsWait(m, f) \/ ReplyQueued(m, f)
  PROVE  FiberInv'
<1> DEFINE e == Head(evs[m])
           p == Pending(e.req_id, f)
<1>1. /\ loop[m] = "run" /\ current[m] = NoFiber /\ due[m] = {} /\ p \in pending[m]
      /\ p.f = f /\ p.req_id = e.req_id
      /\ pending' = PendingTake(m, e.req_id)
      /\ UNCHANGED <<loop, deferred, fibers, locked_by, next_req_id, due>>
  BY DEF ReplyEndsRequest, ReplyEndsWait, ReplyQueued, Replied, Handles, Scheduling,
         AwaitedBy, Pending, lockVars
<1>a. ReplyEndsRequest(m, f) =>
        /\ AwaitsThis(f, e)
        /\ Resume(m, f, [fib[f] EXCEPT !.src = ReplySrc(e)])
  BY DEF ReplyEndsRequest
<1>b. ReplyEndsWait(m, f) =>
        /\ ~AwaitsThis(f, e) /\ "any" \in fib[f].waits
        /\ Resume(m, f, [fib[f] EXCEPT !.src = ReplySrc(e), !.async_outstanding = @ - 1])
  BY DEF ReplyEndsWait
<1>c. ReplyQueued(m, f) =>
        /\ ~AwaitsThis(f, e) /\ "any" \notin fib[f].waits
        /\ fib' = [fib EXCEPT ![f].rq = Append(@, [req_id |-> e.req_id, result |-> e.result])]
        /\ current' = current
  BY DEF ReplyQueued
<1> HIDE DEF e, p
<1>2. f \in Live(m)
  BY <1>1 DEF FiberInv, ThreadOk, PendingOk
<1>3. /\ f # NoFiber /\ fib[f] \in Fiber /\ Len(fib[f].rq) \in Nat /\ PendingOk(m)
      /\ IsFiniteSet(Mine(m, f)) /\ RecordOk(f, fib[f], Mine(m, f), FALSE)
  BY <1>1, <1>2, Parked
<1>4. /\ \A n \in Modules \ {m} : pending'[n] = pending[n]
      /\ PendingOk(m)' /\ \A g : g # f => Mine(m, g)' = Mine(m, g)
      /\ Mine(m, f)' = {q \in Mine(m, f) : q.req_id # e.req_id}
  BY <1>1, <1>3, TakeOne
<1>5. p \in Mine(m, f) /\ Mine(m, f)' = Mine(m, f) \ {p}
  BY <1>1, <1>3, <1>4 DEF PendingOk, Mine
<1>6. ASSUME NEW r, fib' = [fib EXCEPT ![f] = r],
             current' \in {current, [current EXCEPT ![m] = f]},
             RecordOk(f, r, Mine(m, f)', f = current'[m])
      PROVE  FiberInv'
  <2>1. current'[m] \in {NoFiber, f} /\ \A n \in Modules \ {m} : current'[n] = current[n]
    BY <1>1, <1>6 DEF TypeInv, TypeOK
  <2> QED BY <1>1, <1>2, <1>4, <1>6, <2>1, OneFiber
<1>7. CASE ReplyEndsRequest(m, f)
  <2> DEFINE r == [[fib[f] EXCEPT !.src = ReplySrc(e)] EXCEPT !.waits = {}]
  <2>1. fib' = [fib EXCEPT ![f] = r] /\ current' = [current EXCEPT ![m] = f]
    BY <1>a, <1>7 DEF Resume
  <2>2. r.waits = {} /\ r.done = fib[f].done /\ r.rq = fib[f].rq
        /\ r.async_outstanding = fib[f].async_outstanding
    BY <1>3 DEF Fiber
  <2>3. "reply" \in fib[f].waits /\ fib[f].wait_req_id = e.req_id
    BY <1>a, <1>7 DEF AwaitsThis
  <2> HIDE DEF r
  <2>a. RecordOk(f, r, {q \in Mine(m, f) : q.req_id # fib[f].wait_req_id}, TRUE)
    BY <1>3, <2>2, <2>3, RequestOver
  <2>4. RecordOk(f, r, Mine(m, f)', TRUE)
    BY <1>4, <2>3, <2>a
  <2>5. (f = current'[m]) = TRUE
    BY <2>1 DEF TypeInv, TypeOK
  <2> QED BY <1>6, <2>1, <2>4, <2>5
<1>8. ASSUME ~AwaitsThis(f, e) PROVE p \in Awaited(fib[f], Mine(m, f))
  BY <1>1, <1>5, <1>8 DEF Awaited, AwaitsThis
<1>9. CASE ReplyEndsWait(m, f)
  <2> DEFINE r == [[fib[f] EXCEPT !.src = ReplySrc(e), !.async_outstanding = @ - 1]
                     EXCEPT !.waits = {}]
  <2>1. fib' = [fib EXCEPT ![f] = r] /\ current' = [current EXCEPT ![m] = f]
    BY <1>b, <1>9 DEF Resume
  <2>2. r.waits = {} /\ r.done = fib[f].done /\ r.rq = fib[f].rq
        /\ r.async_outstanding = fib[f].async_outstanding - 1
    BY <1>3 DEF Fiber
  <2> HIDE DEF r
  <2>3. "any" \in fib[f].waits /\ p \in Awaited(fib[f], Mine(m, f))
    BY <1>b, <1>8, <1>9
  <2>4. RecordOk(f, r, Mine(m, f) \ {p}, TRUE)
    BY <1>3, <1>5, <2>2, <2>3, HandedOver
  <2>5. RecordOk(f, r, Mine(m, f)', TRUE)
    BY <1>5, <2>4
  <2>6. (f = current'[m]) = TRUE
    BY <2>1 DEF TypeInv, TypeOK
  <2> QED BY <1>6, <2>1, <2>5, <2>6
<1>10. CASE ReplyQueued(m, f)
  <2> DEFINE x == [req_id |-> e.req_id, result |-> e.result]
             r == [fib[f] EXCEPT !.rq = Append(@, x)]
  <2>1. fib' = [fib EXCEPT ![f] = r] /\ current' = current
    BY <1>c, <1>10
  <2>2. /\ r.waits = fib[f].waits /\ r.done = fib[f].done /\ r.rq = Append(fib[f].rq, x)
        /\ r.async_outstanding = fib[f].async_outstanding
        /\ r.wait_req_id = fib[f].wait_req_id
    BY <1>3 DEF Fiber
  <2>3. x \in [req_id : Int, result : Argument]
    <3>1. e \in Event
      BY <1>10, HeadEvent DEF ReplyQueued, Replied, Handles, TypeInv, e
    <3> QED BY <3>1 DEF Event
  <2> HIDE DEF r, x
  <2>4. Len(r.rq) = Len(fib[f].rq) + 1
    <3>1. fib[f].rq \in Seq([req_id : Int, result : Argument])
      BY <1>3 DEF Fiber
    <3> QED BY <2>2, <2>3, <3>1, AppendProperties
  <2>5. "any" \notin fib[f].waits /\ p \in Awaited(fib[f], Mine(m, f))
    BY <1>c, <1>8, <1>10
  <2>6. RecordOk(f, r, Mine(m, f) \ {p}, FALSE)
    BY <1>3, <1>5, <2>2, <2>4, <2>5, PutAside
  <2>7. RecordOk(f, r, Mine(m, f)', FALSE)
    BY <1>5, <2>6
  <2>8. (f = current'[m]) = FALSE
    BY <1>1, <1>3, <2>1
  <2> QED BY <1>6, <2>1, <2>7, <2>8
<1> QED BY <1>7, <1>9, <1>10

\* new_fiber: a free record names nothing and nothing names it.
LEMMA LaunchStep ==
  ASSUME TypeInv, FiberInv, NEW m \in Modules, NEW f \in Fibers,
         StartSequence(m, f) \/ StartHandler(m, f)
  PROVE  FiberInv'
<1> DEFINE e == Head(evs[m])
           r == IF StartSequence(m, f)
                THEN FreshFiber(m, e.seq, e.requester, e.req_id, Src("IGNORE", e.requester, 0, e.req_id))
                ELSE FreshFiber(m, "recv_notify", EXTERNAL, 0, Src("SUCCESS", e.requester, e.client_id, 0))
           s == [r EXCEPT !.waits = {}]
<1>1. /\ loop[m] = "run" /\ current[m] = NoFiber /\ due[m] = {} /\ f \in Unused
      /\ fibers' = [fibers EXCEPT ![m] = <<f>> \o @]
      /\ fib' = [fib EXCEPT ![f] = s] /\ current' = [current EXCEPT ![m] = f]
      /\ UNCHANGED <<loop, deferred, locked_by, next_req_id, due, pending>>
  BY DEF StartSequence, StartHandler, Handles, Scheduling, Launch, Resume, lockVars
<1>2. s.waits = {} /\ ~s.done /\ s.rq = <<>> /\ s.async_outstanding = 0
  BY DEF FreshFiber
<1> HIDE DEF s
<1>3. HeapOk /\ FibersOk(m) /\ PendingOk(m) /\ SchedulerOk(m)
  BY DEF FiberInv, ThreadOk
<1>4. /\ fib \in [Fibers -> Fiber] /\ f # NoFiber /\ fibers \in [Modules -> Seq(Fibers)]
      /\ current \in [Modules -> Fibers \cup {NoFiber}]
      /\ \A n \in Modules : Live(n) \subseteq Fibers /\ f \notin Live(n)
  BY <1>1, RefersType, FibersAssumption DEF TypeInv, TypeOK, Refers, Unused
<1>5. /\ \A g \in Fibers \ {f} : fib'[g] = fib[g]
      /\ fib'[f] = s
      /\ \A n \in Modules \ {m} : current'[n] = current[n] /\ fibers'[n] = fibers[n]
      /\ current'[m] = f
  BY <1>1, <1>4
<1>6. Live(m)' = Live(m) \cup {f} /\ \A n \in Modules \ {m} : Live(n)' = Live(n)
  <2>1. ToSet(<<f>> \o fibers[m]) = {f} \cup ToSet(fibers[m])
    BY <1>4, ConsSeq
  <2> QED BY <1>1, <1>4, <1>5, <2>1 DEF Live
<1>7. OthersKept(m)
  BY <1>1, <1>4, <1>5 DEF OthersKept
<1>8. HeapOk'
  <2>1. ASSUME NEW n \in Modules, NEW k \in Modules, n # k
        PROVE  Live(n)' \cap Live(k)' = {}
    <3>1. Live(n) \cap Live(k) = {} /\ f \notin Live(n) /\ f \notin Live(k)
      BY <1>3, <1>4, <2>1 DEF HeapOk
    <3>2. CASE n = m
      BY <1>6, <2>1, <3>1, <3>2
    <3>3. CASE k = m
      BY <1>6, <2>1, <3>1, <3>3
    <3>4. CASE n # m /\ k # m
      BY <1>6, <3>1, <3>4
    <3> QED BY <3>2, <3>3, <3>4
  <2>2. \A g \in Unused : fib[g].waits = {}
    BY <1>1, <1>3, HeapRunning
  <2>3. Unused' \subseteq Unused \ {f}
    BY <1>1, <1>4, <1>6 DEF Unused
  <2>4. \A g \in Unused' : fib'[g].waits = {}
    BY <1>5, <2>2, <2>3 DEF Unused
  <2> QED BY <2>1, <2>4 DEF HeapOk
<1>9. PendingOk(m)'
  BY <1>1, <1>3, <1>6 DEF PendingOk
<1>10. SchedulerOk(m)'
  BY <1>1, <1>3, <1>5, <1>6 DEF SchedulerOk
<1>11. FibersOk(m)'
  <2>1. \A g : Mine(m, g)' = Mine(m, g)
    BY <1>1 DEF Mine
  <2>2. ASSUME NEW g \in Live(m)
        PROVE  RecordOk(g, fib'[g], Mine(m, g)', g = current'[m])
    <3>1. RecordOk(g, fib[g], Mine(m, g), g = current[m])
      BY <1>3 DEF FibersOk
    <3>2. g # f /\ g \in Fibers
      BY <1>4
    <3>3. (g = current[m]) = FALSE /\ (g = current'[m]) = FALSE
      BY <1>1, <1>5, <3>2, FibersAssumption
    <3> QED BY <1>5, <2>1, <3>1, <3>2, <3>3
  <2>3. RecordOk(f, s, Mine(m, f)', TRUE)
    <3>1. Mine(m, f) = {}
      BY <1>3, <1>4 DEF PendingOk, Mine
    <3>a. Awaited(s, {}) = {}
      BY DEF Awaited
    <3>b. Cardinality({}) = 0
      BY FS_EmptySet
    <3>2. Cardinality(Awaited(s, {})) = 0 /\ Len(<<>>) = 0
      BY <3>a, <3>b, EmptySeq, Zenon
    <3>3. s.async_outstanding = Cardinality(Awaited(s, {})) + Len(s.rq)
      BY <1>2, <3>2
    <3>4. RecordOk(f, s, {}, TRUE)
      BY <1>2, <3>3 DEF RecordOk
    <3> QED BY <2>1, <3>1, <3>4
  <2>4. (f = current'[m]) = TRUE
    BY <1>5
  <2>5. loop'[m] = "run"
    BY <1>1
  <2> QED BY <1>5, <1>6, <2>2, <2>3, <2>4, <2>5 DEF FibersOk
<1> QED BY <1>7, <1>8, <1>9, <1>10, <1>11, OwnPart DEF ThreadOk

-----------------------------------------------------------------------------
(* Calls *)

\* The fiber a module's thread is in.
LEMMA Current ==
  ASSUME TypeInv, FiberInv, NEW m \in Modules, NEW f \in Fibers, Running(m, f)
  PROVE  /\ f \in Live(m) /\ loop[m] = "run" /\ f # NoFiber /\ current[m] = f
         /\ fib[f] \in Fiber /\ Len(fib[f].rq) \in Nat
         /\ PendingOk(m) /\ SchedulerOk(m) /\ IsFiniteSet(Mine(m, f))
         /\ \A p \in Mine(m, f) : p.req_id # next_req_id[m]
         /\ RecordOk(f, fib[f], Mine(m, f), TRUE)
<1>1. FibersOk(m) /\ PendingOk(m) /\ SchedulerOk(m)
  BY DEF FiberInv, ThreadOk
<1>2. f \in Live(m) /\ loop[m] = "run" /\ f # NoFiber /\ current[m] = f
  BY <1>1 DEF SchedulerOk, Running
<1>3. fib[f] \in Fiber /\ Len(fib[f].rq) \in Nat
  BY FiberType, LenProperties DEF TypeInv
<1>4. (f = current[m]) = TRUE
  BY <1>2
<1>5. RecordOk(f, fib[f], Mine(m, f), TRUE)
  BY <1>1, <1>2, <1>4 DEF FibersOk
<1>6. IsFiniteSet(Mine(m, f))
  BY <1>1, FS_Subset DEF Mine, PendingOk
<1>7. \A p \in Mine(m, f) : p.req_id # next_req_id[m]
  BY <1>1 DEF Mine, PendingOk, TypeInv, TypeOK, PendingEntry
<1> QED BY <1>1, <1>2, <1>3, <1>5, <1>6, <1>7

\* What a call must leave in the record of the fiber that makes it.
LEMMA CallFrame ==
  ASSUME TypeInv, FiberInv, NEW m \in Modules, NEW f \in Fibers, Running(m, f),
         NEW r, fib' = [fib EXCEPT ![f] = r], UNCHANGED schedVars,
         current' = current \/ Yield(m),
         locked_by' \in {locked_by, [locked_by EXCEPT ![m] = f], [locked_by EXCEPT ![m] = NoFiber]},
         \/ pending' = pending /\ next_req_id' = next_req_id
         \/ /\ pending' \in {pending, PendingAdd(m, next_req_id[m], f)}
            /\ next_req_id' = [next_req_id EXCEPT ![m] = @ + 1],
         RecordOk(f, r, Mine(m, f)', f = current'[m])
  PROVE  FiberInv'
<1>1. /\ f \in Live(m) /\ loop[m] = "run" /\ f # NoFiber /\ current[m] = f
      /\ PendingOk(m) /\ SchedulerOk(m) /\ RecordOk(f, fib[f], Mine(m, f), TRUE)
  BY Current
<1>2. /\ current \in [Modules -> Fibers \cup {NoFiber}]
      /\ locked_by \in [Modules -> Fibers \cup {NoFiber}]
      /\ pending \in [Modules -> SUBSET PendingEntry] /\ next_req_id \in [Modules -> Nat]
  BY DEF TypeInv, TypeOK
<1>3. current'[m] \in {NoFiber, f} /\ \A n \in Modules \ {m} : current'[n] = current[n]
  BY <1>1, <1>2 DEF Yield
<1>4. locked_by'[m] \in {locked_by[m], f, NoFiber}
      /\ \A n \in Modules \ {m} : locked_by'[n] = locked_by[n]
  BY <1>2
<1>5. due'[m] \subseteq due[m] \ {f} /\ UNCHANGED <<loop, deferred, fibers, due>>
  <2>1. f \notin due[m]
    BY <1>1 DEF SchedulerOk, RecordOk
  <2> QED BY <2>1 DEF schedVars
<1>6. /\ \A n \in Modules \ {m} : pending'[n] = pending[n] /\ next_req_id'[n] = next_req_id[n]
      /\ PendingOk(m)' /\ \A g \in Live(m) \ {f} : Mine(m, g)' = Mine(m, g)
  <2>1. Live(m)' = Live(m) /\ next_req_id[m] \in Nat
    BY <1>2, <1>5 DEF Live
  <2>2. next_req_id'[m] \in {next_req_id[m], next_req_id[m] + 1}
        /\ \A n \in Modules \ {m} : next_req_id'[n] = next_req_id[n]
    BY <1>2
  <2>3. \A p \in pending[m] : p.req_id \in Nat /\ p.req_id < next_req_id[m]
    BY <1>1, <1>2 DEF PendingOk, PendingEntry
  <2>4. CASE pending' = pending
    <3>1. \A p \in pending[m] : p.req_id < next_req_id'[m]
      BY <2>1, <2>2, <2>3
    <3>2. PendingOk(m)'
      BY <1>1, <2>1, <2>4, <3>1 DEF PendingOk
    <3> QED BY <2>2, <2>4, <3>2 DEF Mine
  <2>5. CASE pending' = PendingAdd(m, next_req_id[m], f)
                /\ next_req_id' = [next_req_id EXCEPT ![m] = @ + 1]
    <3> DEFINE p == Pending(next_req_id[m], f)
    <3>1. /\ p.f = f /\ p.req_id = next_req_id[m]
          /\ pending'[m] = pending[m] \cup {p}
          /\ \A n \in Modules \ {m} : pending'[n] = pending[n]
      BY <1>2, <2>5 DEF PendingAdd, Pending
    <3> HIDE DEF p
    <3>2. next_req_id'[m] = next_req_id[m] + 1
      BY <1>2, <2>5
    <3>3. IsFiniteSet(pending'[m])
      BY <1>1, <3>1, FS_AddElement DEF PendingOk
    <3>4. \A q \in pending'[m] : q.f \in Live(m)' /\ q.req_id < next_req_id'[m]
      BY <1>1, <2>1, <2>3, <3>1, <3>2 DEF PendingOk
    <3>5. \A q, t \in pending'[m] : q.req_id = t.req_id => q = t
      BY <1>1, <2>1, <2>3, <3>1 DEF PendingOk
    <3>6. PendingOk(m)'
      BY <3>3, <3>4, <3>5 DEF PendingOk
    <3> QED BY <2>2, <3>1, <3>6 DEF Mine
  <2> QED BY <2>4, <2>5
<1>7. \A n \in Modules \ {m} :
        /\ current'[n] = current[n] /\ due'[n] = due[n] /\ locked_by'[n] = locked_by[n]
        /\ pending'[n] = pending[n] /\ next_req_id'[n] = next_req_id[n]
  BY <1>3, <1>4, <1>5, <1>6
<1>8. /\ current[m] \in {NoFiber, f} /\ current'[m] \in {NoFiber, f}
      /\ locked_by'[m] \in {locked_by[m], f, NoFiber}
      /\ due'[m] \subseteq due[m] \ {f} /\ UNCHANGED <<loop, deferred, fibers>>
  BY <1>1, <1>3, <1>4, <1>5
<1>9. PendingOk(m)' /\ \A g \in Live(m) \ {f} : Mine(m, g)' = Mine(m, g)
  BY <1>6
<1> QED BY <1>1, <1>7, <1>8, <1>9, OneFiber

\* coseq_request and coseq_request_timeout.
LEMMA RequestStep ==
  ASSUME TypeInv, FiberInv, NEW m \in Modules, NEW f \in Fibers, NEW c \in Call,
         Request(m, f, c)
  PROVE  FiberInv'
<1> DEFINE rid == next_req_id[m]
           r == [Past(f) EXCEPT !.wait_req_id = rid, !.waits = @ \cup RequestFlags(c)]
<1>1. /\ Running(m, f) /\ fib' = [fib EXCEPT ![f] = r]
      /\ UNCHANGED <<schedVars, locked_by>> /\ Yield(m)
      /\ pending' = PendingAdd(m, rid, f)
      /\ next_req_id' = [next_req_id EXCEPT ![m] = @ + 1]
  BY DEF Request, Makes, lockVars
<1>2. /\ fib[f] \in Fiber /\ RecordOk(f, fib[f], Mine(m, f), TRUE) /\ f # NoFiber
      /\ \A p \in Mine(m, f) : p.req_id # rid
  BY <1>1, Current
<1>3. fib[f].waits = {} /\ RequestFlags(c) \in {{"reply"}, {"reply", "timer"}}
  BY <1>2 DEF RecordOk, RequestFlags
<1>4. /\ r.done = fib[f].done /\ r.rq = fib[f].rq
      /\ r.async_outstanding = fib[f].async_outstanding
      /\ r.wait_req_id = rid /\ r.waits = fib[f].waits \cup RequestFlags(c)
  BY <1>2 DEF Past, Fiber
<1>5. r.waits \in {{"reply"}, {"reply", "timer"}}
  BY <1>3, <1>4
<1> HIDE DEF r
<1>6. Mine(m, f)' = Mine(m, f) \cup {Pending(rid, f)} /\ (f = current'[m]) = FALSE
  BY <1>1, <1>2 DEF Mine, PendingAdd, Pending, Yield, TypeInv, TypeOK
<1> HIDE DEF rid
<1>7. RecordOk(f, r, Mine(m, f) \cup {Pending(rid, f)}, FALSE)
  BY <1>2, <1>4, <1>5, AskAndWait
<1>8. RecordOk(f, r, Mine(m, f)', f = current'[m])
  BY <1>6, <1>7
<1> QED BY <1>1, <1>8, CallFrame DEF rid

\* coseq_request_async.
LEMMA AsyncStep ==
  ASSUME TypeInv, FiberInv, NEW m \in Modules, NEW f \in Fibers, NEW c \in Call,
         RequestAsync(m, f, c)
  PROVE  FiberInv'
<1> DEFINE rid == next_req_id[m]
           r == [Past(f) EXCEPT !.async_outstanding = @ + 1]
<1>1. /\ Running(m, f) /\ fib' = [fib EXCEPT ![f] = r]
      /\ UNCHANGED <<schedVars, locked_by, current>>
      /\ pending' = PendingAdd(m, rid, f)
      /\ next_req_id' = [next_req_id EXCEPT ![m] = @ + 1]
  BY DEF RequestAsync, Makes, lockVars
<1>2. /\ fib[f] \in Fiber /\ RecordOk(f, fib[f], Mine(m, f), TRUE) /\ current[m] = f
      /\ \A p \in Mine(m, f) : p.req_id # rid
      /\ IsFiniteSet(Mine(m, f)) /\ Len(fib[f].rq) \in Nat
  BY <1>1, Current
<1>3. /\ r.done = fib[f].done /\ r.rq = fib[f].rq /\ r.waits = fib[f].waits
      /\ r.async_outstanding = fib[f].async_outstanding + 1
  BY <1>2 DEF Past, Fiber
<1> HIDE DEF r
<1>4. Mine(m, f)' = Mine(m, f) \cup {Pending(rid, f)} /\ (f = current'[m]) = TRUE
  BY <1>1, <1>2 DEF Mine, PendingAdd, Pending, TypeInv, TypeOK
<1> HIDE DEF rid
<1>5. RecordOk(f, r, Mine(m, f) \cup {Pending(rid, f)}, TRUE)
  BY <1>2, <1>3, AskAndGoOn
<1>6. RecordOk(f, r, Mine(m, f)', f = current'[m])
  BY <1>4, <1>5
<1> QED BY <1>1, <1>6, CallFrame DEF rid

\* The calls after which the fiber goes on, having asked for nothing and taken
\* nothing: of its record only its place in the body or inside the call changes.
LEMMA StayStep ==
  ASSUME TypeInv, FiberInv, NEW m \in Modules, NEW f \in Fibers, Running(m, f),
         NEW r, fib' = [fib EXCEPT ![f] = r],
         r.done = fib[f].done, r.waits = fib[f].waits, r.rq = fib[f].rq,
         r.async_outstanding = fib[f].async_outstanding,
         UNCHANGED <<schedVars, current, pending>>,
         locked_by' \in {locked_by, [locked_by EXCEPT ![m] = f], [locked_by EXCEPT ![m] = NoFiber]},
         next_req_id' \in {next_req_id, [next_req_id EXCEPT ![m] = @ + 1]}
  PROVE  FiberInv'
<1>1. RecordOk(f, fib[f], Mine(m, f), TRUE) /\ current[m] = f
  BY Current
<1>2. RecordOk(f, r, Mine(m, f), TRUE)
  BY <1>1, SameAccounts
<1>3. Mine(m, f)' = Mine(m, f) /\ (f = current'[m]) = TRUE
  BY <1>1 DEF Mine
<1>4. RecordOk(f, r, Mine(m, f)', f = current'[m])
  BY <1>2, <1>3
<1> QED BY <1>4, CallFrame

\* Replying, sending, locking and unlocking, and finding nothing to collect.
LEMMA PlainCalls ==
  ASSUME TypeInv, FiberInv, NEW m \in Modules, NEW f \in Fibers, NEW c \in Call,
         \/ Send(m, f, c) \/ NothingToCollect(m, f, c) \/ ReplyToModule(m, f, c)
         \/ ReplyToExternal(m, f, c) \/ Lock(m, f, c) \/ Unlock(m, f, c)
  PROVE  FiberInv'
<1> DEFINE r == Past(f)
<1>1. /\ Running(m, f) /\ fib' = [fib EXCEPT ![f] = r]
      /\ UNCHANGED <<schedVars, current, pending>>
      /\ next_req_id' \in {next_req_id, [next_req_id EXCEPT ![m] = @ + 1]}
      /\ locked_by' \in {locked_by, [locked_by EXCEPT ![m] = f], [locked_by EXCEPT ![m] = NoFiber]}
  BY DEF Send, NothingToCollect, ReplyToModule, ReplyToExternal, Lock, Unlock, Collects,
         Makes, LockAfterUnlock, lockVars
<1>2. /\ r.done = fib[f].done /\ r.waits = fib[f].waits /\ r.rq = fib[f].rq
      /\ r.async_outstanding = fib[f].async_outstanding
  BY <1>1, Current DEF Past, Fiber
<1> HIDE DEF r
<1> QED BY <1>1, <1>2, StayStep

\* Registering and unregistering, and notifying.
LEMMA NotifySteps ==
  ASSUME TypeInv, FiberInv, NEW m \in Modules, NEW f \in Fibers, NEW c \in Call,
         NotifyCalls(m, f, c)
  PROVE  FiberInv'
<1>1. /\ Running(m, f) /\ UNCHANGED <<schedVars, current, pending, next_req_id, locked_by>>
  BY DEF NotifyCalls, RegRefused, RegTest, RegWrap, RegRead, RegWrite, UnregNotify, UnregUnknown,
         NotifyOne, NotifyDone, Registering, Notifying, Makes, lockVars
<1>2. fib[f] \in Fiber
  BY <1>1, Current
<1>3. ASSUME NEW r, fib' = [fib EXCEPT ![f] = r],
             r.done = fib[f].done, r.waits = fib[f].waits, r.rq = fib[f].rq,
             r.async_outstanding = fib[f].async_outstanding
      PROVE  FiberInv'
  BY <1>1, <1>3, StayStep
<1>4. CASE RegRefused(m, f, c)
           \/ \E cid \in ClientId : \/ \E i \in DOMAIN notify_clients[m] : UnregNotify(m, f, c, cid, i)
                                    \/ UnregUnknown(m, f, c, cid)
  <2>1. fib' = [fib EXCEPT ![f] = Past(f)]
    BY <1>4 DEF RegRefused, UnregNotify, UnregUnknown
  <2> DEFINE r == Past(f)
  <2>2. /\ r.done = fib[f].done /\ r.waits = fib[f].waits /\ r.rq = fib[f].rq
        /\ r.async_outstanding = fib[f].async_outstanding
    BY <1>2 DEF Past, Fiber
  <2> HIDE DEF r
  <2> QED BY <1>3, <2>1, <2>2 DEF r
<1>5. CASE RegTest(m, f, c)
  <2> DEFINE r == [fib[f] EXCEPT !.reg = AfterTest(next_client_id), !.cat = c.arg]
  <2>1. fib' = [fib EXCEPT ![f] = r]
    BY <1>5 DEF RegTest
  <2>2. /\ r.done = fib[f].done /\ r.waits = fib[f].waits /\ r.rq = fib[f].rq
        /\ r.async_outstanding = fib[f].async_outstanding
    BY <1>2 DEF Past, Fiber
  <2> HIDE DEF r
  <2> QED BY <1>3, <2>1, <2>2
<1>6. CASE RegWrap(m, f, c) \/ RegRead(m, f, c)
  <2>0. PICK x : fib' = [fib EXCEPT ![f].reg = x]
    BY <1>6 DEF RegWrap, RegRead
  <2> DEFINE r == [fib[f] EXCEPT !.reg = x]
  <2>1. fib' = [fib EXCEPT ![f] = r]
    BY <2>0
  <2>2. /\ r.done = fib[f].done /\ r.waits = fib[f].waits /\ r.rq = fib[f].rq
        /\ r.async_outstanding = fib[f].async_outstanding
    BY <1>2 DEF Past, Fiber
  <2> HIDE DEF r
  <2> QED BY <1>3, <2>1, <2>2
<1>7. CASE RegWrite(m, f, c)
  <2> DEFINE r == [Past(f) EXCEPT !.reg = NotReg, !.cat = ""]
  <2>1. fib' = [fib EXCEPT ![f] = r]
    BY <1>7 DEF RegWrite
  <2>2. /\ r.done = fib[f].done /\ r.waits = fib[f].waits /\ r.rq = fib[f].rq
        /\ r.async_outstanding = fib[f].async_outstanding
    BY <1>2 DEF Past, Fiber
  <2> HIDE DEF r
  <2> QED BY <1>3, <2>1, <2>2
<1>8. CASE \E i \in DOMAIN notify_clients[m] : NotifyOne(m, f, c, i)
  <2>1. PICK i \in DOMAIN notify_clients[m] : NotifyOne(m, f, c, i)
    BY <1>8
  <2> DEFINE r == [fib[f] EXCEPT !.fan = i, !.cat = c.arg]
  <2>2. fib' = [fib EXCEPT ![f] = r]
    BY <2>1 DEF NotifyOne
  <2>3. /\ r.done = fib[f].done /\ r.waits = fib[f].waits /\ r.rq = fib[f].rq
        /\ r.async_outstanding = fib[f].async_outstanding
    BY <1>2 DEF Past, Fiber
  <2> HIDE DEF r
  <2> QED BY <1>3, <2>2, <2>3
<1>9. CASE NotifyDone(m, f, c)
  <2> DEFINE r == [Past(f) EXCEPT !.fan = 0, !.cat = ""]
  <2>1. fib' = [fib EXCEPT ![f] = r]
    BY <1>9 DEF NotifyDone
  <2>2. /\ r.done = fib[f].done /\ r.waits = fib[f].waits /\ r.rq = fib[f].rq
        /\ r.async_outstanding = fib[f].async_outstanding
    BY <1>2 DEF Past, Fiber
  <2> HIDE DEF r
  <2> QED BY <1>3, <2>1, <2>2
<1> QED BY <1>4, <1>5, <1>6, <1>7, <1>8, <1>9 DEF NotifyCalls

\* coseq_wait_reply and coseq_gather that find a queued reply.
LEMMA CollectStep ==
  ASSUME TypeInv, FiberInv, NEW m \in Modules, NEW f \in Fibers, NEW c \in Call,
         CollectQueued(m, f, c)
  PROVE  FiberInv'
<1> DEFINE x == Src(Head(fib[f].rq).result, 0, 0, Head(fib[f].rq).req_id)
           r == [AfterOne(f, c) EXCEPT !.rq = Tail(@), !.async_outstanding = @ - 1, !.src = x]
<1>1. /\ Running(m, f) /\ fib' = [fib EXCEPT ![f] = r] /\ fib[f].rq # <<>>
      /\ UNCHANGED <<schedVars, current, pending, next_req_id, locked_by>>
  BY DEF CollectQueued, Collects, Makes, lockVars
<1>2. /\ fib[f] \in Fiber /\ RecordOk(f, fib[f], Mine(m, f), TRUE) /\ current[m] = f
      /\ IsFiniteSet(Mine(m, f)) /\ Len(fib[f].rq) \in Nat
  BY <1>1, Current
<1>3. /\ r.done = fib[f].done /\ r.rq = Tail(fib[f].rq) /\ r.waits = fib[f].waits
      /\ r.async_outstanding = fib[f].async_outstanding - 1
  BY <1>2 DEF AfterOne, Past, Fiber
<1> HIDE DEF r, x
<1>4. Len(r.rq) = Len(fib[f].rq) - 1
  <2>1. fib[f].rq \in Seq([req_id : Int, result : Argument])
    BY <1>2 DEF Fiber
  <2> QED BY <1>1, <1>3, <2>1, HeadTailProperties
<1>5. RecordOk(f, r, Mine(m, f), TRUE)
  BY <1>2, <1>3, <1>4, TakeQueued
<1>6. Mine(m, f)' = Mine(m, f) /\ (f = current'[m]) = TRUE
  BY <1>1, <1>2 DEF Mine
<1>7. RecordOk(f, r, Mine(m, f)', f = current'[m])
  BY <1>5, <1>6
<1> QED BY <1>1, <1>7, CallFrame

\* Waiting for any reply or for a timer, and returning: the thread goes back to
\* its scheduler and pending stays.
LEMMA LeaveStep ==
  ASSUME TypeInv, FiberInv, NEW m \in Modules, NEW f \in Fibers, NEW c \in Call,
         WaitForReply(m, f, c) \/ WaitTimeout(m, f, c) \/ Return(m, f, c)
  PROVE  FiberInv'
<1>1. /\ Running(m, f) /\ UNCHANGED <<schedVars, pending, next_req_id, locked_by>> /\ Yield(m)
  BY DEF WaitForReply, WaitTimeout, Return, Collects, Makes, lockVars
<1>2. /\ fib[f] \in Fiber /\ RecordOk(f, fib[f], Mine(m, f), TRUE) /\ f # NoFiber
      /\ fib[f].waits = {} /\ ~fib[f].done
  BY <1>1, Current DEF RecordOk
<1>3. Mine(m, f)' = Mine(m, f) /\ (f = current'[m]) = FALSE
  BY <1>1, <1>2 DEF Mine, Yield, TypeInv, TypeOK
<1>4. ASSUME NEW r, fib' = [fib EXCEPT ![f] = r], RecordOk(f, r, Mine(m, f), FALSE)
      PROVE  FiberInv'
  <2>1. RecordOk(f, r, Mine(m, f)', f = current'[m])
    BY <1>3, <1>4
  <2> QED BY <1>1, <1>4, <2>1, CallFrame
<1>5. CASE WaitForReply(m, f, c)
  <2> DEFINE r == [AfterOne(f, c) EXCEPT !.waits = @ \cup {"any"}]
  <2>1. /\ fib' = [fib EXCEPT ![f] = r]
        /\ fib[f].async_outstanding # 0 /\ fib[f].rq = <<>>
    BY <1>5 DEF WaitForReply
  <2>2. /\ r.done = fib[f].done /\ r.rq = fib[f].rq /\ r.waits = fib[f].waits \cup {"any"}
        /\ r.async_outstanding = fib[f].async_outstanding
    BY <1>2 DEF AfterOne, Past, Fiber
  <2>3. r.waits = {"any"} /\ Len(fib[f].rq) = 0
    BY <1>2, <2>1, <2>2, EmptySeq
  <2> HIDE DEF r
  <2>4. RecordOk(f, r, Mine(m, f), FALSE)
    BY <1>2, <2>1, <2>2, <2>3, WaitForAny
  <2> QED BY <1>4, <2>1, <2>4
<1>6. CASE WaitTimeout(m, f, c)
  <2> DEFINE r == [Past(f) EXCEPT !.waits = @ \cup {"timer"}]
  <2>1. fib' = [fib EXCEPT ![f] = r]
    BY <1>6 DEF WaitTimeout
  <2>2. /\ r.done = fib[f].done /\ r.rq = fib[f].rq /\ r.waits = fib[f].waits \cup {"timer"}
        /\ r.async_outstanding = fib[f].async_outstanding
    BY <1>2 DEF Past, Fiber
  <2>3. r.waits = {"timer"}
    BY <1>2, <2>2
  <2> HIDE DEF r
  <2>4. RecordOk(f, r, Mine(m, f), FALSE)
    BY <1>2, <2>2, <2>3, WaitForTimer
  <2> QED BY <1>4, <2>1, <2>4
<1>7. CASE Return(m, f, c)
  <2> DEFINE r == [fib[f] EXCEPT !.done = TRUE]
  <2>1. fib' = [fib EXCEPT ![f] = r]
    BY <1>7 DEF Return
  <2>2. /\ r.done /\ r.rq = fib[f].rq /\ r.waits = {}
        /\ r.async_outstanding = fib[f].async_outstanding
    BY <1>2 DEF Fiber
  <2> HIDE DEF r
  <2>3. RecordOk(f, r, Mine(m, f), FALSE)
    BY <1>2, <2>2, Finish
  <2> QED BY <1>4, <2>1, <2>3
<1> QED BY <1>5, <1>6, <1>7

\* Every step of the fiber a thread is in.
LEMMA SequenceKeeps ==
  ASSUME TypeInv, FiberInv, NEW m \in Modules, Sequence(m)
  PROVE  FiberInv'
<1>1. current[m] \in Fibers /\ \A c \in NextCalls(m) : c \in Call
  BY CallType DEF Sequence
<1>2. PICK c \in NextCalls(m) : Calls(m, current[m], c) \/ NotifyCalls(m, current[m], c)
  BY DEF Sequence
<1> QED BY <1>1, <1>2, RequestStep, AsyncStep, PlainCalls, CollectStep, LeaveStep, NotifySteps
        DEF Calls

-----------------------------------------------------------------------------
(* Every step *)

\* What none of the invariant reads: time, the external threads, the stop flags.
LEMMA ElsewhereStep ==
  ASSUME FiberInv,
         UNCHANGED <<loop, due, deferred, fibers, current, locked_by, pending, next_req_id, fib>>
  PROVE  FiberInv'
<1>1. \A n \in Modules : Live(n)' = Live(n)
  BY DEF Live
<1>2. HeapOk'
  <2>1. Unused' = Unused
    BY <1>1 DEF Unused
  <2> QED BY <1>1, <2>1 DEF FiberInv, HeapOk, AllStopped
<1>3. ASSUME NEW n \in Modules PROVE ThreadOk(n)'
  BY ThreadKept DEF FiberInv
<1> QED BY <1>2, <1>3 DEF FiberInv

\* Teardown, once every thread is joined.
LEMMA FreeStep ==
  ASSUME TypeInv, FiberInv, FreeModules
  PROVE  FiberInv'
<1>1. /\ AllStopped /\ UNCHANGED <<loop, due, current, locked_by, next_req_id, fib>>
      /\ fibers' = [m \in Modules |-> <<>>] /\ pending' = [m \in Modules |-> {}]
  BY DEF FreeModules, AllStopped, lockVars
<1>2. \A m \in Modules : Live(m)' = {}
  BY <1>1 DEF Live, ToSet
<1>3. HeapOk'
  BY <1>1, <1>2 DEF HeapOk, AllStopped
<1>4. ASSUME NEW m \in Modules PROVE ThreadOk(m)'
  <2>1. SchedulerOk(m) /\ loop[m] = "stopped"
    BY <1>1 DEF FiberInv, ThreadOk, AllStopped
  <2>2. SchedulerOk(m)'
    BY <1>1, <2>1 DEF SchedulerOk
  <2>3. PendingOk(m)'
    BY <1>1, FS_EmptySet DEF PendingOk
  <2>4. FibersOk(m)'
    BY <1>2 DEF FibersOk
  <2> QED BY <2>2, <2>3, <2>4 DEF ThreadOk
<1> QED BY <1>3, <1>4 DEF FiberInv

\* FiberInv is inductive while finished fibers have collected their replies.
LEMMA FiberStep ==
  ASSUME TypeInv, FiberInv, AllCollected, [Next]_vars
  PROVE  FiberInv'
<1>1. ASSUME NEW m \in Modules, Sched(m) PROVE FiberInv'
  BY <1>1, QuietSteps, ReapStep, TimerStep, ReplyStep, LaunchStep DEF Sched
<1>2. ASSUME NEW m \in Modules, Sequence(m) PROVE FiberInv'
  BY <1>2, SequenceKeeps
<1>3. ASSUME NEW m \in Modules, SpuriousWake(m) PROVE FiberInv'
  BY <1>3, QuietSteps
<1>4. ASSUME NEW f \in Fibers, TimePasses(f) PROVE FiberInv'
  BY <1>4, ElsewhereStep DEF TimePasses, schedVars, lockVars
<1>5. ASSUME NEW c \in Clients, External(c) PROVE FiberInv'
  BY <1>5, ElsewhereStep DEF External, RequestSync, ExtRequestAsync, SyncReturns, schedVars, lockVars
<1>6. CASE Owner
  <2>1. CASE BeginTeardown \/ \E m \in Modules : StopModule(m)
    BY <2>1, ElsewhereStep DEF BeginTeardown, StopModule, schedVars, lockVars
  <2> QED BY <1>6, <2>1, FreeStep DEF Owner
<1>7. CASE UNCHANGED vars
  BY <1>7, ElsewhereStep DEF vars, schedVars, lockVars
<1> QED BY <1>1, <1>2, <1>3, <1>4, <1>5, <1>6, <1>7 DEF Next, Thread

\* After co_init no list and no table has an entry.
LEMMA FiberInit == Init => FiberInv
<1> SUFFICES ASSUME Init PROVE FiberInv
  OBVIOUS
<1>1. \A m \in Modules : /\ fibers[m] = <<>> /\ due[m] = {} /\ pending[m] = {}
                         /\ current[m] = NoFiber /\ locked_by[m] = NoFiber /\ deferred[m] = <<>>
  BY DEF Init
<1>2. \A m \in Modules : Live(m) = {}
  BY <1>1 DEF Live, ToSet
<1>3. \A f \in Fibers : fib[f].waits = {}
  BY DEF Init, BlankFiber, FreshFiber
<1>4. HeapOk
  BY <1>2, <1>3 DEF HeapOk, Unused
<1>5. ASSUME NEW m \in Modules PROVE ThreadOk(m)
  <2>1. FibersOk(m)
    BY <1>2 DEF FibersOk
  <2>2. PendingOk(m)
    BY <1>1, FS_EmptySet DEF PendingOk
  <2>3. SchedulerOk(m)
    BY <1>1 DEF SchedulerOk
  <2> QED BY <2>1, <2>2, <2>3 DEF ThreadOk
<1> QED BY <1>4, <1>5 DEF FiberInv

-----------------------------------------------------------------------------
(* What FiberInv says of the properties *)

\* The lock, and what sleeps behind it.
LEMMA LockFacts ==
  ASSUME TypeInv, FiberInv
  PROVE  LockHolderLive /\ NothingStranded
<1>1. LockHolderLive
  BY DEF FiberInv, ThreadOk, SchedulerOk, LockHolderLive
<1>2. NothingStranded
  <2> SUFFICES ASSUME NEW m \in Modules, loop[m] = "wait", deferred[m] # <<>>
               PROVE  /\ locked_by[m] \in Live(m) /\ ~fib[locked_by[m]].done
                      /\ fib[locked_by[m]].waits # {}
    BY DEF NothingStranded
  <2>1. SchedulerOk(m) /\ FibersOk(m)
    BY DEF FiberInv, ThreadOk
  <2>2. locked_by[m] \in Live(m) /\ current[m] = NoFiber /\ ~fib[locked_by[m]].done
    BY <2>1 DEF SchedulerOk, FibersOk
  <2>3. RecordOk(locked_by[m], fib[locked_by[m]], Mine(m, locked_by[m]), FALSE)
    BY <2>2, Parked
  <2> QED BY <2>2, <2>3 DEF RecordOk
<1> QED BY <1>1, <1>2

\* The table of pending requests, the counters and the waits.
LEMMA RequestFacts ==
  ASSUME TypeInv, FiberInv
  PROVE  PendingFibersLive /\ AsyncAccounting /\ NoFiberForgotten
<1>1. PendingFibersLive
  BY DEF FiberInv, ThreadOk, PendingOk, PendingFibersLive
<1>2. ASSUME NEW m \in Modules, NEW f \in Live(m)
      PROVE  AsyncPending(m, f) = Awaited(fib[f], Mine(m, f))
  BY DEF AsyncPending, Awaited, Mine
<1>3. ASSUME NEW m \in Modules, NEW f \in Live(m)
      PROVE  RecordOk(f, fib[f], Mine(m, f), f = current[m])
  BY DEF FiberInv, ThreadOk, FibersOk
<1>4. AsyncAccounting
  <2> SUFFICES ASSUME NEW m \in Modules, NEW f \in Live(m)
               PROVE  fib[f].async_outstanding = Cardinality(AsyncPending(m, f)) + Len(fib[f].rq)
    BY DEF AsyncAccounting
  <2>1. fib[f].async_outstanding = Cardinality(Awaited(fib[f], Mine(m, f))) + Len(fib[f].rq)
    BY <1>3 DEF RecordOk
  <2>2. Cardinality(AsyncPending(m, f)) = Cardinality(Awaited(fib[f], Mine(m, f)))
    BY <1>2, Zenon
  <2> QED BY <2>1, <2>2
<1>5. NoFiberForgotten
  <2> SUFFICES ASSUME NEW m \in Modules, NEW f \in Live(m), f # current[m], ~fib[f].done
               PROVE  \/ "timer" \in fib[f].waits
                      \/ "reply" \in fib[f].waits /\ Pending(fib[f].wait_req_id, f) \in pending[m]
                      \/ "any" \in fib[f].waits /\ AsyncPending(m, f) # {}
    BY DEF NoFiberForgotten
  <2>1. RecordOk(f, fib[f], Mine(m, f), FALSE)
    <3>1. (f = current[m]) = FALSE
      OBVIOUS
    <3> QED BY <1>3, <3>1
  <2>2. fib[f].waits \subseteq {"reply", "timer", "any"}
    BY RefersType, FiberType DEF TypeInv, Refers
  <2>3. fib[f].waits # {} /\ Mine(m, f) \subseteq pending[m]
    BY <2>1 DEF RecordOk, Mine
  <2>4. AsyncPending(m, f) = Awaited(fib[f], Mine(m, f))
    BY <1>2
  <2> QED BY <2>1, <2>2, <2>3, <2>4 DEF RecordOk
<1> QED BY <1>1, <1>4, <1>5

\* A call changes the record of the fiber that makes it and of no other.
LEMMA CallsChangeOne ==
  ASSUME fib \in [Fibers -> Fiber], NEW m \in Modules, NEW f \in Fibers, NEW c,
         Calls(m, f, c) \/ NotifyCalls(m, f, c)
  PROVE  \A g \in Fibers \ {f} : fib'[g] = fib[g]
<1>1. CASE Calls(m, f, c)
  <2>1. CASE Request(m, f, c) \/ RequestAsync(m, f, c) \/ Send(m, f, c)
    BY <2>1 DEF Request, RequestAsync, Send
  <2>2. CASE NothingToCollect(m, f, c) \/ CollectQueued(m, f, c) \/ WaitForReply(m, f, c)
    BY <2>2 DEF NothingToCollect, CollectQueued, WaitForReply
  <2>3. CASE ReplyToModule(m, f, c) \/ ReplyToExternal(m, f, c) \/ WaitTimeout(m, f, c)
    BY <2>3 DEF ReplyToModule, ReplyToExternal, WaitTimeout
  <2>4. CASE Lock(m, f, c) \/ Unlock(m, f, c) \/ Return(m, f, c)
    BY <2>4 DEF Lock, Unlock, Return
  <2> QED BY <1>1, <2>1, <2>2, <2>3, <2>4 DEF Calls
<1>2. CASE NotifyCalls(m, f, c)
  <2>1. CASE \/ RegRefused(m, f, c) \/ RegTest(m, f, c) \/ RegWrap(m, f, c)
             \/ RegRead(m, f, c) \/ RegWrite(m, f, c)
    BY <2>1 DEF RegRefused, RegTest, RegWrap, RegRead, RegWrite
  <2>2. ASSUME NEW cid, NEW i, UnregNotify(m, f, c, cid, i) \/ UnregUnknown(m, f, c, cid)
        PROVE  \A g \in Fibers \ {f} : fib'[g] = fib[g]
    BY <2>2 DEF UnregNotify, UnregUnknown
  <2>3. ASSUME NEW i, NotifyOne(m, f, c, i) \/ NotifyDone(m, f, c)
        PROVE  \A g \in Fibers \ {f} : fib'[g] = fib[g]
    BY <2>3 DEF NotifyOne, NotifyDone
  <2> QED BY <1>2, <2>1, <2>2, <2>3 DEF NotifyCalls
<1> QED BY <1>1, <1>2

\* A step that ends a fiber's request leaves it with that request's answer.
AnswersItsRequest ==
  \A f \in Fibers :
    "reply" \in fib[f].waits /\ "reply" \notin fib'[f].waits =>
      fib'[f].src.req_id = fib[f].wait_req_id

\* Only a reply to the request, its timeout, and no other step ends it.
LEMMA AnswerStep ==
  ASSUME TypeInv, FiberInv, [Next]_vars
  PROVE  AnswersItsRequest
<1>0. fib \in [Fibers -> Fiber]
  BY DEF TypeInv, TypeOK
<1>1. fib' = fib => AnswersItsRequest
  BY DEF AnswersItsRequest
<1>2. ASSUME NEW f \in Fibers, NEW r, fib' = [fib EXCEPT ![f] = r],
             "reply" \notin fib[f].waits \/ "reply" \in r.waits \/ r.src.req_id = fib[f].wait_req_id
      PROVE  AnswersItsRequest
  BY <1>0, <1>2 DEF AnswersItsRequest
<1>3. ASSUME NEW m \in Modules, NEW f \in Fibers, TimerFires(m, f) PROVE AnswersItsRequest
  <2> DEFINE r == [AfterTimer(f) EXCEPT !.waits = {}]
  <2>1. fib' = [fib EXCEPT ![f] = r]
    BY <1>3 DEF TimerFires, Resume
  <2>2. "reply" \in fib[f].waits => r.src.req_id = fib[f].wait_req_id
    BY <1>0 DEF AfterTimer, Src, Fiber
  <2> HIDE DEF r
  <2> QED BY <1>2, <2>1, <2>2
<1>4. ASSUME NEW m \in Modules, NEW f \in Fibers, ReplyEndsRequest(m, f) PROVE AnswersItsRequest
  <2> DEFINE e == Head(evs[m])
             r == [[fib[f] EXCEPT !.src = ReplySrc(e)] EXCEPT !.waits = {}]
  <2>1. fib' = [fib EXCEPT ![f] = r] /\ fib[f].wait_req_id = e.req_id
    BY <1>4 DEF ReplyEndsRequest, Resume, AwaitsThis
  <2>2. r.src.req_id = e.req_id
    BY <1>0 DEF ReplySrc, Src, Fiber
  <2> HIDE DEF r, e
  <2> QED BY <1>2, <2>1, <2>2
<1>5. ASSUME NEW m \in Modules, NEW f \in Fibers, ReplyEndsWait(m, f) PROVE AnswersItsRequest
  <2>1. /\ current[m] = NoFiber /\ Pending(Head(evs[m]).req_id, f) \in pending[m]
        /\ "any" \in fib[f].waits
        /\ \E r : fib' = [fib EXCEPT ![f] = r]
    BY <1>5 DEF ReplyEndsWait, Replied, Handles, Scheduling, AwaitedBy, Resume
  <2>2. f \in Live(m)
    BY <2>1 DEF FiberInv, ThreadOk, PendingOk, Pending
  <2>3. RecordOk(f, fib[f], Mine(m, f), FALSE)
    BY <2>1, <2>2, Parked
  <2>4. "reply" \notin fib[f].waits
    BY <2>1, <2>3 DEF RecordOk
  <2> QED BY <1>2, <2>1, <2>4
<1>6. ASSUME NEW m \in Modules, NEW f \in Fibers, ReplyQueued(m, f) PROVE AnswersItsRequest
  <2> DEFINE r == [fib[f] EXCEPT !.rq = Append(@, [req_id |-> Head(evs[m]).req_id,
                                                   result |-> Head(evs[m]).result])]
  <2>1. fib' = [fib EXCEPT ![f] = r]
    BY <1>6 DEF ReplyQueued
  <2>2. r.waits = fib[f].waits
    BY <1>0 DEF Fiber
  <2> HIDE DEF r
  <2> QED BY <1>2, <2>1, <2>2
<1>7. ASSUME NEW m \in Modules, NEW f \in Fibers, StartSequence(m, f) \/ StartHandler(m, f)
      PROVE  AnswersItsRequest
  <2>1. loop[m] = "run" /\ f \in Unused /\ \E r : fib' = [fib EXCEPT ![f] = r]
    BY <1>7 DEF StartSequence, StartHandler, Handles, Scheduling, Launch, Resume
  <2>2. fib[f].waits = {}
    BY <2>1, HeapRunning DEF FiberInv
  <2> QED BY <1>2, <2>1, <2>2
<1>8. ASSUME NEW m \in Modules, Sequence(m) PROVE AnswersItsRequest
  <2>1. current[m] \in Fibers /\ current[m] # NoFiber
    BY <1>8, CallType DEF Sequence
  <2>2. PICK c \in NextCalls(m) : Calls(m, current[m], c) \/ NotifyCalls(m, current[m], c)
    BY <1>8 DEF Sequence
  <2>3. \A g \in Fibers \ {current[m]} : fib'[g] = fib[g]
    BY <1>0, <2>1, <2>2, CallsChangeOne
  <2>4. RecordOk(current[m], fib[current[m]], Mine(m, current[m]), TRUE)
    BY <2>1, Current DEF Running
  <2>5. fib[current[m]].waits = {}
    BY <2>4 DEF RecordOk
  <2> QED BY <2>3, <2>5 DEF AnswersItsRequest
<1>9. ASSUME NEW m \in Modules, Sched(m) \/ SpuriousWake(m) PROVE AnswersItsRequest
  <2>1. \/ fib' = fib
        \/ \E f \in Fibers : \/ TimerFires(m, f) \/ ReplyEndsRequest(m, f) \/ ReplyEndsWait(m, f)
                             \/ ReplyQueued(m, f) \/ StartSequence(m, f) \/ StartHandler(m, f)
    BY <1>9 DEF Sched, SpuriousWake, Sleep, StartPass, TakeInbox, Stopped, TimerHeldBack, Defer,
                StartRefused, NotifyRefused, ReplyUnknown, Dropped, Reap, EndPass
  <2> QED BY <1>1, <1>3, <1>4, <1>5, <1>6, <1>7, <2>1
<1>10. \/ \E f \in Fibers : TimePasses(f)
       \/ \E c \in Clients : External(c)
       \/ Owner \/ UNCHANGED vars
       => fib' = fib
  BY DEF TimePasses, External, RequestSync, ExtRequestAsync, SyncReturns, Owner, BeginTeardown,
         StopModule, FreeModules, vars
<1> QED BY <1>1, <1>8, <1>9, <1>10 DEF Next, Thread

-----------------------------------------------------------------------------
(* Programs that collect their replies *)

\* A fiber with the record r is owed no more than any ledger of its body says, but
\* for the reply it sleeps on: its place is then past the call already.
SleptOn(r) == IF "any" \in r.waits THEN 1 ELSE 0
Collected(r) ==
  LET body == Script[r.mod][r.fn] IN
  /\ r.pc \in 1..(Len(body) + 1)
  /\ ~({"any", "timer"} \subseteq r.waits)
  /\ \A owed \in Ledgers(body) : r.async_outstanding <= owed[r.pc] + SleptOn(r)
  /\ r.done => r.async_outstanding = 0

CollectInv == \A m \in Modules : \A f \in Live(m) : Collected(fib[f])

\* An awaited reply counts: something is outstanding.
LEMMA AwaitedCounts ==
  ASSUME NEW f, NEW r, NEW mine, RecordOk(f, r, mine, FALSE), IsFiniteSet(mine),
         NEW p \in Awaited(r, mine), Len(r.rq) \in Nat
  PROVE  r.async_outstanding # 0
<1>1. IsFiniteSet(Awaited(r, mine))
  BY FS_Subset DEF Awaited
<1>2. Cardinality(Awaited(r, mine)) \in Nat /\ Cardinality(Awaited(r, mine)) # 0
  BY <1>1, FS_EmptySet, FS_CardinalityType
<1> QED BY <1>2 DEF RecordOk

\* The body of a fiber of a module's list, and its ledgers.
LEMMA BodyLedgers ==
  ASSUME TypeInv, NEW m \in Modules, NEW f \in Live(m)
  PROVE  LET body == Script[fib[f].mod][fib[f].fn] IN
         /\ fib[f] \in Fiber /\ fib[f].mod \in Modules /\ fib[f].fn \in DOMAIN Script[fib[f].mod]
         /\ Len(body) \in Nat /\ DOMAIN body = 1..Len(body)
         /\ \A owed \in Ledgers(body) : owed \in [1..(Len(body) + 1) -> Nat]
<1>1. f \in Fibers
  BY RefersType DEF TypeInv, Refers
<1>2. fib[f] \in Fiber /\ fib[f].mod \in Modules
  BY <1>1, FiberType DEF TypeInv, Fiber
<1>3. fib[f].fn \in DOMAIN Script[fib[f].mod]
  BY <1>1 DEF TypeInv, KnownFibers, Known, Refers
<1>4. Script[fib[f].mod][fib[f].fn] \in Seq(SUBSET Call)
  BY <1>2, <1>3, ScriptAssumption
<1> QED BY <1>2, <1>3, <1>4, LenProperties DEF Ledgers

\* A record that changed in nothing Collected reads, or is owed less.
LEMMA StillCollected ==
  ASSUME TypeInv, NEW m \in Modules, NEW f \in Live(m), Collected(fib[f]),
         NEW s, s.mod = fib[f].mod, s.fn = fib[f].fn, s.pc = fib[f].pc, s.done = fib[f].done,
         ~({"any", "timer"} \subseteq s.waits), s.async_outstanding \in Int,
         s.async_outstanding = fib[f].async_outstanding \/ fib[f].async_outstanding # 0,
         s.async_outstanding - SleptOn(s) <= fib[f].async_outstanding - SleptOn(fib[f])
  PROVE  Collected(s)
<1> DEFINE body == Script[fib[f].mod][fib[f].fn]
<1>1. /\ fib[f].async_outstanding \in Int /\ SleptOn(s) \in Int /\ SleptOn(fib[f]) \in Int
      /\ fib[f].pc \in 1..(Len(body) + 1)
      /\ \A owed \in Ledgers(body) : owed[fib[f].pc] \in Nat
  BY BodyLedgers DEF Fiber, SleptOn, Collected
<1>2. \A owed \in Ledgers(body) : s.async_outstanding <= owed[s.pc] + SleptOn(s)
  BY <1>1 DEF Collected
<1> QED BY <1>2 DEF Collected

\* The call a running fiber makes is the one its body has at its place, or the
\* return past the end.
LEMMA CallAtPlace ==
  ASSUME TypeInv, NEW m \in Modules, NEW f \in Fibers, Running(m, f), NEW c \in NextCalls(m)
  PROVE  LET body == Script[fib[f].mod][fib[f].fn] IN
         \/ fib[f].pc \in DOMAIN body /\ c \in body[fib[f].pc]
         \/ fib[f].pc \notin DOMAIN body /\ c.op = "return"
<1> DEFINE body == Script[fib[f].mod][fib[f].fn]
<1>1. c \in IF fib[f].pc \in DOMAIN body THEN body[fib[f].pc] ELSE {ReturnCall}
  BY DEF NextCalls, Running
<1> HIDE DEF body
<1>2. ReturnCall.op = "return"
  BY DEF ReturnCall
<1>3. \/ fib[f].pc \in DOMAIN body /\ c \in body[fib[f].pc]
      \/ fib[f].pc \notin DOMAIN body /\ c.op = "return"
  BY <1>1, <1>2
<1> QED BY <1>3 DEF body

\* A running fiber is owed a number of replies.
LEMMA OwedNat ==
  ASSUME TypeInv, FiberInv, NEW m \in Modules, NEW f \in Fibers, Running(m, f)
  PROVE  fib[f].async_outstanding \in Nat /\ SleptOn(fib[f]) = 0
<1>1. RecordOk(f, fib[f], Mine(m, f), TRUE) /\ IsFiniteSet(Mine(m, f)) /\ Len(fib[f].rq) \in Nat
  BY Current
<1>2. Awaited(fib[f], Mine(m, f)) = Mine(m, f)
  BY <1>1 DEF RecordOk, Awaited
<1>3. Cardinality(Mine(m, f)) \in Nat
  BY <1>1, FS_CardinalityType
<1>4. fib[f].async_outstanding = Cardinality(Mine(m, f)) + Len(fib[f].rq)
  BY <1>1, <1>2 DEF RecordOk
<1> QED BY <1>1, <1>3, <1>4 DEF RecordOk, SleptOn

\* What a call that goes to the next place does to the replies owed, out before it
\* and net after it, the one it sleeps on not counted.
Counts(c, out, net) ==
  \/ net <= out /\ c.op \notin {"wait_reply", "gather", "request_async", "return"}
  \/ net <= out - 1 /\ c.op = "wait_reply"
  \/ net <= 0
  \/ c.op = "request_async" /\ net <= out + 1

\* One line of a ledger: the replies owed after a call.
LEMMA LedgerLine ==
  ASSUME NEW c, NEW before \in Nat, NEW after \in Nat, Leaves(c, before, after),
         NEW out \in Nat, out <= before, NEW net \in Int, Counts(c, out, net)
  PROVE  net <= after
  BY DEF Leaves, Counts

\* A call that moves to the next place, other than coseq_gather when replies are
\* outstanding: what is owed then fits any ledger.
LEMMA PastCollected ==
  ASSUME TypeInv, FiberInv, CollectInv, NEW m \in Modules, NEW f \in Fibers, f \in Live(m),
         Running(m, f), NEW c \in NextCalls(m), c.op # "return",
         NEW s, s.mod = fib[f].mod, s.fn = fib[f].fn, s.pc = fib[f].pc + 1, ~s.done,
         ~({"any", "timer"} \subseteq s.waits), s.async_outstanding \in Int,
         Counts(c, fib[f].async_outstanding, s.async_outstanding - SleptOn(s))
  PROVE  Collected(s)
<1> DEFINE body == Script[fib[f].mod][fib[f].fn]
           pc == fib[f].pc
           out == fib[f].async_outstanding
           net == s.async_outstanding - SleptOn(s)
<1>1. /\ pc \in DOMAIN body /\ c \in body[pc] /\ out \in Nat /\ SleptOn(fib[f]) = 0
      /\ Len(body) \in Nat /\ DOMAIN body = 1..Len(body)
      /\ \A owed \in Ledgers(body) : owed \in [1..(Len(body) + 1) -> Nat]
  BY BodyLedgers, CallAtPlace, OwedNat
<1>2. \A owed \in Ledgers(body) : out <= owed[pc] + SleptOn(fib[f])
  BY DEF CollectInv, Collected
<1>3. SleptOn(s) \in Int
  BY DEF SleptOn
<1>4. net \in Int /\ s.async_outstanding = net + SleptOn(s)
  BY <1>3
<1>5. s.pc = pc + 1 /\ Script[s.mod][s.fn] = body
  OBVIOUS
<1> HIDE DEF body, pc, out, net
<1>a. s.pc \in 1..(Len(body) + 1)
  BY <1>1, <1>5
<1>6. ASSUME NEW owed \in Ledgers(body) PROVE net <= owed[pc + 1]
  <2>1. owed[pc] \in Nat /\ owed[pc + 1] \in Nat
    BY <1>1
  <2>2. out <= owed[pc]
    BY <1>1, <1>2, <2>1
  <2>3. Leaves(c, owed[pc], owed[pc + 1])
    BY <1>1 DEF Ledgers
  <2>4. Counts(c, out, net)
    BY DEF out, net
  <2> QED BY <1>1, <1>4, <2>1, <2>2, <2>3, <2>4, LedgerLine
<1>7. ASSUME NEW owed \in Ledgers(body) PROVE s.async_outstanding <= owed[pc + 1] + SleptOn(s)
  <2>1. owed[pc + 1] \in Nat /\ net <= owed[pc + 1]
    BY <1>1, <1>6
  <2> QED BY <1>3, <1>4, <2>1
<1> QED BY <1>5, <1>a, <1>7 DEF Collected

\* Returning: nothing is owed, whatever ledger the body has.
LEMMA ReturnCollected ==
  ASSUME CollectsBeforeReturn, TypeInv, FiberInv, CollectInv, NEW m \in Modules, NEW f \in Fibers,
         f \in Live(m), Running(m, f), NEW c \in NextCalls(m), c.op = "return"
  PROVE  fib[f].async_outstanding = 0
<1> DEFINE body == Script[fib[f].mod][fib[f].fn]
           pc == fib[f].pc
           out == fib[f].async_outstanding
<1>1. /\ (pc \in DOMAIN body /\ c \in body[pc]) \/ pc \notin DOMAIN body
      /\ out \in Nat /\ SleptOn(fib[f]) = 0
      /\ Len(body) \in Nat /\ DOMAIN body = 1..Len(body)
      /\ \A owed \in Ledgers(body) : owed \in [1..(Len(body) + 1) -> Nat]
  BY BodyLedgers, CallAtPlace, OwedNat
<1>2. Ledgers(body) # {}
  BY BodyLedgers DEF CollectsBeforeReturn
<1>3. pc \in 1..(Len(body) + 1) /\ \A owed \in Ledgers(body) : out <= owed[pc] + SleptOn(fib[f])
  BY DEF CollectInv, Collected
<1> HIDE DEF body, pc, out
<1>4. PICK owed \in Ledgers(body) : TRUE
  BY <1>2
<1>5. owed[pc] \in Nat /\ out <= owed[pc]
  BY <1>1, <1>3, <1>4
<1>6. owed[pc] = 0
  <2>1. CASE pc \in DOMAIN body /\ c \in body[pc]
    <3>1. Leaves(c, owed[pc], owed[pc + 1])
      BY <1>4, <2>1 DEF Ledgers
    <3> QED BY <3>1 DEF Leaves
  <2>2. CASE pc \notin DOMAIN body
    <3>1. pc = Len(body) + 1 /\ owed[Len(body) + 1] = 0
      BY <1>1, <1>3, <1>4, <2>2 DEF Ledgers
    <3> QED BY <3>1
  <2> QED BY <1>1, <2>1, <2>2
<1>7. out = 0
  BY <1>1, <1>5, <1>6
<1> QED BY <1>7 DEF out

\* A step that changes one record at most.
LEMMA CollectedOne ==
  ASSUME TypeInv, CollectInv, NEW f \in Fibers, NEW r, fib' = [fib EXCEPT ![f] = r],
         Collected(r), \A m \in Modules : Live(m)' \subseteq Live(m) \cup {f}
  PROVE  CollectInv'
<1>1. fib' \in [Fibers -> Fiber \cup {r}] /\ fib'[f] = r /\ \A g \in Fibers \ {f} : fib'[g] = fib[g]
  BY DEF TypeInv, TypeOK
<1>2. \A m \in Modules : Live(m) \subseteq Fibers
  BY RefersType DEF TypeInv, Refers
<1> QED BY <1>1, <1>2 DEF CollectInv

\* Steps that change no record and start no fiber.
LEMMA CollectedSame ==
  ASSUME CollectInv, fib' = fib, \A m \in Modules : Live(m)' \subseteq Live(m)
  PROVE  CollectInv'
  BY DEF CollectInv

\* The scheduler.
LEMMA CollectedSched ==
  ASSUME TypeInv, FiberInv, CollectInv, NEW m \in Modules, Sched(m) \/ SpuriousWake(m)
  PROVE  CollectInv'
<1>0. fib \in [Fibers -> Fiber] /\ fibers \in [Modules -> Seq(Fibers)]
  BY DEF TypeInv, TypeOK
<1>1. CASE \/ Sleep(m) \/ StartPass(m) \/ SpuriousWake(m) \/ Stopped(m) \/ EndPass(m)
           \/ (\E f \in Fibers : TimerHeldBack(m, f))
           \/ Defer(m) \/ StartRefused(m) \/ NotifyRefused(m) \/ ReplyUnknown(m)
  <2>1. UNCHANGED <<fib, fibers>>
    BY <1>1 DEF Sleep, StartPass, SpuriousWake, TakeInbox, Stopped, EndPass, TimerHeldBack,
                Defer, StartRefused, NotifyRefused, ReplyUnknown, Dropped
  <2> QED BY <2>1, CollectedSame DEF Live
<1>2. ASSUME NEW i \in DOMAIN fibers[m], Reap(m, i) PROVE CollectInv'
  <2>1. fib' = fib /\ fibers' = [fibers EXCEPT ![m] = RemoveAt(fibers[m], i)]
    BY <1>0, <1>2 DEF Reap
  <2>2. \A n \in Modules : Live(n)' \subseteq Live(n)
    BY <1>0, <2>1, RemoveKeepsOthers DEF Live
  <2> QED BY <2>1, <2>2, CollectedSame
<1>3. ASSUME NEW f \in Fibers, f \in Live(m), fibers' = fibers, NEW r, fib' = [fib EXCEPT ![f] = r],
             r.mod = fib[f].mod, r.fn = fib[f].fn, r.pc = fib[f].pc, r.done = fib[f].done,
             r.waits \in {{}, fib[f].waits},
             \/ r.async_outstanding = fib[f].async_outstanding /\ "any" \notin fib[f].waits
             \/ /\ r.async_outstanding = fib[f].async_outstanding - 1 /\ r.waits = {}
                /\ fib[f].async_outstanding # 0
      PROVE  CollectInv'
  <2>0. f \in Fibers /\ fib[f].async_outstanding \in Int
    BY FiberType DEF TypeInv, Fiber
  <2>1. Collected(fib[f])
    BY <1>3 DEF CollectInv
  <2>a. /\ ~({"any", "timer"} \subseteq r.waits) /\ r.async_outstanding \in Int
        /\ r.async_outstanding - SleptOn(r) <= fib[f].async_outstanding - SleptOn(fib[f])
    BY <1>3, <2>0, <2>1 DEF SleptOn, Collected
  <2>2. Collected(r)
    BY <1>3, <2>1, <2>a, StillCollected
  <2>3. \A n \in Modules : Live(n)' \subseteq Live(n) \cup {f}
    BY <1>3 DEF Live
  <2> QED BY <1>3, <2>2, <2>3, CollectedOne
<1>4. ASSUME NEW f \in Fibers, TimerFires(m, f) PROVE CollectInv'
  <2> DEFINE r == [AfterTimer(f) EXCEPT !.waits = {}]
  <2>1. fib' = [fib EXCEPT ![f] = r] /\ fibers' = fibers /\ f \in due[m]
    BY <1>4 DEF TimerFires, Resume
  <2>2. f \in Live(m)
    BY <2>1 DEF FiberInv, ThreadOk, SchedulerOk
  <2>3. /\ r.mod = fib[f].mod /\ r.fn = fib[f].fn /\ r.pc = fib[f].pc /\ r.done = fib[f].done
        /\ r.async_outstanding = fib[f].async_outstanding /\ r.waits = {}
    BY <1>0 DEF AfterTimer, Fiber
  <2>4. "any" \notin fib[f].waits
    BY <2>1, <2>2 DEF FiberInv, ThreadOk, SchedulerOk, CollectInv, Collected
  <2> HIDE DEF r
  <2> QED BY <1>3, <2>1, <2>2, <2>3, <2>4
<1>5. ASSUME NEW f \in Fibers,
             ReplyEndsRequest(m, f) \/ ReplyEndsWait(m, f) \/ ReplyQueued(m, f)
      PROVE  CollectInv'
  <2> DEFINE e == Head(evs[m])
             p == Pending(e.req_id, f)
             x == [req_id |-> e.req_id, result |-> e.result]
             r1 == [[fib[f] EXCEPT !.src = ReplySrc(e)] EXCEPT !.waits = {}]
             r2 == [[fib[f] EXCEPT !.src = ReplySrc(e), !.async_outstanding = @ - 1]
                      EXCEPT !.waits = {}]
             r3 == [fib[f] EXCEPT !.rq = Append(@, x)]
  <2>1. p \in pending[m] /\ p.f = f /\ p.req_id = e.req_id /\ current[m] = NoFiber /\ fibers' = fibers
    BY <1>5 DEF ReplyEndsRequest, ReplyEndsWait, ReplyQueued, Replied, Handles, Scheduling,
                AwaitedBy, Pending
  <2>2. ReplyEndsRequest(m, f) => fib' = [fib EXCEPT ![f] = r1] /\ "reply" \in fib[f].waits
    BY DEF ReplyEndsRequest, Resume, AwaitsThis
  <2>3. ReplyEndsWait(m, f) => fib' = [fib EXCEPT ![f] = r2] /\ "any" \in fib[f].waits
    BY DEF ReplyEndsWait, Resume
  <2>4. ReplyQueued(m, f) => fib' = [fib EXCEPT ![f] = r3] /\ "any" \notin fib[f].waits
    BY DEF ReplyQueued
  <2>5. /\ r1.mod = fib[f].mod /\ r1.fn = fib[f].fn /\ r1.pc = fib[f].pc /\ r1.done = fib[f].done
        /\ r1.async_outstanding = fib[f].async_outstanding /\ r1.waits = {}
    BY <1>0 DEF Fiber
  <2>6. /\ r2.mod = fib[f].mod /\ r2.fn = fib[f].fn /\ r2.pc = fib[f].pc /\ r2.done = fib[f].done
        /\ r2.async_outstanding = fib[f].async_outstanding - 1 /\ r2.waits = {}
    BY <1>0 DEF Fiber
  <2>7. /\ r3.mod = fib[f].mod /\ r3.fn = fib[f].fn /\ r3.pc = fib[f].pc /\ r3.done = fib[f].done
        /\ r3.async_outstanding = fib[f].async_outstanding /\ r3.waits = fib[f].waits
    BY <1>0 DEF Fiber
  <2> HIDE DEF e, p, x, r1, r2, r3
  <2>8. f \in Live(m)
    BY <2>1 DEF FiberInv, ThreadOk, PendingOk
  <2>9. /\ RecordOk(f, fib[f], Mine(m, f), FALSE) /\ IsFiniteSet(Mine(m, f))
        /\ Len(fib[f].rq) \in Nat
    BY <2>1, <2>8, Parked
  <2>10. ASSUME "any" \in fib[f].waits PROVE fib[f].async_outstanding # 0
    <3>1. "reply" \notin fib[f].waits /\ p \in Mine(m, f)
      BY <2>1, <2>9, <2>10 DEF RecordOk, Mine
    <3>2. p \in Awaited(fib[f], Mine(m, f))
      BY <3>1 DEF Awaited
    <3> QED BY <2>9, <3>2, AwaitedCounts
  <2>11. CASE ReplyEndsRequest(m, f)
    <3>1. "any" \notin fib[f].waits
      BY <2>2, <2>9, <2>11 DEF RecordOk
    <3> QED BY <1>3, <2>1, <2>2, <2>5, <2>8, <2>11, <3>1
  <2>12. CASE ReplyEndsWait(m, f)
    BY <1>3, <2>1, <2>3, <2>6, <2>8, <2>10, <2>12
  <2>13. CASE ReplyQueued(m, f)
    BY <1>3, <2>1, <2>4, <2>7, <2>8, <2>13
  <2> QED BY <1>5, <2>11, <2>12, <2>13
<1>6. ASSUME NEW f \in Fibers, StartSequence(m, f) \/ StartHandler(m, f) PROVE CollectInv'
  <2> DEFINE e == Head(evs[m])
             r == IF StartSequence(m, f)
                  THEN FreshFiber(m, e.seq, e.requester, e.req_id, Src("IGNORE", e.requester, 0, e.req_id))
                  ELSE FreshFiber(m, "recv_notify", EXTERNAL, 0, Src("SUCCESS", e.requester, e.client_id, 0))
             s == [r EXCEPT !.waits = {}]
  <2>1. /\ fib' = [fib EXCEPT ![f] = s] /\ fibers' = [fibers EXCEPT ![m] = <<f>> \o @]
    BY <1>6 DEF StartSequence, StartHandler, Launch, Resume
  <2>2. s.pc = 1 /\ s.async_outstanding = 0 /\ ~s.done /\ s.waits = {}
        /\ s.mod = m /\ s.fn = IF StartSequence(m, f) THEN e.seq ELSE "recv_notify"
    BY DEF FreshFiber
  <2>a. s.fn \in DOMAIN Script[m]
    BY <1>6, <2>2 DEF StartSequence, StartHandler, Seqs, HasHandler
  <2> HIDE DEF s
  <2>3. \A n \in Modules : Live(n)' \subseteq Live(n) \cup {f}
    <3>1. ToSet(<<f>> \o fibers[m]) = {f} \cup ToSet(fibers[m])
      BY <1>0, ConsSeq
    <3> QED BY <1>0, <2>1, <3>1 DEF Live
  <2>4. Collected(s)
    <3> DEFINE body == Script[s.mod][s.fn]
    <3>1. body \in Seq(SUBSET Call)
      BY <2>2, <2>a, ScriptAssumption
    <3> HIDE DEF body
    <3>2. Len(body) \in Nat
      BY <3>1, LenProperties
    <3>3. \A owed \in Ledgers(body) : owed[1] \in 0..Len(body)
      BY <3>2 DEF Ledgers
    <3>4. s.pc \in 1..(Len(body) + 1) /\ SleptOn(s) = 0
      BY <2>2, <3>2 DEF SleptOn
    <3>5. \A owed \in Ledgers(body) : s.async_outstanding <= owed[s.pc] + SleptOn(s)
      BY <2>2, <3>2, <3>3, <3>4
    <3> QED BY <2>2, <3>4, <3>5 DEF Collected, body
  <2> QED BY <2>1, <2>3, <2>4, CollectedOne
<1> QED BY <1>1, <1>2, <1>4, <1>5, <1>6 DEF Sched

\* The calls, except those of notifications.
LEMMA CollectedCalls ==
  ASSUME CollectsBeforeReturn, TypeInv, FiberInv, CollectInv,
         NEW m \in Modules, NEW f \in Fibers, Running(m, f), NEW c \in NextCalls(m),
         Calls(m, f, c)
  PROVE  CollectInv'
<1>0. /\ f \in Live(m) /\ fib[f] \in Fiber /\ ~fib[f].done /\ fibers' = fibers
      /\ RecordOk(f, fib[f], Mine(m, f), TRUE) /\ IsFiniteSet(Mine(m, f))
      /\ Len(fib[f].rq) \in Nat /\ Collected(fib[f]) /\ fib[f].waits = {}
      /\ fib[f].async_outstanding \in Nat
  <2>1. fibers' = fibers
    BY DEF Calls, Request, RequestAsync, Send, NothingToCollect, CollectQueued, WaitForReply,
           ReplyToModule, ReplyToExternal, WaitTimeout, Lock, Unlock, Return, schedVars
  <2> QED BY <2>1, Current, OwedNat DEF RecordOk, CollectInv
<1>1. ASSUME NEW r, fib' = [fib EXCEPT ![f] = r], Collected(r) PROVE CollectInv'
  <2>1. \A n \in Modules : Live(n)' \subseteq Live(n) \cup {f}
    BY <1>0 DEF Live
  <2> QED BY <1>1, <2>1, CollectedOne
<1>2. ASSUME NEW r, fib' = [fib EXCEPT ![f] = r], c.op # "return",
             r.mod = fib[f].mod, r.fn = fib[f].fn, r.pc = fib[f].pc + 1, r.done = fib[f].done,
             r.async_outstanding \in Int, ~({"any", "timer"} \subseteq r.waits),
             Counts(c, fib[f].async_outstanding, r.async_outstanding - SleptOn(r))
      PROVE  CollectInv'
  <2>1. Collected(r)
    BY <1>0, <1>2, PastCollected
  <2> QED BY <1>1, <1>2, <2>1
<1>a. ASSUME NEW r, fib' = [fib EXCEPT ![f] = r], c.op # "return",
             r.mod = fib[f].mod, r.fn = fib[f].fn, r.pc = fib[f].pc + 1, r.done = fib[f].done,
             "any" \notin r.waits,
             \/ /\ r.async_outstanding = fib[f].async_outstanding
                /\ c.op \notin {"wait_reply", "gather", "request_async"}
             \/ c.op = "request_async" /\ r.async_outstanding = fib[f].async_outstanding + 1
             \/ c.op = "wait_reply" /\ r.async_outstanding = fib[f].async_outstanding - 1
             \/ r.async_outstanding = 0
      PROVE  CollectInv'
  <2>1. SleptOn(r) = 0 /\ r.async_outstanding \in Int
    BY <1>0, <1>a DEF SleptOn
  <2>2. Counts(c, fib[f].async_outstanding, r.async_outstanding - SleptOn(r))
    BY <1>0, <1>a, <2>1 DEF Counts
  <2> QED BY <1>2, <1>a, <2>1, <2>2
<1>3. CASE \/ Send(m, f, c) \/ NothingToCollect(m, f, c) \/ ReplyToModule(m, f, c)
           \/ ReplyToExternal(m, f, c) \/ Lock(m, f, c) \/ Unlock(m, f, c)
  <2> DEFINE r == Past(f)
  <2>1. /\ fib' = [fib EXCEPT ![f] = r] /\ c.op # "return" /\ c.op # "request_async"
        /\ c.op \in {"wait_reply", "gather"} => fib[f].async_outstanding = 0
    BY <1>3 DEF Send, NothingToCollect, ReplyToModule, ReplyToExternal, Lock, Unlock, Collects, Makes
  <2>2. /\ r.mod = fib[f].mod /\ r.fn = fib[f].fn /\ r.pc = fib[f].pc + 1
        /\ r.done = fib[f].done /\ r.async_outstanding = fib[f].async_outstanding
        /\ "any" \notin r.waits
    BY <1>0 DEF Past, Fiber, RequestFlags
  <2> HIDE DEF r
  <2> QED BY <1>0, <1>a, <2>1, <2>2
<1>4. CASE Request(m, f, c)
  <2> DEFINE r == [Past(f) EXCEPT !.wait_req_id = next_req_id[m], !.waits = @ \cup RequestFlags(c)]
  <2>1. fib' = [fib EXCEPT ![f] = r] /\ c.op \in {"request", "request_timeout"}
    BY <1>4 DEF Request, Makes
  <2>2. /\ r.mod = fib[f].mod /\ r.fn = fib[f].fn /\ r.pc = fib[f].pc + 1
        /\ r.done = fib[f].done /\ r.async_outstanding = fib[f].async_outstanding
        /\ "any" \notin r.waits
    BY <1>0 DEF Past, Fiber, RequestFlags
  <2> HIDE DEF r
  <2> QED BY <1>0, <1>a, <2>1, <2>2
<1>5. CASE RequestAsync(m, f, c)
  <2> DEFINE r == [Past(f) EXCEPT !.async_outstanding = @ + 1]
  <2>1. fib' = [fib EXCEPT ![f] = r] /\ c.op = "request_async"
    BY <1>5 DEF RequestAsync
  <2>2. /\ r.mod = fib[f].mod /\ r.fn = fib[f].fn /\ r.pc = fib[f].pc + 1
        /\ r.done = fib[f].done /\ r.async_outstanding = fib[f].async_outstanding + 1
        /\ "any" \notin r.waits
    BY <1>0 DEF Past, Fiber
  <2> HIDE DEF r
  <2> QED BY <1>0, <1>a, <2>1, <2>2
<1>6. CASE WaitTimeout(m, f, c)
  <2> DEFINE r == [Past(f) EXCEPT !.waits = @ \cup {"timer"}]
  <2>1. fib' = [fib EXCEPT ![f] = r] /\ c.op = "wait_timeout"
    BY <1>6 DEF WaitTimeout, Makes
  <2>2. /\ r.mod = fib[f].mod /\ r.fn = fib[f].fn /\ r.pc = fib[f].pc + 1
        /\ r.done = fib[f].done /\ r.async_outstanding = fib[f].async_outstanding
        /\ "any" \notin r.waits
    BY <1>0 DEF Past, Fiber, RequestFlags
  <2> HIDE DEF r
  <2> QED BY <1>0, <1>a, <2>1, <2>2
<1>7. CASE CollectQueued(m, f, c) \/ WaitForReply(m, f, c)
  <2> DEFINE x == Src(Head(fib[f].rq).result, 0, 0, Head(fib[f].rq).req_id)
             r1 == [AfterOne(f, c) EXCEPT !.rq = Tail(@), !.async_outstanding = @ - 1, !.src = x]
             r2 == [AfterOne(f, c) EXCEPT !.waits = @ \cup {"any"}]
  <2>1. CollectQueued(m, f, c) => fib' = [fib EXCEPT ![f] = r1] /\ fib[f].rq # <<>>
    BY DEF CollectQueued
  <2>2. WaitForReply(m, f, c) => fib' = [fib EXCEPT ![f] = r2] /\ fib[f].async_outstanding # 0
    BY DEF WaitForReply
  <2>3. c.op \in {"wait_reply", "gather"}
    BY <1>7 DEF CollectQueued, WaitForReply, Collects
  <2>4. fib[f].async_outstanding # 0
    <3>1. CASE CollectQueued(m, f, c)
      <4>1. fib[f].rq \in Seq([req_id : Int, result : Argument])
        BY <1>0 DEF Fiber
      <4>2. Len(fib[f].rq) # 0
        BY <2>1, <3>1, <4>1, EmptySeq
      <4>3. Awaited(fib[f], Mine(m, f)) = Mine(m, f)
        BY <1>0 DEF RecordOk, Awaited
      <4>4. Cardinality(Mine(m, f)) \in Nat
        BY <1>0, FS_CardinalityType
      <4>5. fib[f].async_outstanding = Cardinality(Mine(m, f)) + Len(fib[f].rq)
        BY <1>0, <4>3 DEF RecordOk
      <4> QED BY <1>0, <4>2, <4>4, <4>5
    <3> QED BY <1>7, <2>2, <3>1
  <2>5. /\ r1.mod = fib[f].mod /\ r1.fn = fib[f].fn /\ r1.done = fib[f].done
        /\ r1.async_outstanding = fib[f].async_outstanding - 1 /\ r1.waits = {}
        /\ r1.pc = IF c.op = "gather" THEN fib[f].pc ELSE fib[f].pc + 1
    BY <1>0 DEF AfterOne, Past, Fiber
  <2>6. /\ r2.mod = fib[f].mod /\ r2.fn = fib[f].fn /\ r2.done = fib[f].done
        /\ r2.async_outstanding = fib[f].async_outstanding /\ r2.waits = {"any"}
        /\ r2.pc = IF c.op = "gather" THEN fib[f].pc ELSE fib[f].pc + 1
    BY <1>0 DEF AfterOne, Past, Fiber
  <2> HIDE DEF r1, r2
  <2>7. ASSUME NEW r, fib' = [fib EXCEPT ![f] = r],
               r.mod = fib[f].mod, r.fn = fib[f].fn, r.done = fib[f].done,
               r.pc = IF c.op = "gather" THEN fib[f].pc ELSE fib[f].pc + 1,
               \/ r.async_outstanding = fib[f].async_outstanding - 1 /\ r.waits = {}
               \/ r.async_outstanding = fib[f].async_outstanding /\ r.waits = {"any"}
        PROVE  CollectInv'
    <3>1. /\ r.async_outstanding - SleptOn(r) = fib[f].async_outstanding - 1
          /\ r.async_outstanding \in Int /\ ~({"any", "timer"} \subseteq r.waits)
      BY <1>0, <2>7 DEF SleptOn
    <3>2. CASE c.op = "gather"
      <4>1. SleptOn(fib[f]) = 0
        BY <1>0 DEF SleptOn
      <4>2. r.async_outstanding - SleptOn(r) <= fib[f].async_outstanding - SleptOn(fib[f])
        BY <1>0, <3>1, <4>1
      <4>3. Collected(r)
        BY <1>0, <2>4, <2>7, <3>1, <3>2, <4>2, StillCollected
      <4> QED BY <1>1, <2>7, <4>3
    <3>3. CASE c.op = "wait_reply"
      <4>1. Counts(c, fib[f].async_outstanding, r.async_outstanding - SleptOn(r))
        BY <1>0, <3>1, <3>3 DEF Counts
      <4> QED BY <1>2, <2>7, <3>1, <3>3, <4>1
    <3> QED BY <2>3, <3>2, <3>3
  <2>8. CASE CollectQueued(m, f, c)
    BY <2>1, <2>5, <2>7, <2>8
  <2>9. CASE WaitForReply(m, f, c)
    BY <2>2, <2>6, <2>7, <2>9
  <2> QED BY <1>7, <2>8, <2>9
<1>8. CASE Return(m, f, c)
  <2> DEFINE r == [fib[f] EXCEPT !.done = TRUE]
  <2>1. fib' = [fib EXCEPT ![f] = r] /\ c.op = "return"
    BY <1>8 DEF Return, Makes
  <2>2. fib[f].async_outstanding = 0
    BY <1>0, <2>1, ReturnCollected
  <2>3. /\ r.mod = fib[f].mod /\ r.fn = fib[f].fn /\ r.pc = fib[f].pc
        /\ r.async_outstanding = fib[f].async_outstanding /\ r.waits = {}
    BY <1>0 DEF Fiber
  <2> HIDE DEF r
  <2>4. Collected(r)
    BY <1>0, <2>2, <2>3 DEF Collected, SleptOn
  <2> QED BY <1>1, <2>1, <2>4
<1> QED BY <1>3, <1>4, <1>5, <1>6, <1>7, <1>8 DEF Calls

\* The calls of notifications.
LEMMA CollectedNotify ==
  ASSUME CollectsBeforeReturn, TypeInv, FiberInv, CollectInv,
         NEW m \in Modules, NEW f \in Fibers, Running(m, f), NEW c \in NextCalls(m),
         NotifyCalls(m, f, c)
  PROVE  CollectInv'
<1>0. /\ f \in Live(m) /\ fib[f] \in Fiber /\ ~fib[f].done /\ fibers' = fibers
      /\ Collected(fib[f]) /\ c.op \in {"reg_notify", "unreg_notify", "notify"}
      /\ fib[f].waits = {} /\ fib[f].async_outstanding \in Nat
  <2>1. fibers' = fibers /\ c.op \in {"reg_notify", "unreg_notify", "notify"}
    BY DEF NotifyCalls, RegRefused, RegTest, RegWrap, RegRead, RegWrite, UnregNotify, UnregUnknown,
           NotifyOne, NotifyDone, Registering, Notifying, schedVars
  <2> QED BY <2>1, Current, OwedNat DEF RecordOk, CollectInv
<1>1. ASSUME NEW r, fib' = [fib EXCEPT ![f] = r],
             r.mod = fib[f].mod, r.fn = fib[f].fn, r.done = fib[f].done,
             r.async_outstanding = fib[f].async_outstanding, r.waits = fib[f].waits,
             r.pc = fib[f].pc \/ r.pc = fib[f].pc + 1
      PROVE  CollectInv'
  <2>0. SleptOn(r) = 0 /\ SleptOn(fib[f]) = 0 /\ r.async_outstanding \in Int
    BY <1>0, <1>1 DEF SleptOn
  <2>1. Collected(r)
    <3>1. CASE r.pc = fib[f].pc
      BY <1>0, <1>1, <2>0, <3>1, StillCollected
    <3>2. CASE r.pc = fib[f].pc + 1
      <4>1. Counts(c, fib[f].async_outstanding, r.async_outstanding - SleptOn(r))
        BY <1>0, <1>1, <2>0 DEF Counts
      <4> QED BY <1>0, <1>1, <2>0, <3>2, <4>1, PastCollected
    <3> QED BY <1>1, <3>1, <3>2
  <2>2. \A n \in Modules : Live(n)' \subseteq Live(n) \cup {f}
    BY <1>0 DEF Live
  <2> QED BY <1>1, <2>1, <2>2, CollectedOne
<1>2. CASE \/ RegRefused(m, f, c)
           \/ \E cid \in ClientId : \/ \E i \in DOMAIN notify_clients[m] : UnregNotify(m, f, c, cid, i)
                                    \/ UnregUnknown(m, f, c, cid)
  <2> DEFINE r == Past(f)
  <2>1. fib' = [fib EXCEPT ![f] = r]
    BY <1>2 DEF RegRefused, UnregNotify, UnregUnknown
  <2>2. /\ r.mod = fib[f].mod /\ r.fn = fib[f].fn /\ r.pc = fib[f].pc + 1
        /\ r.done = fib[f].done /\ r.async_outstanding = fib[f].async_outstanding
        /\ r.waits = fib[f].waits
    BY <1>0 DEF Past, Fiber
  <2> HIDE DEF r
  <2> QED BY <1>1, <2>1, <2>2
<1>3. CASE RegTest(m, f, c)
  <2> DEFINE r == [fib[f] EXCEPT !.reg = AfterTest(next_client_id), !.cat = c.arg]
  <2>1. fib' = [fib EXCEPT ![f] = r]
    BY <1>3 DEF RegTest
  <2>2. /\ r.mod = fib[f].mod /\ r.fn = fib[f].fn /\ r.pc = fib[f].pc
        /\ r.done = fib[f].done /\ r.async_outstanding = fib[f].async_outstanding
        /\ r.waits = fib[f].waits
    BY <1>0 DEF Fiber
  <2> HIDE DEF r
  <2> QED BY <1>1, <2>1, <2>2
<1>4. CASE RegWrap(m, f, c) \/ RegRead(m, f, c)
  <2>0. PICK x : fib' = [fib EXCEPT ![f].reg = x]
    BY <1>4 DEF RegWrap, RegRead
  <2> DEFINE r == [fib[f] EXCEPT !.reg = x]
  <2>1. fib' = [fib EXCEPT ![f] = r]
    BY <2>0
  <2>2. /\ r.mod = fib[f].mod /\ r.fn = fib[f].fn /\ r.pc = fib[f].pc
        /\ r.done = fib[f].done /\ r.async_outstanding = fib[f].async_outstanding
        /\ r.waits = fib[f].waits
    BY <1>0 DEF Fiber
  <2> HIDE DEF r
  <2> QED BY <1>1, <2>1, <2>2
<1>5. CASE RegWrite(m, f, c)
  <2> DEFINE r == [Past(f) EXCEPT !.reg = NotReg, !.cat = ""]
  <2>1. fib' = [fib EXCEPT ![f] = r]
    BY <1>5 DEF RegWrite
  <2>2. /\ r.mod = fib[f].mod /\ r.fn = fib[f].fn /\ r.pc = fib[f].pc + 1
        /\ r.done = fib[f].done /\ r.async_outstanding = fib[f].async_outstanding
        /\ r.waits = fib[f].waits
    BY <1>0 DEF Past, Fiber
  <2> HIDE DEF r
  <2> QED BY <1>1, <2>1, <2>2
<1>6. ASSUME NEW i, NotifyOne(m, f, c, i) PROVE CollectInv'
  <2> DEFINE r == [fib[f] EXCEPT !.fan = i, !.cat = c.arg]
  <2>1. fib' = [fib EXCEPT ![f] = r]
    BY <1>6 DEF NotifyOne
  <2>2. /\ r.mod = fib[f].mod /\ r.fn = fib[f].fn /\ r.pc = fib[f].pc
        /\ r.done = fib[f].done /\ r.async_outstanding = fib[f].async_outstanding
        /\ r.waits = fib[f].waits
    BY <1>0 DEF Fiber
  <2> HIDE DEF r
  <2> QED BY <1>1, <2>1, <2>2
<1>7. CASE NotifyDone(m, f, c)
  <2> DEFINE r == [Past(f) EXCEPT !.fan = 0, !.cat = ""]
  <2>1. fib' = [fib EXCEPT ![f] = r]
    BY <1>7 DEF NotifyDone
  <2>2. /\ r.mod = fib[f].mod /\ r.fn = fib[f].fn /\ r.pc = fib[f].pc + 1
        /\ r.done = fib[f].done /\ r.async_outstanding = fib[f].async_outstanding
        /\ r.waits = fib[f].waits
    BY <1>0 DEF Past, Fiber
  <2> HIDE DEF r
  <2> QED BY <1>1, <2>1, <2>2
<1> QED BY <1>2, <1>3, <1>4, <1>5, <1>6, <1>7 DEF NotifyCalls

\* CollectInv is inductive for such programs.
LEMMA CollectStepAll ==
  ASSUME CollectsBeforeReturn, TypeInv, FiberInv, CollectInv, [Next]_vars
  PROVE  CollectInv'
<1>1. ASSUME NEW m \in Modules, Sched(m) \/ SpuriousWake(m) PROVE CollectInv'
  BY <1>1, CollectedSched
<1>2. ASSUME NEW m \in Modules, Sequence(m) PROVE CollectInv'
  <2>1. current[m] \in Fibers /\ Running(m, current[m])
    BY <1>2, CallType DEF Sequence, Running
  <2>2. PICK c \in NextCalls(m) : Calls(m, current[m], c) \/ NotifyCalls(m, current[m], c)
    BY <1>2 DEF Sequence
  <2> QED BY <2>1, <2>2, CollectedCalls, CollectedNotify
<1>3. ASSUME fibers' = fibers, fib' = fib PROVE CollectInv'
  BY <1>3, CollectedSame DEF Live
<1>4. \/ \E f \in Fibers : TimePasses(f)
      \/ \E c \in Clients : External(c)
      \/ BeginTeardown \/ (\E m \in Modules : StopModule(m)) \/ UNCHANGED vars
      => fibers' = fibers /\ fib' = fib
  BY DEF TimePasses, External, RequestSync, ExtRequestAsync, SyncReturns, BeginTeardown,
         StopModule, vars, schedVars
<1>5. FreeModules => CollectInv'
  <2>1. ASSUME FreeModules, NEW m \in Modules PROVE Live(m)' = {}
    BY <2>1 DEF FreeModules, Live, ToSet
  <2> QED BY <2>1 DEF CollectInv
<1> QED BY <1>1, <1>2, <1>3, <1>4, <1>5 DEF Next, Thread, Owner

-----------------------------------------------------------------------------
(* The theorems *)

\* The whole invariant, for programs that collect their replies.
LEMMA FiberInvariant ==
  ASSUME CollectsBeforeReturn
  PROVE  Spec => [](TypeInv /\ FiberInv /\ CollectInv)
<1>1. Init => FiberInv /\ CollectInv
  <2>1. Init => CollectInv
    BY DEF Init, CollectInv, Live, ToSet
  <2> QED BY <2>1, FiberInit
<1>2. FiberInv /\ CollectInv => AllCollected
  BY DEF CollectInv, Collected, AllCollected
<1>3. TypeInv /\ FiberInv /\ CollectInv /\ [Next]_vars => FiberInv' /\ CollectInv'
  BY <1>2, FiberStep, CollectStepAll
<1> QED BY <1>1, <1>3, TypeInvariant, PTL DEF Spec

\* reap_done, coseq_lock and coseq_unlock: if every sequence collects the replies to
\* what it asked before it returns, a module's lock is never left with a freed
\* fiber.
THEOREM LockHolderIsLive == CollectsBeforeReturn => (Spec => []LockHolderLive)
<1> SUFFICES ASSUME CollectsBeforeReturn PROVE Spec => []LockHolderLive
  OBVIOUS
<1>1. TypeInv /\ FiberInv => LockHolderLive
  BY LockFacts
<1> QED BY <1>1, FiberInvariant, PTL

\* sched_loop, under the same condition: it never sleeps on deferred events that
\* nobody will release.
THEOREM NothingIsStranded == CollectsBeforeReturn => (Spec => []NothingStranded)
<1> SUFFICES ASSUME CollectsBeforeReturn PROVE Spec => []NothingStranded
  OBVIOUS
<1>1. TypeInv /\ FiberInv => NothingStranded
  BY LockFacts
<1> QED BY <1>1, FiberInvariant, PTL

\* handle_reply, under the same condition: a pending entry always leads to a live
\* fiber of its module, so that no reply is written through a freed one.
THEOREM PendingFibersAreLive == CollectsBeforeReturn => (Spec => []PendingFibersLive)
<1> SUFFICES ASSUME CollectsBeforeReturn PROVE Spec => []PendingFibersLive
  OBVIOUS
<1>1. TypeInv /\ FiberInv => PendingFibersLive
  BY RequestFacts
<1> QED BY <1>1, FiberInvariant, PTL

\* coseq_wait_reply, under the same condition: async_outstanding counts exactly the
\* replies still to be collected, arrived or not.
THEOREM AccountsBalance == CollectsBeforeReturn => (Spec => []AsyncAccounting)
<1> SUFFICES ASSUME CollectsBeforeReturn PROVE Spec => []AsyncAccounting
  OBVIOUS
<1>1. TypeInv /\ FiberInv => AsyncAccounting
  BY RequestFacts
<1> QED BY <1>1, FiberInvariant, PTL

\* sched_loop, under the same condition: a parked fiber always has a timer or a
\* pending request that can resume it.
THEOREM NoFiberIsForgotten == CollectsBeforeReturn => (Spec => []NoFiberForgotten)
<1> SUFFICES ASSUME CollectsBeforeReturn PROVE Spec => []NoFiberForgotten
  OBVIOUS
<1>1. TypeInv /\ FiberInv => NoFiberForgotten
  BY RequestFacts
<1> QED BY <1>1, FiberInvariant, PTL

\* coseq_request and coseq_request_timeout, under the same condition: the step
\* that makes a request return leaves the fiber with the answer to that request,
\* its reply or its timeout, never with another reply.
THEOREM RequestIsAnswered == CollectsBeforeReturn => (Spec => RequestGetsItsReply)
<1> SUFFICES ASSUME CollectsBeforeReturn PROVE Spec => RequestGetsItsReply
  OBVIOUS
<1>1. TypeInv /\ FiberInv /\ [Next]_vars => [AnswersItsRequest]_vars
  BY AnswerStep
<1>2. RequestGetsItsReply <=> [][AnswersItsRequest]_vars
  BY DEF RequestGetsItsReply, AnswersItsRequest
<1> QED BY <1>1, <1>2, FiberInvariant, PTL DEF Spec
=============================================================================
