-------------------------- MODULE CoseqLockProofs --------------------------
(***************************************************************************)
(* What coseq_lock excludes.  Beside FiberInv the argument needs that a    *)
(* fiber between its lock and its unlock is the one its module records as  *)
(* the holder, and that whatever else runs on a locked module is a         *)
(* notification handler.                                                   *)
(*                                                                         *)
(* One more thing is asked of the program: its handlers do not lock.       *)
(* coseq_lock does not look at who holds the lock, and a handler is the    *)
(* one sequence that runs while another holds it; the run handler_lock     *)
(* shows what happens then.                                                *)
(*                                                                         *)
(* What coseq_lock does to replies: one that somebody else's lock defers   *)
(* can be overtaken by a later one.  OrderInv says for which fibers a      *)
(* reply can be deferred in a program that only fans out with the lock.    *)
(***************************************************************************)
EXTENDS CoseqRequestProofs

HolderOk(m) ==
  /\ \A f \in holding \cap Live(m) : locked_by[m] = f /\ ~fib[f].done
  /\ current[m] # NoFiber /\ LockedOut(m, current[m]) => fib[current[m]].fn = "recv_notify"

\* A record that can be handed out again holds no lock from its former life.
FreeHoldNothing == AllStopped \/ Unused \cap holding = {}

LockInv == FreeHoldNothing /\ \A m \in Modules : HolderOk(m)

-----------------------------------------------------------------------------
(* Steps *)

\* The part of a module whose fibers did not change.
LEMMA HolderKept ==
  ASSUME TypeInv, FiberInv, NEW n \in Modules, HolderOk(n),
         fibers'[n] = fibers[n], current'[n] = current[n], locked_by'[n] = locked_by[n],
         \A f \in Live(n) : fib'[f] = fib[f],
         holding' \cap Live(n) \subseteq holding
  PROVE  HolderOk(n)'
<1>1. Live(n)' = Live(n)
  BY DEF Live
<1>2. current[n] # NoFiber => current[n] \in Live(n)
  BY DEF FiberInv, ThreadOk, SchedulerOk
<1> QED BY <1>1, <1>2 DEF HolderOk, LockedOut

\* A step that touches neither the lists nor the records of the fibers.
LEMMA SameHolders ==
  ASSUME TypeInv, FiberInv, LockInv, UNCHANGED <<fibers, current, locked_by, fib, holding>>,
         AllStopped => AllStopped'
  PROVE  LockInv'
<1>1. \A n \in Modules : HolderOk(n)'
  BY HolderKept DEF LockInv
<1>2. Unused' = Unused
  BY DEF Unused, Live
<1> QED BY <1>1, <1>2 DEF LockInv, FreeHoldNothing

\* The thread of m changes one of its fibers, the lock, or who runs.
LEMMA OneHolder ==
  ASSUME TypeInv, FiberInv, LockInv, NEW m \in Modules, NEW f \in Live(m), loop[m] = "run",
         UNCHANGED <<loop, fibers>>,
         \A n \in Modules \ {m} : current'[n] = current[n] /\ locked_by'[n] = locked_by[n],
         \A g \in Fibers \ {f} : fib'[g] = fib[g],
         fib'[f].fn = fib[f].fn,
         holding' \subseteq holding \cup {f},
         f \in holding' => locked_by'[m] = f /\ ~fib'[f].done,
         \A g \in (holding \cap Live(m)) \ {f} : locked_by'[m] = g,
         current'[m] \in {NoFiber, f},
         current'[m] = f => locked_by'[m] \in {NoFiber, f} \/ fib[f].fn = "recv_notify"
  PROVE  LockInv'
<1>1. \A n \in Modules : Live(n)' = Live(n) /\ Live(n) \subseteq Fibers
  BY RefersType DEF Live, TypeInv, Refers
<1>2. \A n \in Modules \ {m} : f \notin Live(n)
  BY DEF FiberInv, HeapOk
<1>3. ASSUME NEW n \in Modules \ {m} PROVE HolderOk(n)'
  BY <1>1, <1>2, HolderKept DEF LockInv
<1>4. HolderOk(m)'
  <2>1. ASSUME NEW g \in holding' \cap Live(m) PROVE locked_by'[m] = g /\ ~fib'[g].done
    <3>1. CASE g = f
      BY <2>1, <3>1
    <3>2. CASE g # f
      BY <1>1, <2>1, <3>2 DEF LockInv, HolderOk
    <3> QED BY <3>1, <3>2
  <2> QED BY <1>1, <2>1 DEF HolderOk, LockedOut
<1>5. FreeHoldNothing'
  <2>1. Unused' = Unused /\ f \notin Unused
    BY <1>1 DEF Unused
  <2>2. ~AllStopped
    BY DEF AllStopped
  <2> QED BY <2>1, <2>2 DEF LockInv, FreeHoldNothing
<1> QED BY <1>3, <1>4, <1>5 DEF LockInv

\* A fiber the lock does not shut out is resumed, or given a reply to keep.
LEMMA ResumedHolder ==
  ASSUME TypeInv, FiberInv, LockInv, NEW m \in Modules, NEW f \in Live(m), loop[m] = "run",
         ~LockedOut(m, f), UNCHANGED <<loop, fibers, locked_by, holding>>,
         NEW r \in Fiber, fib' = [fib EXCEPT ![f] = r],
         r.fn = fib[f].fn, r.done = fib[f].done,
         current' = [current EXCEPT ![m] = f] \/ (current[m] = NoFiber /\ current' = current)
  PROVE  LockInv'
<1>1. f \in Fibers /\ f # NoFiber
  BY RefersType, FibersAssumption DEF TypeInv, Refers
<1>2. fib'[f] = r /\ \A g \in Fibers \ {f} : fib'[g] = fib[g]
  BY <1>1 DEF TypeInv, TypeOK
<1>3. current'[m] \in {NoFiber, f} /\ \A n \in Modules \ {m} : current'[n] = current[n]
  BY DEF TypeInv, TypeOK
<1>4. f \in holding => locked_by[m] = f /\ ~fib[f].done
  BY DEF LockInv, HolderOk
<1>5. \A g \in (holding \cap Live(m)) \ {f} : locked_by[m] = g
  BY DEF LockInv, HolderOk
<1>6. locked_by[m] \in {NoFiber, f}
  BY DEF LockedOut
<1> QED BY <1>2, <1>3, <1>4, <1>5, <1>6, OneHolder

-----------------------------------------------------------------------------
(* The scheduler *)

\* Sleeping, waking, deferring, refusing.
LEMMA QuietHolders ==
  ASSUME TypeInv, FiberInv, LockInv, NEW m \in Modules,
         \/ Sleep(m) \/ StartPass(m) \/ SpuriousWake(m) \/ Stopped(m)
         \/ (\E f \in Fibers : TimerHeldBack(m, f))
         \/ Defer(m) \/ StartRefused(m) \/ NotifyRefused(m) \/ ReplyUnknown(m) \/ EndPass(m)
  PROVE  LockInv'
<1>1. UNCHANGED <<fibers, current, locked_by, fib, holding>> /\ loop[m] # "stopped"
  BY DEF Sleep, StartPass, SpuriousWake, TakeInbox, Stopped, SeesStop, TimerHeldBack, Defer,
         StartRefused, NotifyRefused, ReplyUnknown, Dropped, EndPass, PassOver, Handles,
         Scheduling, lockVars
<1>2. ~AllStopped
  BY <1>1 DEF AllStopped
<1> QED BY <1>1, <1>2, SameHolders

\* An expired timer resumes a fiber only if the lock lets it.
LEMMA TimerHolder ==
  ASSUME TypeInv, FiberInv, LockInv, NEW m \in Modules, NEW f \in Fibers, TimerFires(m, f)
  PROVE  LockInv'
<1> DEFINE r == [AfterTimer(f) EXCEPT !.waits = {}]
<1>1. /\ loop[m] = "run" /\ ~LockedOut(m, f) /\ f \in due[m]
      /\ UNCHANGED <<loop, fibers, locked_by, holding>>
      /\ fib' = [fib EXCEPT ![f] = r] /\ current' = [current EXCEPT ![m] = f]
  BY DEF TimerFires, Resume, Scheduling, lockVars
<1>2. f \in Live(m)
  BY <1>1 DEF FiberInv, ThreadOk, SchedulerOk
<1>3. fib[f] \in Fiber /\ fib[f].wait_req_id \in Int
  BY FiberType DEF TypeInv
<1>4. Src("REQ_TIMEOUT", 0, 0, fib[f].wait_req_id) \in Source
  <2>1. "REQ_TIMEOUT" \in Argument /\ 0 \in Int /\ 0 \in ClientId
    BY ZeroClient DEF Argument, Result
  <2> QED BY <1>3, <2>1, SrcType, Zenon
<1>5. AfterTimer(f) \in Fiber /\ AfterTimer(f).fn = fib[f].fn /\ AfterTimer(f).done = fib[f].done
  BY <1>3, <1>4 DEF AfterTimer, Fiber
<1>6. r \in Fiber /\ r.fn = fib[f].fn /\ r.done = fib[f].done
  BY <1>5 DEF Fiber
<1> HIDE DEF r
<1> QED BY <1>1, <1>2, <1>6, ResumedHolder

\* A reply that is not deferred goes to the holder of the lock: no two pending
\* entries have the same id.
LEMMA ReplyHolder ==
  ASSUME TypeInv, FiberInv, LockInv, NEW m \in Modules, NEW f \in Fibers,
         ReplyEndsRequest(m, f) \/ ReplyEndsWait(m, f) \/ ReplyQueued(m, f)
  PROVE  LockInv'
<1> DEFINE e == Head(evs[m])
<1>1. /\ Handles(m, "REPLY") /\ ~MustDefer(m, e) /\ AwaitedBy(m, e, f)
      /\ UNCHANGED <<loop, fibers, locked_by, holding>>
  BY DEF ReplyEndsRequest, ReplyEndsWait, ReplyQueued, Replied, lockVars
<1>2. loop[m] = "run" /\ current[m] = NoFiber /\ e.type = "REPLY" /\ evs[m] # <<>>
  BY <1>1 DEF Handles, Scheduling
<1>3. f \in Live(m) /\ ~LockedOut(m, f)
  <2>1. PendingOk(m) /\ Pending(e.req_id, f) \in pending[m]
    BY <1>1 DEF FiberInv, ThreadOk, AwaitedBy
  <2>2. f \in Live(m)
    BY <2>1 DEF PendingOk, Pending
  <2>3. locked_by[m] # NoFiber => Pending(e.req_id, locked_by[m]) \in pending[m]
    BY <1>1, <1>2 DEF MustDefer, AwaitedBy
  <2>4. locked_by[m] # NoFiber => locked_by[m] = f
    BY <2>1, <2>3 DEF PendingOk, Pending
  <2> QED BY <2>2, <2>4 DEF LockedOut
<1>4. e \in Event
  BY <1>2, HeadEvent DEF TypeInv
<1> HIDE DEF e
<1>5. \E r \in Fiber :
        /\ fib' = [fib EXCEPT ![f] = r] /\ r.fn = fib[f].fn /\ r.done = fib[f].done
        /\ current' = [current EXCEPT ![m] = f] \/ current' = current
  <2>0. /\ fib[f] \in Fiber /\ fib[f].async_outstanding \in Int
        /\ fib[f].rq \in Seq([req_id : Int, result : Argument])
        /\ e.req_id \in Int /\ e.result \in Argument /\ e.requester \in Int
    <3>1. e.requester \in Modules \cup {EXTERNAL}
      BY <1>4 DEF Event
    <3> QED BY <1>4, <3>1, FiberType, ModuleIndex DEF TypeInv, Event
  <2>1. ReplySrc(e) \in Source
    <3>1. 0 \in ClientId
      BY ZeroClient
    <3> QED BY <2>0, <3>1, SrcType, Zenon DEF ReplySrc
  <2>2. CASE ReplyEndsRequest(m, f)
    <3> DEFINE r == [[fib[f] EXCEPT !.src = ReplySrc(e)] EXCEPT !.waits = {}]
    <3>1. r \in Fiber /\ r.fn = fib[f].fn /\ r.done = fib[f].done
      BY <2>0, <2>1 DEF Fiber
    <3>2. fib' = [fib EXCEPT ![f] = r] /\ current' = [current EXCEPT ![m] = f]
      BY <2>2 DEF ReplyEndsRequest, Resume, e
    <3> HIDE DEF r
    <3> QED BY <3>1, <3>2
  <2>3. CASE ReplyEndsWait(m, f)
    <3> DEFINE n == fib[f].async_outstanding - 1
               r == [[fib[f] EXCEPT !.src = ReplySrc(e), !.async_outstanding = n]
                       EXCEPT !.waits = {}]
    <3>0. n \in Int
      BY <2>0
    <3>a. fib' = [fib EXCEPT ![f] = r] /\ current' = [current EXCEPT ![m] = f]
      BY <2>0, <2>3 DEF ReplyEndsWait, Resume, e, Fiber
    <3> HIDE DEF n
    <3>1. r \in Fiber /\ r.fn = fib[f].fn /\ r.done = fib[f].done
      BY <2>0, <2>1, <3>0 DEF Fiber
    <3> HIDE DEF r
    <3> QED BY <3>1, <3>a
  <2>4. CASE ReplyQueued(m, f)
    <3> DEFINE x == [req_id |-> e.req_id, result |-> e.result]
               q == Append(fib[f].rq, x)
               r == [fib[f] EXCEPT !.rq = q]
    <3>1. q \in Seq([req_id : Int, result : Argument])
      BY <2>0, AppendProperties
    <3>2. fib' = [fib EXCEPT ![f] = r] /\ current' = current
      BY <2>4 DEF ReplyQueued, e, TypeInv, TypeOK
    <3> HIDE DEF q
    <3>3. r \in Fiber /\ r.fn = fib[f].fn /\ r.done = fib[f].done
      BY <2>0, <3>1 DEF Fiber
    <3> HIDE DEF r
    <3> QED BY <3>2, <3>3
  <2> QED BY <2>2, <2>3, <2>4
<1> QED BY <1>1, <1>2, <1>3, <1>5, ResumedHolder

\* new_fiber: a START is only handled when nobody holds the lock.
LEMMA LaunchHolder ==
  ASSUME TypeInv, FiberInv, LockInv, NEW m \in Modules, NEW f \in Fibers,
         StartSequence(m, f) \/ StartHandler(m, f)
  PROVE  LockInv'
<1> DEFINE e == Head(evs[m])
           r == IF StartSequence(m, f)
                THEN FreshFiber(m, e.seq, e.requester, e.req_id, Src("IGNORE", e.requester, 0, e.req_id))
                ELSE FreshFiber(m, "recv_notify", EXTERNAL, 0, Src("SUCCESS", e.requester, e.client_id, 0))
           s == [r EXCEPT !.waits = {}]
<1>1. /\ loop[m] = "run" /\ current[m] = NoFiber /\ f \in Unused
      /\ fibers' = [fibers EXCEPT ![m] = <<f>> \o @]
      /\ fib' = [fib EXCEPT ![f] = s] /\ current' = [current EXCEPT ![m] = f]
      /\ UNCHANGED <<loop, locked_by, holding>>
  BY DEF StartSequence, StartHandler, Handles, Scheduling, Launch, Resume, lockVars
<1>a. StartSequence(m, f) \/ s.fn = "recv_notify"
  BY DEF FreshFiber
<1> HIDE DEF s
<1>2. StartSequence(m, f) => locked_by[m] = NoFiber
  BY DEF StartSequence, Handles, MustDefer
<1>3. /\ fib \in [Fibers -> Fiber] /\ f # NoFiber /\ fibers \in [Modules -> Seq(Fibers)]
      /\ current \in [Modules -> Fibers \cup {NoFiber}]
      /\ \A n \in Modules : Live(n) \subseteq Fibers /\ f \notin Live(n)
  BY <1>1, RefersType, FibersAssumption DEF TypeInv, TypeOK, Refers, Unused
<1>4. /\ \A g \in Fibers \ {f} : fib'[g] = fib[g]
      /\ StartSequence(m, f) \/ fib'[f].fn = "recv_notify"
      /\ \A n \in Modules \ {m} : current'[n] = current[n] /\ fibers'[n] = fibers[n]
      /\ current'[m] = f
  BY <1>1, <1>a, <1>3
<1>5. Live(m)' = Live(m) \cup {f} /\ \A n \in Modules \ {m} : Live(n)' = Live(n)
  <2>1. ToSet(<<f>> \o fibers[m]) = {f} \cup ToSet(fibers[m])
    BY <1>3, ConsSeq
  <2> QED BY <1>1, <1>3, <1>4, <2>1 DEF Live
<1>6. f \notin holding /\ Unused' \subseteq Unused /\ ~AllStopped
  <2>1. ~AllStopped
    BY <1>1 DEF AllStopped
  <2> QED BY <1>1, <1>5, <2>1 DEF LockInv, FreeHoldNothing, Unused
<1>7. ASSUME NEW n \in Modules \ {m} PROVE HolderOk(n)'
  BY <1>1, <1>3, <1>4, HolderKept DEF LockInv
<1>8. HolderOk(m)'
  <2>1. ASSUME NEW g \in holding' \cap Live(m)' PROVE locked_by'[m] = g /\ ~fib'[g].done
    <3>1. g \in Live(m) /\ g # f /\ g \in holding
      BY <1>1, <1>5, <1>6, <2>1
    <3> QED BY <1>1, <1>3, <1>4, <3>1 DEF LockInv, HolderOk
  <2>2. locked_by'[m] \in {NoFiber, f} \/ fib'[f].fn = "recv_notify"
    BY <1>1, <1>2, <1>4
  <2> QED BY <1>4, <2>1, <2>2 DEF HolderOk, LockedOut
<1>9. FreeHoldNothing'
  BY <1>1, <1>6 DEF LockInv, FreeHoldNothing
<1> QED BY <1>7, <1>8, <1>9 DEF LockInv

\* reap_done: a finished fiber is between no lock and unlock.
LEMMA ReapHolder ==
  ASSUME TypeInv, FiberInv, LockInv, NEW m \in Modules,
         NEW i \in DOMAIN fibers[m], Reap(m, i)
  PROVE  LockInv'
<1> DEFINE f == fibers[m][i]
<1>0. /\ fibers \in [Modules -> Seq(Fibers)]
      /\ locked_by \in [Modules -> Fibers \cup {NoFiber}]
  BY DEF TypeInv, TypeOK
<1>1. /\ fib[f].done /\ f \in Live(m) /\ loop[m] = "run" /\ current[m] = NoFiber
      /\ UNCHANGED <<current, fib, loop, holding>>
      /\ fibers' = [fibers EXCEPT ![m] = RemoveAt(fibers[m], i)]
      /\ locked_by' = LockAfterReap(m, f)
  BY <1>0 DEF Reap, PassOver, Scheduling, Live, ToSet
<1>2. Live(m)' \subseteq Live(m) /\ Live(m) \ {f} \subseteq Live(m)'
      /\ \A n \in Modules \ {m} : fibers'[n] = fibers[n] /\ Live(n)' = Live(n)
  BY <1>0, <1>1, RemoveKeepsOthers DEF Live
<1> HIDE DEF f
<1>3. f \notin holding
  BY <1>1 DEF LockInv, HolderOk
<1>4. /\ \A n \in Modules \ {m} : locked_by'[n] = locked_by[n]
      /\ locked_by'[m] = locked_by[m] \/ locked_by[m] = f
  BY <1>0, <1>1 DEF LockAfterReap
<1>5. ASSUME NEW n \in Modules \ {m} PROVE HolderOk(n)'
  BY <1>1, <1>2, <1>4, HolderKept DEF LockInv
<1>6. HolderOk(m)'
  BY <1>1, <1>2, <1>3, <1>4 DEF LockInv, HolderOk
<1>7. FreeHoldNothing'
  <2>1. ~AllStopped
    BY <1>1 DEF AllStopped
  <2>2. Unused' \subseteq Unused \cup {f}
    BY <1>2 DEF Unused
  <2> QED BY <1>1, <1>3, <2>1, <2>2 DEF LockInv, FreeHoldNothing
<1> QED BY <1>5, <1>6, <1>7 DEF LockInv

-----------------------------------------------------------------------------
(* The calls *)

\* A call leaves a fiber its body, and only a return ends it.
LEMMA CallKeeps ==
  ASSUME TypeInv, NEW m \in Modules, NEW f \in Fibers, NEW c \in Call,
         Calls(m, f, c) \/ NotifyCalls(m, f, c)
  PROVE  /\ fib'[f].fn = fib[f].fn
         /\ Return(m, f, c) \/ fib'[f].done = fib[f].done
<1>0. fib \in [Fibers -> Fiber] /\ fib[f] \in Fiber
  BY FiberType DEF TypeInv, TypeOK
<1> DEFINE past == Past(f)
<1>p. past \in Fiber /\ past.fn = fib[f].fn /\ past.done = fib[f].done
  <2>1. past \in Fiber /\ past.fn = fib[f].fn
    BY PastType DEF TypeInv
  <2>2. past.done = fib[f].done
    BY <1>0 DEF Past, Fiber
  <2> QED BY <2>1, <2>2
<1>q. AfterOne(f, c) \in Fiber /\ AfterOne(f, c).fn = fib[f].fn /\ AfterOne(f, c).done = fib[f].done
  BY <1>0, <1>p DEF AfterOne
<1> DEFINE after == AfterOne(f, c)
<1>s. \/ fib' = [fib EXCEPT ![f] = past]
      \/ \E x, y : fib' = [fib EXCEPT ![f] = [past EXCEPT !.wait_req_id = x, !.waits = y]]
      \/ \E x : fib' = [fib EXCEPT ![f] = [past EXCEPT !.async_outstanding = x]]
      \/ \E x : fib' = [fib EXCEPT ![f] = [past EXCEPT !.waits = x]]
      => fib'[f].fn = fib[f].fn /\ fib'[f].done = fib[f].done
  <2>1. past \in Fiber /\ past.fn = fib[f].fn /\ past.done = fib[f].done
    BY <1>p
  <2> HIDE DEF past
  <2>2. ASSUME NEW x, NEW y, fib' = [fib EXCEPT ![f] = [past EXCEPT !.wait_req_id = x, !.waits = y]]
        PROVE  fib'[f].fn = fib[f].fn /\ fib'[f].done = fib[f].done
    <3> DEFINE r == [past EXCEPT !.wait_req_id = x, !.waits = y]
    <3>1. r.fn = past.fn /\ r.done = past.done /\ fib' = [fib EXCEPT ![f] = r]
      BY <2>1, <2>2 DEF Fiber
    <3> HIDE DEF r
    <3> QED BY <1>0, <2>1, <3>1
  <2>3. ASSUME NEW x, fib' = [fib EXCEPT ![f] = [past EXCEPT !.async_outstanding = x]]
        PROVE  fib'[f].fn = fib[f].fn /\ fib'[f].done = fib[f].done
    <3> DEFINE r == [past EXCEPT !.async_outstanding = x]
    <3>1. r.fn = past.fn /\ r.done = past.done /\ fib' = [fib EXCEPT ![f] = r]
      BY <2>1, <2>3 DEF Fiber
    <3> HIDE DEF r
    <3> QED BY <1>0, <2>1, <3>1
  <2>4. ASSUME NEW x, fib' = [fib EXCEPT ![f] = [past EXCEPT !.waits = x]]
        PROVE  fib'[f].fn = fib[f].fn /\ fib'[f].done = fib[f].done
    <3> DEFINE r == [past EXCEPT !.waits = x]
    <3>1. r.fn = past.fn /\ r.done = past.done /\ fib' = [fib EXCEPT ![f] = r]
      BY <2>1, <2>4 DEF Fiber
    <3> HIDE DEF r
    <3> QED BY <1>0, <2>1, <3>1
  <2>5. fib' = [fib EXCEPT ![f] = past] => fib'[f].fn = fib[f].fn /\ fib'[f].done = fib[f].done
    BY <1>0, <2>1
  <2> QED BY <2>2, <2>3, <2>4, <2>5, Zenon
<1>t. \/ \E x, y, z : fib' = [fib EXCEPT ![f] =
                                [after EXCEPT !.rq = x, !.async_outstanding = y, !.src = z]]
      \/ \E x : fib' = [fib EXCEPT ![f] = [after EXCEPT !.waits = x]]
      => fib'[f].fn = fib[f].fn /\ fib'[f].done = fib[f].done
  <2>1. after \in Fiber /\ after.fn = fib[f].fn /\ after.done = fib[f].done
    BY <1>q
  <2> HIDE DEF after
  <2>2. ASSUME NEW x, NEW y, NEW z, fib' = [fib EXCEPT ![f] = [after EXCEPT !.rq = x, !.async_outstanding = y, !.src = z]]
        PROVE  fib'[f].fn = fib[f].fn /\ fib'[f].done = fib[f].done
    <3> DEFINE r == [after EXCEPT !.rq = x, !.async_outstanding = y, !.src = z]
    <3>1. r.fn = after.fn /\ r.done = after.done /\ fib' = [fib EXCEPT ![f] = r]
      BY <2>1, <2>2 DEF Fiber
    <3> HIDE DEF r
    <3> QED BY <1>0, <2>1, <3>1
  <2>3. ASSUME NEW x, fib' = [fib EXCEPT ![f] = [after EXCEPT !.waits = x]]
        PROVE  fib'[f].fn = fib[f].fn /\ fib'[f].done = fib[f].done
    <3> DEFINE r == [after EXCEPT !.waits = x]
    <3>1. r.fn = after.fn /\ r.done = after.done /\ fib' = [fib EXCEPT ![f] = r]
      BY <2>1, <2>3 DEF Fiber
    <3> HIDE DEF r
    <3> QED BY <1>0, <2>1, <3>1
  <2> QED BY <2>2, <2>3, Zenon
<1>1. CASE Request(m, f, c) \/ RequestAsync(m, f, c) \/ Send(m, f, c)
  <2>0. past \in Fiber
    BY <1>p
  <2>1. \/ fib' = [fib EXCEPT ![f] = past]
        \/ \E x, y : fib' = [fib EXCEPT ![f] = [past EXCEPT !.wait_req_id = x, !.waits = y]]
        \/ \E x : fib' = [fib EXCEPT ![f] = [past EXCEPT !.async_outstanding = x]]
    <3>1. CASE Send(m, f, c)
      BY <3>1 DEF Send
    <3>2. CASE Request(m, f, c)
      BY <2>0, <3>2 DEF Request
    <3>3. CASE RequestAsync(m, f, c)
      BY <2>0, <3>3 DEF RequestAsync
    <3> QED BY <1>1, <3>1, <3>2, <3>3
  <2> QED BY <1>s, <2>1
<1>2. CASE NothingToCollect(m, f, c) \/ CollectQueued(m, f, c) \/ WaitForReply(m, f, c)
  <2>1. CASE NothingToCollect(m, f, c)
    BY <1>s, <2>1 DEF NothingToCollect
  <2>2. CASE CollectQueued(m, f, c) \/ WaitForReply(m, f, c)
    <3>1. \/ \E x, y, z : fib' = [fib EXCEPT ![f] =
                                 [after EXCEPT !.rq = x, !.async_outstanding = y, !.src = z]]
          \/ \E x : fib' = [fib EXCEPT ![f] = [after EXCEPT !.waits = x]]
      BY <2>2 DEF CollectQueued, WaitForReply
    <3> QED BY <1>t, <3>1
  <2> QED BY <1>2, <2>1, <2>2
<1>3. CASE ReplyToModule(m, f, c) \/ ReplyToExternal(m, f, c) \/ WaitTimeout(m, f, c)
  <2>1. CASE ReplyToModule(m, f, c) \/ ReplyToExternal(m, f, c)
    BY <1>s, <2>1 DEF ReplyToModule, ReplyToExternal
  <2>2. CASE WaitTimeout(m, f, c)
    BY <1>s, <2>2 DEF WaitTimeout
  <2> QED BY <1>3, <2>1, <2>2
<1>4. CASE Lock(m, f, c) \/ Unlock(m, f, c)
  BY <1>0, <1>4 DEF Lock, Unlock, Past, Fiber
<1>5. CASE Return(m, f, c)
  BY <1>0, <1>5 DEF Return, Fiber
<1>6. CASE \/ RegRefused(m, f, c) \/ RegTest(m, f, c) \/ RegWrap(m, f, c)
           \/ RegRead(m, f, c) \/ RegWrite(m, f, c)
  <2>1. CASE RegRefused(m, f, c)
    BY <1>s, <2>1 DEF RegRefused
  <2>2. CASE RegTest(m, f, c)
    BY <1>0, <2>2 DEF RegTest, Fiber
  <2>3. CASE RegWrap(m, f, c) \/ RegRead(m, f, c)
    BY <1>0, <2>3 DEF RegWrap, RegRead, Fiber
  <2>4. CASE RegWrite(m, f, c)
    <3>1. \E x, y : fib' = [fib EXCEPT ![f] = [past EXCEPT !.reg = x, !.cat = y]]
      BY <2>4 DEF RegWrite
    <3> HIDE DEF past
    <3> QED BY <1>0, <1>p, <3>1 DEF Fiber
  <2> QED BY <1>6, <2>1, <2>2, <2>3, <2>4
<1>7. ASSUME NEW cid \in ClientId, NEW i, UnregNotify(m, f, c, cid, i) \/ UnregUnknown(m, f, c, cid)
      PROVE  fib'[f].fn = fib[f].fn /\ fib'[f].done = fib[f].done
  BY <1>0, <1>7 DEF UnregNotify, UnregUnknown, Past, Fiber
<1>8. ASSUME NEW i \in DOMAIN notify_clients[m], NotifyOne(m, f, c, i)
      PROVE  fib'[f].fn = fib[f].fn /\ fib'[f].done = fib[f].done
  BY <1>0, <1>8 DEF NotifyOne, Fiber
<1>9. CASE NotifyDone(m, f, c)
  BY <1>0, <1>9 DEF NotifyDone, Past, Fiber
<1> QED BY <1>1, <1>2, <1>3, <1>4, <1>5, <1>6, <1>7, <1>8, <1>9 DEF Calls, NotifyCalls

\* Where a call can leave the lock and the thread.
LEMMA CallLocks ==
  ASSUME NEW m \in Modules, NEW f \in Fibers, NEW c \in Call,
         Calls(m, f, c) \/ NotifyCalls(m, f, c)
  PROVE  /\ UNCHANGED <<loop, fibers>> /\ (current' = current \/ Yield(m))
         /\ \/ UNCHANGED <<locked_by, holding>> /\ ~Return(m, f, c)
            \/ Lock(m, f, c) \/ Unlock(m, f, c)
            \/ Return(m, f, c) /\ holding' = holding \ {f} /\ locked_by' = locked_by
<1>1. CASE Request(m, f, c) \/ RequestAsync(m, f, c) \/ Send(m, f, c)
  BY <1>1 DEF Request, RequestAsync, Send, Return, schedVars, lockVars
<1>2. CASE NothingToCollect(m, f, c) \/ CollectQueued(m, f, c) \/ WaitForReply(m, f, c)
  BY <1>2 DEF NothingToCollect, CollectQueued, WaitForReply, Collects, Return, schedVars, lockVars
<1>3. CASE ReplyToModule(m, f, c) \/ ReplyToExternal(m, f, c) \/ WaitTimeout(m, f, c)
  BY <1>3 DEF ReplyToModule, ReplyToExternal, WaitTimeout, Return, schedVars, lockVars
<1>4. CASE Lock(m, f, c) \/ Unlock(m, f, c) \/ Return(m, f, c)
  BY <1>4 DEF Lock, Unlock, Return, schedVars
<1>5. CASE NotifyCalls(m, f, c)
  BY <1>5 DEF NotifyCalls, RegRefused, RegTest, RegWrap, RegRead, RegWrite, Registering,
              UnregNotify, UnregUnknown, NotifyOne, NotifyDone, Notifying, Return, schedVars, lockVars
<1> QED BY <1>1, <1>2, <1>3, <1>4, <1>5 DEF Calls

\* A call of the running fiber.
LEMMA CallHolder ==
  ASSUME HandlersDoNotLock, TypeInv, FiberInv, LockInv, NEW m \in Modules, Sequence(m)
  PROVE  LockInv'
<1> DEFINE f == current[m]
<1>1. PICK c \in NextCalls(m) : Calls(m, f, c) \/ NotifyCalls(m, f, c)
  BY DEF Sequence
<1>2. f \in Fibers /\ c \in Call /\ Running(m, f)
  BY <1>1, CallType DEF Sequence, Running
<1>3. /\ f \in Live(m) /\ loop[m] = "run" /\ f # NoFiber /\ ~fib[f].done
  <2>1. RecordOk(f, fib[f], Mine(m, f), TRUE) /\ f \in Live(m) /\ loop[m] = "run" /\ f # NoFiber
    BY <1>2, Current
  <2> QED BY <2>1 DEF RecordOk
<1>4. /\ \A g \in Fibers \ {f} : fib'[g] = fib[g]
      /\ fib'[f].fn = fib[f].fn
      /\ Return(m, f, c) \/ fib'[f].done = fib[f].done
  BY <1>1, <1>2, CallKeeps, CallsChangeOne DEF TypeInv, TypeOK
<1>5. /\ \A g \in holding \cap Live(m) : locked_by[m] = g
      /\ locked_by[m] \in {NoFiber, f} \/ fib[f].fn = "recv_notify"
  BY <1>3 DEF LockInv, HolderOk, LockedOut
<1>6. /\ current'[m] \in {NoFiber, f} /\ \A n \in Modules \ {m} : current'[n] = current[n]
      /\ UNCHANGED <<loop, fibers>>
  BY <1>1, <1>2, CallLocks DEF Yield, TypeInv, TypeOK
<1>7. locked_by \in [Modules -> Fibers \cup {NoFiber}] /\ NoFiber \notin Fibers
  BY FibersAssumption DEF TypeInv, TypeOK
<1>8. CASE UNCHANGED <<locked_by, holding>> /\ ~Return(m, f, c)
  <2>1. f \in holding => locked_by[m] = f
    BY <1>3, <1>5
  <2> QED BY <1>3, <1>4, <1>5, <1>6, <1>8, <2>1, OneHolder
<1>9. CASE Lock(m, f, c)
  <2>1. /\ locked_by'[m] = f /\ holding' = holding \cup {f} /\ c.op = "lock"
        /\ \A n \in Modules \ {m} : locked_by'[n] = locked_by[n]
    BY <1>7, <1>9 DEF Lock
  <2>2. ~Return(m, f, c)
    BY <2>1 DEF Return
  <2>3. fib[f].fn # "recv_notify"
    <3> SUFFICES ASSUME fib[f].fn = "recv_notify" PROVE FALSE
      OBVIOUS
    <3>1. fib[f].mod \in Modules /\ "recv_notify" \in DOMAIN Script[fib[f].mod]
      <4>1. f \in Live(m)
        BY <1>3
      <4> HIDE DEF f
      <4> QED BY <4>1, BodyLedgers
    <3>2. LET body == Script[fib[f].mod]["recv_notify"] IN
            fib[f].pc \in DOMAIN body /\ c \in body[fib[f].pc]
      BY <1>2, <2>1, CallAtPlace
    <3> QED BY <2>1, <3>1, <3>2 DEF HandlersDoNotLock, HasHandler
  <2>4. \A g \in (holding \cap Live(m)) \ {f} : FALSE
    <3>1. \A g \in Live(m) : g \in Fibers
      BY RefersType DEF TypeInv, Refers
    <3> QED BY <1>5, <1>7, <2>3, <3>1
  <2> QED BY <1>3, <1>4, <1>6, <2>1, <2>2, <2>4, OneHolder
<1>10. CASE Unlock(m, f, c)
  <2>1. /\ holding' = holding \ {f} /\ c.op = "unlock"
        /\ \A n \in Modules \ {m} : locked_by'[n] = locked_by[n]
        /\ locked_by'[m] = locked_by[m] \/ (locked_by[m] = f /\ locked_by'[m] = NoFiber)
    BY <1>7, <1>10 DEF Unlock, LockAfterUnlock
  <2> QED BY <1>3, <1>4, <1>5, <1>6, <2>1, OneHolder
<1>11. CASE Return(m, f, c) /\ holding' = holding \ {f} /\ locked_by' = locked_by
  BY <1>3, <1>4, <1>5, <1>6, <1>11, OneHolder
<1> HIDE DEF f
<1> QED BY <1>1, <1>2, <1>8, <1>9, <1>10, <1>11, CallLocks

-----------------------------------------------------------------------------
(* Every step, and the theorem *)

LEMMA LockStep ==
  ASSUME HandlersDoNotLock, TypeInv, FiberInv, LockInv, [Next]_vars
  PROVE  LockInv'
<1>1. ASSUME NEW m \in Modules, Thread(m) \/ SpuriousWake(m) PROVE LockInv'
  BY <1>1, QuietHolders, TimerHolder, ReplyHolder, LaunchHolder, ReapHolder, CallHolder
     DEF Thread, Sched
<1>2. CASE \/ \E f \in Fibers : TimePasses(f)
           \/ \E c \in Clients : External(c)
           \/ BeginTeardown \/ (\E m \in Modules : StopModule(m)) \/ UNCHANGED vars
  <2>1. UNCHANGED <<fibers, current, locked_by, fib, holding, loop>>
    BY <1>2 DEF TimePasses, External, RequestSync, ExtRequestAsync, SyncReturns,
                BeginTeardown, StopModule, vars, schedVars, lockVars
  <2> QED BY <2>1, SameHolders DEF AllStopped
<1>3. CASE FreeModules
  <2>1. /\ AllStopped /\ AllStopped' /\ UNCHANGED current
        /\ \A m \in Modules : Live(m)' = {} /\ loop[m] = "stopped"
    BY <1>3 DEF FreeModules, AllStopped, Live, ToSet
  <2>2. \A m \in Modules : current[m] = NoFiber
    BY <2>1 DEF FiberInv, ThreadOk, SchedulerOk
  <2> QED BY <2>1, <2>2 DEF LockInv, FreeHoldNothing, HolderOk
<1> QED BY <1>1, <1>2, <1>3 DEF Next, Owner

LEMMA LockInit == Init => LockInv
  BY DEF Init, LockInv, FreeHoldNothing, HolderOk, Live, ToSet

\* coseq_lock: in a program whose sequences collect the replies they asked for and
\* whose handlers do not lock, nothing but handlers runs on a module between a
\* fiber's coseq_lock and its coseq_unlock or return, however the fiber waits in
\* between and whatever reaches its module.
THEOREM LockExcludes ==
  CollectsBeforeReturn /\ HandlersDoNotLock => (Spec => []LockExclusion)
<1> SUFFICES ASSUME CollectsBeforeReturn, HandlersDoNotLock PROVE Spec => []LockExclusion
  OBVIOUS
<1>1. TypeInv /\ FiberInv /\ LockInv /\ [Next]_vars => LockInv'
  BY LockStep
<1>2. TypeInv /\ LockInv => LockExclusion
  <2> SUFFICES ASSUME TypeInv, LockInv, NEW m \in Modules, NEW f \in holding \cap Live(m),
                      current[m] \notin {NoFiber, f}
               PROVE  fib[current[m]].fn = "recv_notify"
    BY DEF LockExclusion
  <2>1. locked_by[m] = f /\ f # NoFiber
    BY RefersType, FibersAssumption DEF LockInv, HolderOk, TypeInv, Refers
  <2> QED BY <2>1 DEF LockInv, HolderOk, LockedOut
<1> QED BY <1>1, <1>2, LockInit, FiberInvariant, PTL DEF Spec

-----------------------------------------------------------------------------
(* The order of arrival *)

\* A fiber that is owed replies, or at a place that is only reached with the lock, has it.
FanHolds(m) ==
  \A f \in Live(m) :
    /\ fib[f].async_outstanding > 0 => f \in holding
    /\ ~fib[f].done =>
         \A held \in HeldPlaces(Script[m][fib[f].fn]) : fib[f].pc \in held => f \in holding

\* A reply deferred for a fiber answers the request the fiber is inside, without the lock.
DeferredOk(m) ==
  \A f \in Live(m) : \A i \in DOMAIN deferred[m] :
    deferred[m][i].type = "REPLY" /\ AwaitedBy(m, deferred[m][i], f) =>
      f \notin holding /\ AwaitsThis(f, deferred[m][i])

\* A module that no sequence locks defers nothing.
OrderInv ==
  \A m \in Modules :
    IF Uses(m, "lock") THEN FanHolds(m) /\ DeferredOk(m)
                       ELSE locked_by[m] = NoFiber /\ deferred[m] = <<>>

\* What the scheduler of m does to the counts, the lock and the deferred events.
LEMMA SchedCounts ==
  ASSUME TypeInv, FiberInv, NEW m \in Modules, Sched(m) \/ SpuriousWake(m)
  PROVE  /\ \A n \in Modules : \A f \in Live(n)' :
              \/ f \notin Live(n) /\ fib'[f].async_outstanding = 0 /\ fib'[f].pc = 1
              \/ f \in Live(n) /\ fib'[f].async_outstanding <= fib[f].async_outstanding
         /\ \A n \in Modules : locked_by[n] = NoFiber =>
              locked_by'[n] = NoFiber /\ deferred'[n] \in {deferred[n], <<>>}
<1>0. /\ fib \in [Fibers -> Fiber] /\ fibers \in [Modules -> Seq(Fibers)]
      /\ locked_by \in [Modules -> Fibers \cup {NoFiber}]
      /\ deferred \in [Modules -> Seq(Event)]
      /\ \A n \in Modules : Live(n) \subseteq Fibers
      /\ \A f \in Fibers : fib[f].async_outstanding \in Int
  <2>1. \A r \in Fiber : r.async_outstanding \in Int
    BY DEF Fiber
  <2> QED BY <2>1, RefersType DEF TypeInv, TypeOK, Refers
<1> DEFINE Counts1 == \A n \in Modules : \A f \in Live(n)' :
                       \/ /\ f \notin Live(n)
                          /\ fib'[f].async_outstanding = 0 /\ fib'[f].pc = 1
                       \/ /\ f \in Live(n)
                          /\ fib'[f].async_outstanding <= fib[f].async_outstanding
           Locks1 == \A n \in Modules : locked_by[n] = NoFiber =>
                      locked_by'[n] = NoFiber /\ deferred'[n] \in {deferred[n], <<>>}
<1>1. ASSUME \/ Sleep(m) \/ StartPass(m) \/ SpuriousWake(m) \/ Stopped(m) \/ EndPass(m)
             \/ (\E f \in Fibers : TimerHeldBack(m, f))
             \/ Defer(m) \/ StartRefused(m) \/ NotifyRefused(m) \/ ReplyUnknown(m)
      PROVE  Counts1 /\ Locks1
  <2>1. UNCHANGED <<fib, fibers, locked_by>>
    BY <1>1 DEF Sleep, StartPass, SpuriousWake, TakeInbox, Stopped, EndPass, TimerHeldBack,
                Defer, StartRefused, NotifyRefused, ReplyUnknown, Dropped, lockVars
  <2>2. Counts1
    BY <1>0, <2>1 DEF Live
  <2>3. \/ deferred' = deferred
        \/ deferred' = [deferred EXCEPT ![m] = StillDeferred(m)]
        \/ locked_by[m] # NoFiber /\ \E x : deferred' = [deferred EXCEPT ![m] = x]
    BY <1>1 DEF Sleep, StartPass, SpuriousWake, TakeInbox, Stopped, EndPass, TimerHeldBack,
                Defer, MustDefer, StartRefused, NotifyRefused, ReplyUnknown, Dropped
  <2>4. Locks1
    BY <1>0, <2>1, <2>3 DEF StillDeferred
  <2> QED BY <2>2, <2>4
<1>2. ASSUME NEW i \in DOMAIN fibers[m], Reap(m, i) PROVE Counts1 /\ Locks1
  <2>1. /\ fib' = fib /\ fibers' = [fibers EXCEPT ![m] = RemoveAt(fibers[m], i)]
        /\ deferred' = deferred /\ locked_by' = LockAfterReap(m, fibers[m][i])
    BY <1>0, <1>2 DEF Reap
  <2>2. \A n \in Modules : Live(n)' \subseteq Live(n)
    BY <1>0, <2>1, RemoveKeepsOthers DEF Live
  <2> QED BY <1>0, <2>1, <2>2 DEF LockAfterReap
<1>3. ASSUME NEW f \in Fibers, UNCHANGED <<fibers, locked_by, deferred>>,
             \A g \in Fibers \ {f} : fib'[g] = fib[g],
             fib'[f].async_outstanding <= fib[f].async_outstanding
      PROVE  Counts1 /\ Locks1
  <2>1. \A n \in Modules : Live(n)' = Live(n)
    BY <1>3 DEF Live
  <2>2. ASSUME NEW g \in Fibers
        PROVE  fib'[g].async_outstanding <= fib[g].async_outstanding
    <3>1. fib[g].async_outstanding \in Int
      BY <1>0
    <3>2. CASE g # f
      <4>1. fib'[g] = fib[g]
        BY <1>3, <3>2
      <4> QED BY <3>1, <4>1
    <3> QED BY <1>3, <3>2
  <2>3. Counts1
    BY <1>0, <2>1, <2>2
  <2>4. Locks1
    BY <1>3
  <2> QED BY <2>3, <2>4
<1>4. ASSUME NEW f \in Fibers, TimerFires(m, f) PROVE Counts1 /\ Locks1
  <2> DEFINE r == [AfterTimer(f) EXCEPT !.waits = {}]
  <2>1. /\ fib' = [fib EXCEPT ![f] = r]
        /\ UNCHANGED <<fibers, locked_by, deferred>>
    BY <1>4 DEF TimerFires, Resume, lockVars
  <2>2. r.async_outstanding = fib[f].async_outstanding
    BY <1>0 DEF AfterTimer, Fiber
  <2> HIDE DEF r, Counts1, Locks1
  <2>3. /\ \A g \in Fibers \ {f} : fib'[g] = fib[g]
        /\ fib'[f].async_outstanding <= fib[f].async_outstanding
    BY <1>0, <2>1, <2>2
  <2> QED BY <1>3, <2>1, <2>3
<1>5. ASSUME NEW f \in Fibers,
             ReplyEndsRequest(m, f) \/ ReplyEndsWait(m, f) \/ ReplyQueued(m, f)
      PROVE  Counts1 /\ Locks1
  <2> DEFINE e == Head(evs[m])
             x == [req_id |-> e.req_id, result |-> e.result]
             r1 == [[fib[f] EXCEPT !.src = ReplySrc(e)] EXCEPT !.waits = {}]
             r2 == [[fib[f] EXCEPT !.src = ReplySrc(e), !.async_outstanding = @ - 1]
                      EXCEPT !.waits = {}]
             r3 == [fib[f] EXCEPT !.rq = Append(@, x)]
  <2>1. UNCHANGED <<fibers, locked_by, deferred>>
    BY <1>5 DEF ReplyEndsRequest, ReplyEndsWait, ReplyQueued, lockVars
  <2>2. \/ fib' = [fib EXCEPT ![f] = r1] \/ fib' = [fib EXCEPT ![f] = r2]
        \/ fib' = [fib EXCEPT ![f] = r3]
    BY <1>5 DEF ReplyEndsRequest, ReplyEndsWait, ReplyQueued, Resume
  <2>3. /\ r1.async_outstanding = fib[f].async_outstanding
        /\ r2.async_outstanding = fib[f].async_outstanding - 1
        /\ r3.async_outstanding = fib[f].async_outstanding
    BY <1>0 DEF Fiber
  <2> HIDE DEF r1, r2, r3, Counts1, Locks1
  <2>4. /\ \A g \in Fibers \ {f} : fib'[g] = fib[g]
        /\ fib'[f].async_outstanding <= fib[f].async_outstanding
    BY <1>0, <2>2, <2>3
  <2> QED BY <1>3, <2>1, <2>4
<1>6. ASSUME NEW f \in Fibers, StartSequence(m, f) \/ StartHandler(m, f)
      PROVE  Counts1 /\ Locks1
  <2>1. \E b, s, t, u :
          fib' = [fib EXCEPT ![f] = [FreshFiber(m, b, s, t, u) EXCEPT !.waits = {}]]
    BY <1>6 DEF StartSequence, StartHandler, Launch, Resume
  <2>2. /\ fib'[f].async_outstanding = 0 /\ fib'[f].pc = 1
        /\ \A g \in Fibers \ {f} : fib'[g] = fib[g]
    BY <1>0, <2>1 DEF FreshFiber
  <2>a. \A n \in Modules : f \notin Live(n)
    BY <1>6 DEF StartSequence, StartHandler, Unused
  <2>3. /\ fibers' = [fibers EXCEPT ![m] = <<f>> \o @] /\ UNCHANGED <<locked_by, deferred>>
    BY <1>6 DEF StartSequence, StartHandler, Launch, lockVars
  <2>4. Live(m)' = Live(m) \cup {f} /\ \A n \in Modules \ {m} : Live(n)' = Live(n)
    BY <1>0, <2>3, ConsSeq DEF Live
  <2>5. ASSUME NEW n \in Modules, NEW g \in Live(n)', g # f
        PROVE  g \in Live(n) /\ fib'[g].async_outstanding <= fib[g].async_outstanding
    <3>1. g \in Live(n)
      BY <2>4, <2>5
    <3>2. fib'[g] = fib[g] /\ fib[g].async_outstanding \in Int
      BY <1>0, <2>2, <2>5, <3>1
    <3> QED BY <3>1, <3>2
  <2>6. Locks1
    BY <2>3
  <2> QED BY <2>2, <2>a, <2>5, <2>6
<1> HIDE DEF Counts1, Locks1
<1>7. Counts1 /\ Locks1
  BY <1>1, <1>2, <1>4, <1>5, <1>6 DEF Sched
<1> QED BY <1>7 DEF Counts1, Locks1

\* What a call does to them.
LEMMA CallCounts ==
  ASSUME TypeInv, NEW m \in Modules, NEW f \in Fibers, NEW c,
         Calls(m, f, c) \/ NotifyCalls(m, f, c)
  PROVE  /\ c.op = "request_async" \/ fib'[f].async_outstanding <= fib[f].async_outstanding
         /\ c.op # "lock" => \A n \in Modules : locked_by[n] = NoFiber => locked_by'[n] = NoFiber
         /\ \A n \in Modules \ {m} : locked_by'[n] = locked_by[n]
<1>0. fib[f] \in Fiber /\ fib[f].async_outstanding \in Int /\ fib \in [Fibers -> Fiber]
      /\ locked_by \in [Modules -> Fibers \cup {NoFiber}]
  BY FiberType DEF TypeInv, TypeOK, Fiber
<1> DEFINE past == Past(f)
           after == AfterOne(f, c)
<1>1. /\ past \in Fiber /\ past.async_outstanding = fib[f].async_outstanding
      /\ after \in Fiber /\ after.async_outstanding = fib[f].async_outstanding
  <2>1. past = [fib[f] EXCEPT !.pc = fib[f].pc + 1] /\ past \in Fiber
    BY <1>0, PastType DEF Past, Fiber, TypeInv
  <2>2. past.async_outstanding = fib[f].async_outstanding
    BY <1>0, <2>1 DEF Fiber
  <2> QED BY <1>0, <2>1, <2>2 DEF AfterOne
<1> HIDE DEF past, after
<1>2. CASE Request(m, f, c) \/ WaitTimeout(m, f, c) \/ WaitForReply(m, f, c)
  <2>1. \/ \E x, y : fib' = [fib EXCEPT ![f] = [past EXCEPT !.wait_req_id = x, !.waits = y]]
        \/ \E y : fib' = [fib EXCEPT ![f] = [past EXCEPT !.waits = y]]
        \/ \E y : fib' = [fib EXCEPT ![f] = [after EXCEPT !.waits = y]]
    BY <1>2 DEF Request, WaitTimeout, WaitForReply, past, after
  <2>2. fib'[f].async_outstanding = fib[f].async_outstanding
    <3>1. ASSUME NEW x, NEW y, fib' = [fib EXCEPT ![f] = [past EXCEPT !.wait_req_id = x, !.waits = y]]
          PROVE  fib'[f].async_outstanding = fib[f].async_outstanding
      BY <1>0, <1>1, <3>1 DEF Fiber
    <3>2. ASSUME NEW r \in {past, after}, NEW y, fib' = [fib EXCEPT ![f] = [r EXCEPT !.waits = y]]
          PROVE  fib'[f].async_outstanding = fib[f].async_outstanding
      BY <1>0, <1>1, <3>2 DEF Fiber
    <3> QED BY <2>1, <3>1, <3>2
  <2> QED BY <1>0, <1>2, <2>2 DEF Request, WaitTimeout, WaitForReply, lockVars
<1>3. CASE RequestAsync(m, f, c)
  BY <1>3 DEF RequestAsync, lockVars
<1>4. CASE \/ Send(m, f, c) \/ NothingToCollect(m, f, c) \/ ReplyToModule(m, f, c)
           \/ ReplyToExternal(m, f, c) \/ Lock(m, f, c) \/ Unlock(m, f, c)
  <2>1. fib' = [fib EXCEPT ![f] = past]
    BY <1>4 DEF Send, NothingToCollect, ReplyToModule, ReplyToExternal, Lock, Unlock, past
  <2>2. \/ locked_by' = locked_by \/ locked_by' = LockAfterUnlock(m, f)
        \/ c.op = "lock" /\ locked_by' = [locked_by EXCEPT ![m] = f]
    BY <1>4 DEF Send, NothingToCollect, ReplyToModule, ReplyToExternal, Lock, Unlock, lockVars
  <2> QED BY <1>0, <1>1, <2>1, <2>2 DEF LockAfterUnlock
<1>5. CASE CollectQueued(m, f, c)
  <2>1. \E x, y : fib' = [fib EXCEPT ![f] =
                     [after EXCEPT !.rq = x, !.async_outstanding = @ - 1, !.src = y]]
    BY <1>5 DEF CollectQueued, after
  <2>2. fib'[f].async_outstanding = fib[f].async_outstanding - 1
    BY <1>0, <1>1, <2>1 DEF Fiber
  <2> QED BY <1>0, <1>5, <2>2 DEF CollectQueued, lockVars
<1>6. CASE Return(m, f, c)
  BY <1>0, <1>6 DEF Return, Fiber
<1>7. CASE NotifyCalls(m, f, c)
  <2>1. locked_by' = locked_by
    BY <1>7 DEF NotifyCalls, RegRefused, RegTest, RegWrap, RegRead, RegWrite, UnregNotify,
                UnregUnknown, NotifyOne, NotifyDone, lockVars
  <2>2. \/ fib' = [fib EXCEPT ![f] = past]
        \/ \E x, y : \/ fib' = [fib EXCEPT ![f] = [past EXCEPT !.reg = x, !.cat = y]]
                     \/ fib' = [fib EXCEPT ![f] = [past EXCEPT !.fan = x, !.cat = y]]
                     \/ fib' = [fib EXCEPT ![f].reg = x, ![f].cat = y]
                     \/ fib' = [fib EXCEPT ![f].reg = x]
                     \/ fib' = [fib EXCEPT ![f].fan = x, ![f].cat = y]
    BY <1>7 DEF NotifyCalls, RegRefused, RegTest, RegWrap, RegRead, RegWrite, UnregNotify,
                UnregUnknown, NotifyOne, NotifyDone, past
  <2>3. fib'[f].async_outstanding = fib[f].async_outstanding
    <3>1. ASSUME NEW x, NEW y, fib' = [fib EXCEPT ![f] = [past EXCEPT !.reg = x, !.cat = y]]
          PROVE  fib'[f].async_outstanding = fib[f].async_outstanding
      BY <1>0, <1>1, <3>1 DEF Fiber
    <3>5. ASSUME NEW x, NEW y, fib' = [fib EXCEPT ![f] = [past EXCEPT !.fan = x, !.cat = y]]
          PROVE  fib'[f].async_outstanding = fib[f].async_outstanding
      BY <1>0, <1>1, <3>5 DEF Fiber
    <3>2. ASSUME NEW x, NEW y,
                 \/ fib' = [fib EXCEPT ![f].reg = x, ![f].cat = y]
                 \/ fib' = [fib EXCEPT ![f].fan = x, ![f].cat = y]
          PROVE  fib'[f].async_outstanding = fib[f].async_outstanding
      BY <1>0, <1>1, <3>2 DEF Fiber
    <3>3. ASSUME NEW x, fib' = [fib EXCEPT ![f].reg = x]
          PROVE  fib'[f].async_outstanding = fib[f].async_outstanding
      BY <1>0, <1>1, <3>3 DEF Fiber
    <3>4. CASE fib' = [fib EXCEPT ![f] = past]
      BY <1>0, <1>1, <3>4
    <3> QED BY <2>2, <3>1, <3>2, <3>3, <3>4, <3>5
  <2> QED BY <1>0, <2>1, <2>3
<1> QED BY <1>2, <1>3, <1>4, <1>5, <1>6, <1>7 DEF Calls

\* What a call asks for, and what it does to the history of the locks.
LEMMA CallHolding ==
  ASSUME TypeInv, NEW m \in Modules, NEW f \in Fibers, NEW c \in Call,
         Calls(m, f, c) \/ NotifyCalls(m, f, c)
  PROVE  /\ c.op = "request_async" =>
              fib'[f].async_outstanding = fib[f].async_outstanding + 1 /\ fib'[f].pc = fib[f].pc + 1
         /\ \A g : g # f => (g \in holding' <=> g \in holding)
         /\ \/ c.op = "lock" /\ f \in holding'
            \/ c.op = "unlock" /\ fib'[f].pc = fib[f].pc + 1
            \/ c.op = "return"
            \/ c.op \notin {"lock", "unlock", "return"} /\ holding' = holding
         /\ pending' \in {pending, PendingAdd(m, next_req_id[m], f)}
<1>0. fib[f] \in Fiber /\ fib \in [Fibers -> Fiber] /\ fib[f].pc \in Nat
      /\ fib[f].async_outstanding \in Int
  BY FiberType DEF TypeInv, TypeOK
<1>1. CASE RequestAsync(m, f, c)
  <2>1. /\ c.op = "request_async" /\ holding' = holding
        /\ pending' = PendingAdd(m, next_req_id[m], f)
        /\ fib' = [fib EXCEPT ![f] = [Past(f) EXCEPT !.async_outstanding = @ + 1]]
    BY <1>1 DEF RequestAsync, lockVars
  <2>2. Past(f) = [fib[f] EXCEPT !.pc = fib[f].pc + 1] /\ Past(f) \in Fiber
    BY <1>0, PastType DEF Past, Fiber, TypeInv
  <2>3. Past(f).pc = fib[f].pc + 1 /\ Past(f).async_outstanding = fib[f].async_outstanding
    BY <1>0, <2>2 DEF Fiber
  <2>4. /\ fib'[f].async_outstanding = fib[f].async_outstanding + 1
        /\ fib'[f].pc = fib[f].pc + 1
    BY <1>0, <2>1, <2>2, <2>3 DEF Fiber
  <2> QED BY <2>1, <2>4
<1>2. CASE Request(m, f, c) \/ Send(m, f, c) \/ WaitTimeout(m, f, c)
  BY <1>2 DEF Request, Send, WaitTimeout, lockVars
<1>3. CASE NothingToCollect(m, f, c) \/ CollectQueued(m, f, c) \/ WaitForReply(m, f, c)
  BY <1>3 DEF NothingToCollect, CollectQueued, WaitForReply, Collects, lockVars
<1>4. CASE ReplyToModule(m, f, c) \/ ReplyToExternal(m, f, c)
  BY <1>4 DEF ReplyToModule, ReplyToExternal, lockVars
<1>5. CASE Lock(m, f, c) \/ Return(m, f, c)
  BY <1>5 DEF Lock, Return
<1>6. CASE Unlock(m, f, c)
  <2>1. /\ c.op = "unlock" /\ holding' = holding \ {f} /\ pending' = pending
        /\ fib' = [fib EXCEPT ![f] = Past(f)]
    BY <1>6 DEF Unlock
  <2>2. fib'[f].pc = fib[f].pc + 1
    BY <1>0, <2>1 DEF Past, Fiber
  <2> QED BY <2>1, <2>2
<1>7. CASE NotifyCalls(m, f, c)
  BY <1>7 DEF NotifyCalls, RegRefused, RegTest, RegWrap, RegRead, RegWrite, Registering,
              UnregNotify, UnregUnknown, NotifyOne, NotifyDone, Notifying, lockVars, Makes
<1> QED BY <1>1, <1>2, <1>3, <1>4, <1>5, <1>6, <1>7 DEF Calls

\* A fiber asks, takes and gives the lock back as its body says.
LEMMA CallFan ==
  ASSUME CollectsBeforeReturn, FansOutLocked, TypeInv, FiberInv, CollectInv, CalleeInv,
         NEW m \in Modules, NEW f \in Fibers, Running(m, f), NEW c \in NextCalls(m), c \in Call,
         Calls(m, f, c) \/ NotifyCalls(m, f, c), Uses(m, "lock"), FanHolds(m)
  PROVE  /\ fib'[f].async_outstanding > 0 => f \in holding'
         /\ ~fib'[f].done =>
              \A held \in HeldPlaces(Script[m][fib[f].fn]) : fib'[f].pc \in held => f \in holding'
<1> DEFINE body == Script[m][fib[f].fn]
           pc == fib[f].pc
           out == fib[f].async_outstanding
           out1 == fib'[f].async_outstanding
<1>1. /\ f \in Live(m) /\ fib[f].mod = m /\ ~fib[f].done
      /\ fib \in [Fibers -> Fiber] /\ out \in Nat /\ SleptOn(fib[f]) = 0
  <2>1. f \in Live(m) /\ RecordOk(f, fib[f], Mine(m, f), TRUE)
    BY Current
  <2>2. fib[f].mod = m
    BY <2>1 DEF CalleeInv, QueueAsked
  <2> QED BY <2>1, <2>2, OwedNat DEF RecordOk, TypeInv, TypeOK
<1>2. /\ Len(body) \in Nat /\ DOMAIN body = 1..Len(body) /\ fib[f].fn \in DOMAIN Script[m]
      /\ \A owed \in Ledgers(body) : owed \in [1..(Len(body) + 1) -> Nat] /\ out <= owed[pc]
      /\ (pc \in DOMAIN body /\ c \in body[pc]) \/ c.op = "return"
  <2>1. \A owed \in Ledgers(body) : out <= owed[pc] + SleptOn(fib[f])
    BY <1>1 DEF CollectInv, Collected
  <2>2. pc \in 1..(Len(body) + 1)
    BY <1>1 DEF CollectInv, Collected
  <2>3. /\ Len(body) \in Nat /\ DOMAIN body = 1..Len(body) /\ fib[f].fn \in DOMAIN Script[m]
        /\ \A owed \in Ledgers(body) : owed \in [1..(Len(body) + 1) -> Nat]
    BY <1>1, BodyLedgers
  <2>4. (pc \in DOMAIN body /\ c \in body[pc]) \/ c.op = "return"
    BY <1>1, CallAtPlace
  <2> QED BY <1>1, <2>1, <2>2, <2>3, <2>4
<1>3. PICK owed \in Ledgers(body), held \in HeldPlaces(body) :
        \A i \in DOMAIN owed : owed[i] > 0 => i \in held
  BY <1>2 DEF FansOutLocked
<1>4. /\ c.op = "request_async" \/ out1 <= out
      /\ c.op = "request_async" => out1 = out + 1 /\ fib'[f].pc = pc + 1
      /\ \/ c.op = "lock" /\ f \in holding'
         \/ c.op = "unlock" /\ fib'[f].pc = pc + 1
         \/ c.op = "return"
         \/ c.op \notin {"lock", "unlock", "return"} /\ holding' = holding
  BY CallCounts, CallHolding
<1>5. /\ c.op = "return" => fib'[f].done /\ out = 0
      /\ c.op # "return" => fib'[f].pc \in {pc, pc + 1}
  <2>1. \E r : fib' = [fib EXCEPT ![f] = r] /\ Onward(fib[f], r, c)
    BY CallMoves, NotifyMoves
  <2>2. c.op = "return" => out = 0
    BY <1>1, ReturnCollected
  <2> QED BY <1>1, <2>1, <2>2 DEF Onward
<1>6. out1 \in Int
  <2>1. fib'[f] \in Fiber
    <3>1. [Next]_vars
      BY DEF Running, Sequence, Thread, Next
    <3> QED BY <3>1, TypeStep DEF TypeInv, TypeOK
  <2> QED BY <2>1 DEF Fiber
<1>7. /\ out > 0 => f \in holding
      /\ \A h \in HeldPlaces(body) : pc \in h => f \in holding
  BY <1>1 DEF FanHolds
<1> HIDE DEF body, pc, out, out1
<1>8. ASSUME c.op # "return", NEW h \in HeldPlaces(body), pc + 1 \in h
      PROVE  c.op = "lock" \/ (pc \in h /\ c.op # "unlock")
  BY <1>2, <1>8 DEF HeldPlaces
<1>9. ASSUME c.op \in {"request_async", "unlock"}, out1 > 0
      PROVE  pc \in held /\ c.op # "unlock"
  <2>1. pc \in DOMAIN body /\ c \in body[pc] /\ c.op # "return"
    BY <1>2, <1>9
  <2>2. owed[pc] \in Nat /\ owed[pc + 1] \in Nat /\ pc + 1 \in DOMAIN owed /\ out <= owed[pc]
    BY <1>2, <1>3, <2>1
  <2>3. Leaves(c, owed[pc], owed[pc + 1])
    BY <1>3, <2>1 DEF Ledgers
  <2>4. owed[pc + 1] > 0
    BY <1>1, <1>4, <1>6, <1>9, <2>2, <2>3 DEF Leaves, out
  <2>5. pc + 1 \in held
    BY <1>3, <2>2, <2>4
  <2> QED BY <1>3, <1>8, <1>9, <2>1, <2>5
<1>10. out1 > 0 => f \in holding'
  <2>1. out \in Nat
    BY <1>1 DEF out
  <2>2. CASE c.op \in {"request_async", "unlock"}
    BY <1>3, <1>4, <1>7, <1>9, <2>2
  <2>3. CASE c.op = "return"
    BY <1>4, <1>5, <1>6, <2>3
  <2>4. CASE c.op \notin {"request_async", "unlock", "return"}
    <3>1. out1 > 0 => out > 0
      BY <1>4, <1>6, <2>1, <2>4
    <3> QED BY <1>4, <1>7, <2>4, <3>1
  <2> QED BY <2>2, <2>3, <2>4
<1>11. ASSUME ~fib'[f].done, NEW h \in HeldPlaces(body), fib'[f].pc \in h PROVE f \in holding'
  <2>1. c.op # "return" /\ fib'[f].pc \in {pc, pc + 1}
    BY <1>5, <1>11
  <2>2. c.op = "lock" \/ (pc \in h /\ c.op # "unlock")
    <3>1. CASE fib'[f].pc = pc + 1
      BY <1>8, <1>11, <2>1, <3>1
    <3>2. CASE fib'[f].pc = pc /\ c.op # "unlock"
      BY <1>11, <3>2
    <3> QED BY <1>4, <2>1, <3>1, <3>2
  <2> QED BY <1>4, <1>7, <2>1, <2>2
<1> QED BY <1>10, <1>11 DEF out1, body

\* A fiber that is owed nothing has no entry to wait for and no reply queued.
LEMMA OwedNothing ==
  ASSUME NEW f, NEW r, NEW mine, NEW running, RecordOk(f, r, mine, running),
         IsFiniteSet(mine), Len(r.rq) \in Nat, r.async_outstanding <= 0
  PROVE  Awaited(r, mine) = {} /\ "any" \notin r.waits /\ Len(r.rq) = 0
<1> DEFINE awaited == Awaited(r, mine)
<1>1. IsFiniteSet(awaited)
  BY FS_Subset DEF Awaited
<1>2. Cardinality(awaited) \in Nat
  BY <1>1, FS_CardinalityType
<1>3. r.async_outstanding = Cardinality(awaited) + Len(r.rq)
  BY DEF RecordOk
<1> HIDE DEF awaited
<1>4. Cardinality(awaited) = 0 /\ Len(r.rq) = 0
  BY <1>2, <1>3
<1>5. awaited = {}
  BY <1>1, <1>4, FS_EmptySet
<1> QED BY <1>4, <1>5 DEF RecordOk, awaited

\* Where nothing is deferred anew and no fiber leaves the request that a deferred reply
\* answers, but for one that is over.
LEMMA DeferredKept ==
  ASSUME NEW n \in Modules, FiberInv, DeferredOk(n), pending'[n] \subseteq pending[n],
         \A g : g \in holding' => g \in holding,
         \A i \in DOMAIN deferred'[n] : \E j \in DOMAIN deferred[n] : deferred'[n][i] = deferred[n][j],
         \A f \in Live(n) : Pending(fib[f].wait_req_id, f) \in pending'[n] /\ "reply" \in fib[f].waits
           => "reply" \in fib'[f].waits /\ fib'[f].wait_req_id = fib[f].wait_req_id
  PROVE  DeferredOk(n)'
<1> SUFFICES ASSUME NEW f \in Live(n)', NEW i \in DOMAIN deferred'[n],
                    deferred'[n][i].type = "REPLY",
                    Pending(deferred'[n][i].req_id, f) \in pending'[n]
             PROVE  /\ f \notin holding' /\ "reply" \in fib'[f].waits
                    /\ fib'[f].wait_req_id = deferred'[n][i].req_id
  BY DEF DeferredOk, AwaitedBy, AwaitsThis
<1>1. PICK j \in DOMAIN deferred[n] : deferred'[n][i] = deferred[n][j]
  OBVIOUS
<1> DEFINE e == deferred[n][j]
<1>2. Pending(e.req_id, f) \in pending'[n]
  BY <1>1
<1>3. f \in Live(n)
  <2>1. Pending(e.req_id, f) \in pending[n]
    BY <1>2
  <2> QED BY <2>1 DEF FiberInv, ThreadOk, PendingOk, Pending
<1>4. f \notin holding /\ AwaitsThis(f, e)
  <2>1. Pending(e.req_id, f) \in pending[n] /\ e.type = "REPLY"
    BY <1>1, <1>2
  <2> QED BY <1>3, <2>1 DEF DeferredOk, AwaitedBy
<1> QED BY <1>1, <1>2, <1>3, <1>4 DEF AwaitsThis

LEMMA SchedHolding ==
  ASSUME NEW m \in Modules, Sched(m) \/ SpuriousWake(m)
  PROVE  holding' = holding
  BY DEF Sched, Sleep, StartPass, SpuriousWake, TakeInbox, Stopped, EndPass, TimerFires,
         TimerHeldBack, Defer, StartSequence, StartHandler, StartRefused, NotifyRefused,
         ReplyUnknown, Dropped, ReplyEndsRequest, ReplyEndsWait, ReplyQueued, Reap, lockVars

\* The scheduler of m leaves the history of the locks; a fiber it goes on with is at the
\* place it was, owed no more.
LEMMA SchedFan ==
  ASSUME TypeInv, FiberInv, NEW m \in Modules, Sched(m) \/ SpuriousWake(m),
         NEW n \in Modules, FanHolds(n)
  PROVE  FanHolds(n)' /\ holding' = holding
<1>1. holding' = holding
  BY SchedHolding
<1>2. ASSUME NEW f \in Live(n)'
      PROVE  /\ fib'[f].async_outstanding > 0 => f \in holding
             /\ ~fib'[f].done => \A held \in HeldPlaces(Script[n][fib'[f].fn]) :
                                  fib'[f].pc \in held => f \in holding
  <2>1. CASE f \notin Live(n)
    BY <1>2, <2>1, SchedCounts DEF HeldPlaces
  <2>2. CASE f \in Live(n)
    <3>1. SamePlace(fib[f], fib'[f])
      BY <2>2, SchedMoves DEF SchedFibers
    <3>2. fib[f].async_outstanding \in Int /\ fib'[f].async_outstanding \in Int
      <4>1. f \in Fibers
        BY <2>2, RefersType DEF TypeInv, Refers
      <4>2. TypeInv'
        BY TypeStep DEF Next, Thread
      <4>3. fib[f] \in Fiber /\ fib'[f] \in Fiber
        BY <4>1, <4>2 DEF TypeInv, TypeOK
      <4> QED BY <4>3 DEF Fiber
    <3>3. fib'[f].async_outstanding <= fib[f].async_outstanding
      BY <1>2, <2>2, SchedCounts
    <3> QED BY <2>2, <3>1, <3>2, <3>3 DEF FanHolds, SamePlace
  <2> QED BY <2>1, <2>2
<1> QED BY <1>1, <1>2 DEF FanHolds

\* A reply is deferred only for a fiber without the lock, which is then owed nothing
\* and is inside the request the reply answers.
LEMMA DeferOne ==
  ASSUME TypeInv, FiberInv, LockInv, NEW m \in Modules, Defer(m), FanHolds(m), DeferredOk(m)
  PROVE  DeferredOk(m)'
<1> DEFINE e == Head(evs[m])
<1>1. /\ UNCHANGED <<fib, fibers, holding, pending>> /\ MustDefer(m, e)
      /\ deferred'[m] = Append(deferred[m], e) /\ deferred[m] \in Seq(Event) /\ e \in Event
  <2>1. evs[m] # <<>>
    BY DEF Defer, Handles
  <2> QED BY <2>1, HeadEvent DEF Defer, lockVars, TypeInv, TypeOK
<1>2. ASSUME NEW f \in Live(m), e.type = "REPLY", AwaitedBy(m, e, f)
      PROVE  f \notin holding /\ AwaitsThis(f, e)
  <2>1. f # locked_by[m]
    BY <1>1, <1>2 DEF MustDefer
  <2>2. f \notin holding
    BY <2>1 DEF LockInv, HolderOk
  <2>3. f \in Fibers /\ fib[f].async_outstanding \in Int /\ Len(fib[f].rq) \in Nat
    <3>1. f \in Fibers
      BY RefersType DEF TypeInv, Refers
    <3> QED BY <3>1, FiberType, LenProperties DEF TypeInv
  <2>4. fib[f].async_outstanding <= 0
    BY <2>2, <2>3 DEF FanHolds
  <2>5. RecordOk(f, fib[f], Mine(m, f), f = current[m]) /\ IsFiniteSet(Mine(m, f))
    BY FS_Subset DEF FiberInv, ThreadOk, FibersOk, PendingOk, Mine
  <2>6. Awaited(fib[f], Mine(m, f)) = {}
    BY <2>3, <2>4, <2>5, OwedNothing
  <2>7. Pending(e.req_id, f) \in Mine(m, f)
    BY <1>2 DEF AwaitedBy, Mine, Pending
  <2> HIDE DEF e
  <2>8. AwaitsThis(f, e)
    BY <2>6, <2>7 DEF Awaited, AwaitsThis, Pending
  <2> QED BY <2>2, <2>8
<1> HIDE DEF e
<1>3. ASSUME NEW i \in DOMAIN deferred'[m]
      PROVE  (i \in DOMAIN deferred[m] /\ deferred'[m][i] = deferred[m][i]) \/ deferred'[m][i] = e
  <2>1. /\ DOMAIN deferred'[m] = 1..(Len(deferred[m]) + 1) /\ Len(deferred[m]) \in Nat
        /\ DOMAIN deferred[m] = 1..Len(deferred[m])
        /\ \A k \in 1..Len(deferred[m]) : deferred'[m][k] = deferred[m][k]
        /\ deferred'[m][Len(deferred[m]) + 1] = e
    BY <1>1, AppendedSet
  <2>2. i \in 1..Len(deferred[m]) \/ i = Len(deferred[m]) + 1
    BY <1>3, <2>1
  <2> QED BY <2>1, <2>2
<1>4. Live(m)' = Live(m)
  BY <1>1 DEF Live
<1>5. ASSUME NEW f \in Live(m), NEW i \in DOMAIN deferred'[m],
             deferred'[m][i].type = "REPLY", AwaitedBy(m, deferred'[m][i], f)
      PROVE  f \notin holding /\ AwaitsThis(f, deferred'[m][i])
  BY <1>2, <1>3, <1>5 DEF DeferredOk
<1> QED BY <1>1, <1>4, <1>5 DEF DeferredOk, AwaitedBy, AwaitsThis

\* A record is in the same list after a step, or is what it was.
LEMMA StaysOrSame ==
  ASSUME TypeInv, FiberInv, [Next]_vars, NEW m \in Modules, NEW f \in Live(m)
  PROVE  f \in Live(m)' \/ fib'[f] = fib[f]
<1>1. CASE fib' = fib
  BY <1>1
<1>2. CASE fibers' = fibers
  BY <1>2 DEF Live
<1>3. ASSUME NEW n \in Modules, NEW g \in Fibers, StartSequence(n, g) \/ StartHandler(n, g)
      PROVE  f \in Live(m)'
  <2>1. fibers' = [fibers EXCEPT ![n] = <<g>> \o @] /\ fibers \in [Modules -> Seq(Fibers)]
    BY <1>3 DEF StartSequence, StartHandler, Launch, TypeInv, TypeOK
  <2> QED BY <2>1, ConsSeq DEF Live
<1>4. ASSUME NEW n \in Modules, Sched(n) \/ SpuriousWake(n)
      PROVE  f \in Live(m)' \/ fib'[f] = fib[f]
  <2>1. \/ fib' = fib \/ fibers' = fibers
        \/ \E g \in Fibers : StartSequence(n, g) \/ StartHandler(n, g)
    BY <1>4 DEF Sched, Sleep, StartPass, SpuriousWake, TakeInbox, Stopped, EndPass, TimerFires,
                TimerHeldBack, Defer, StartRefused, NotifyRefused, ReplyUnknown, Dropped,
                ReplyEndsRequest, ReplyEndsWait, ReplyQueued, Reap
  <2> QED BY <1>1, <1>2, <1>3, <2>1
<1>5. ASSUME NEW n \in Modules, Sequence(n) PROVE fibers' = fibers
  <2>1. current[n] \in Fibers /\ Running(n, current[n])
    BY <1>5, CallType, Current DEF Sequence, Running
  <2>2. PICK c \in NextCalls(n) :
          Calls(n, current[n], c) \/ NotifyCalls(n, current[n], c)
    BY <1>5 DEF Sequence
  <2> QED BY <2>1, <2>2, CallMoves, NotifyMoves
<1>6. \/ \E g \in Fibers : TimePasses(g)
      \/ \E c \in Clients : External(c)
      \/ BeginTeardown \/ FreeModules \/ (\E n \in Modules : StopModule(n)) \/ UNCHANGED vars
      => fib' = fib
  BY DEF TimePasses, External, RequestSync, ExtRequestAsync, SyncReturns, BeginTeardown,
         StopModule, FreeModules, vars
<1> QED BY <1>1, <1>2, <1>4, <1>5, <1>6 DEF Next, Thread, Owner

\* The scheduler of m: what it is done with leaves the table with its entry.
LEMMA SchedDeferred ==
  ASSUME TypeInv, FiberInv, LockInv, NEW m \in Modules, Sched(m) \/ SpuriousWake(m),
         NEW n \in Modules, FanHolds(n), DeferredOk(n)
  PROVE  DeferredOk(n)'
<1>0. /\ fib \in [Fibers -> Fiber] /\ deferred \in [Modules -> Seq(Event)]
      /\ pending \in [Modules -> SUBSET PendingEntry] /\ fibers \in [Modules -> Seq(Fibers)]
      /\ holding' = holding /\ PendingOk(n) /\ PendingOk(m)
      /\ \A f \in Live(m) \cap Live(n) : n = m
      /\ \A f \in Live(n) : f \in Fibers
  BY SchedFan, RefersType DEF TypeInv, TypeOK, FiberInv, ThreadOk, HeapOk, Refers
<1>1. ASSUME UNCHANGED <<fib, pending>>, deferred'[n] \in {deferred[n], <<>>}
      PROVE  DeferredOk(n)'
  BY <1>0, <1>1, DeferredKept
<1>2. CASE \/ Sleep(m) \/ StartPass(m) \/ SpuriousWake(m) \/ Stopped(m) \/ EndPass(m)
           \/ (\E f \in Fibers : TimerHeldBack(m, f))
           \/ StartRefused(m) \/ NotifyRefused(m) \/ ReplyUnknown(m)
           \/ (\E i \in DOMAIN fibers[m] : Reap(m, i))
  <2>1. UNCHANGED <<fib, pending>>
    BY <1>2 DEF Sleep, StartPass, SpuriousWake, TakeInbox, Stopped, EndPass, TimerHeldBack,
                StartRefused, NotifyRefused, ReplyUnknown, Dropped, Reap
  <2>2. deferred' = deferred \/ deferred' = [deferred EXCEPT ![m] = StillDeferred(m)]
    BY <1>2 DEF Sleep, StartPass, SpuriousWake, TakeInbox, Stopped, EndPass, TimerHeldBack,
                StartRefused, NotifyRefused, ReplyUnknown, Dropped, Reap
  <2>3. deferred'[n] \in {deferred[n], <<>>}
    BY <1>0, <2>2 DEF StillDeferred
  <2> QED BY <1>1, <2>1, <2>3
<1>3. CASE Defer(m)
  <2>1. CASE n = m
    BY <1>3, <2>1, DeferOne
  <2>2. CASE n # m
    BY <1>0, <1>1, <1>3, <2>2 DEF Defer
  <2> QED BY <2>1, <2>2
<1>4. ASSUME NEW f \in Fibers, TimerFires(m, f) PROVE DeferredOk(n)'
  <2>1. /\ f \in Live(m) /\ UNCHANGED <<fibers, deferred>> /\ pending' = PendingAfterTimer(m, f)
        /\ \E r : fib' = [fib EXCEPT ![f] = r]
    BY <1>4 DEF TimerFires, Resume, FiberInv, ThreadOk, SchedulerOk
  <2>2. /\ pending'[n] \subseteq pending[n] /\ \A g \in Fibers \ {f} : fib'[g] = fib[g]
        /\ "reply" \in fib[f].waits =>
             \A p \in pending'[m] : p.req_id # fib[f].wait_req_id
    BY <1>0, <2>1 DEF PendingAfterTimer, PendingTake
  <2>3. ASSUME NEW g \in Live(n), Pending(fib[g].wait_req_id, g) \in pending'[n],
               "reply" \in fib[g].waits
        PROVE  fib'[g] = fib[g]
    BY <1>0, <2>1, <2>2, <2>3 DEF Pending
  <2> QED BY <1>0, <2>1, <2>2, <2>3, DeferredKept
<1>5. ASSUME NEW f \in Fibers,
             ReplyEndsRequest(m, f) \/ ReplyEndsWait(m, f) \/ ReplyQueued(m, f)
      PROVE  DeferredOk(n)'
  <2> DEFINE e == Head(evs[m])
             x == [req_id |-> e.req_id, result |-> e.result]
             r3 == [fib[f] EXCEPT !.rq = Append(@, x)]
  <2>1. /\ UNCHANGED <<fibers, deferred>> /\ pending' = PendingTake(m, e.req_id)
        /\ AwaitedBy(m, e, f)
        /\ \E r : fib' = [fib EXCEPT ![f] = r]
        /\ AwaitsThis(f, e) \/ "any" \in fib[f].waits \/ fib' = [fib EXCEPT ![f] = r3]
    BY <1>5 DEF ReplyEndsRequest, ReplyEndsWait, ReplyQueued, Replied, Resume
  <2>2. f \in Live(m)
    BY <1>0, <2>1 DEF AwaitedBy, PendingOk, Pending
  <2>3. ~({"reply", "any"} \subseteq fib[f].waits)
    BY <2>2 DEF FiberInv, ThreadOk, FibersOk, RecordOk
  <2>4. r3.waits = fib[f].waits /\ r3.wait_req_id = fib[f].wait_req_id
    BY <1>0 DEF Fiber
  <2> HIDE DEF r3, x
  <2>5. /\ pending'[n] \subseteq pending[n] /\ \A g \in Fibers \ {f} : fib'[g] = fib[g]
        /\ \A p \in pending'[m] : p.req_id # e.req_id
    BY <1>0, <2>1 DEF PendingTake
  <2>6. ASSUME NEW g \in Live(n), Pending(fib[g].wait_req_id, g) \in pending'[n],
               "reply" \in fib[g].waits
        PROVE  "reply" \in fib'[g].waits /\ fib'[g].wait_req_id = fib[g].wait_req_id
    <3>1. CASE g # f
      BY <1>0, <2>5, <2>6, <3>1
    <3>2. CASE g = f
      <4>1. fib[f].wait_req_id # e.req_id
        BY <1>0, <2>2, <2>5, <2>6, <3>2 DEF Pending
      <4>2. fib' = [fib EXCEPT ![f] = r3]
        BY <2>1, <2>3, <2>6, <3>2, <4>1 DEF AwaitsThis
      <4> QED BY <1>0, <2>4, <2>6, <3>2, <4>2
    <3> QED BY <3>1, <3>2
  <2> QED BY <1>0, <2>1, <2>5, <2>6, DeferredKept
<1>6. ASSUME NEW f \in Fibers, StartSequence(m, f) \/ StartHandler(m, f)
      PROVE  DeferredOk(n)'
  <2>1. /\ f \in Unused /\ UNCHANGED <<pending, deferred>>
        /\ \E r : fib' = [fib EXCEPT ![f] = r]
    BY <1>6 DEF StartSequence, StartHandler, Launch, Resume
  <2>2. \A g \in Live(n) : fib'[g] = fib[g]
    BY <1>0, <2>1 DEF Unused
  <2> QED BY <1>0, <2>1, <2>2, DeferredKept
<1> QED BY <1>2, <1>3, <1>4, <1>5, <1>6 DEF Sched

\* A running fiber waits for nothing, so that no deferred reply is its own; the number
\* of the request it makes is that of no reply there is.
LEMMA CallDeferred ==
  ASSUME TypeInv, FiberInv, CalleeInv, NEW m \in Modules, NEW f \in Fibers, Running(m, f),
         NEW c \in Call, Calls(m, f, c) \/ NotifyCalls(m, f, c),
         NEW n \in Modules, DeferredOk(n)
  PROVE  DeferredOk(n)'
<1>1. /\ f \in Live(m) /\ fib[f].waits = {} /\ UNCHANGED <<fibers, deferred>>
      /\ \A g \in Fibers \ {f} : fib'[g] = fib[g]
  <2>1. fib \in [Fibers -> Fiber]
    BY DEF TypeInv, TypeOK
  <2> QED BY <2>1, Current, CallMoves, NotifyMoves, CallsChangeOne DEF RecordOk
<1>2. /\ \A g : g # f => (g \in holding' <=> g \in holding)
      /\ pending' \in {pending, PendingAdd(m, next_req_id[m], f)}
  BY CallHolding
<1>3. Live(n)' = Live(n) /\ Live(n) \subseteq Fibers
  BY <1>1, RefersType DEF Live, TypeInv, Refers
<1>4. ASSUME NEW g \in Live(n), NEW i \in DOMAIN deferred[n],
             deferred[n][i].type = "REPLY", Pending(deferred[n][i].req_id, g) \in pending'[n]
      PROVE  /\ g \notin holding' /\ "reply" \in fib'[g].waits
             /\ fib'[g].wait_req_id = deferred[n][i].req_id
  <2> DEFINE e == deferred[n][i]
  <2>1. Pending(e.req_id, g) \in pending[n]
    <3>1. /\ pending \in [Modules -> SUBSET PendingEntry] /\ e \in Event /\ e \in Held(n)
          /\ deferred[n] \in Seq(Event)
      BY <1>4 DEF TypeInv, TypeOK, Held, ToSet
    <3>2. e.requester \in Modules /\ e.req_id \in Int /\ e.result \in Argument
      BY <1>4, <3>1 DEF CalleeInv, Event
    <3>3. Serves(e.requester, n, e.req_id, e.result)
      BY <1>4, <3>1 DEF Serves
    <3>4. e.req_id < next_req_id[n]
      BY <3>2, <3>3 DEF CalleeInv
    <3> HIDE DEF e
    <3>5. e.req_id # next_req_id[n]
      BY <3>2, <3>4 DEF TypeInv, TypeOK
    <3>6. Pending(e.req_id, g) \in pending'[n]
      BY <1>4 DEF e
    <3> QED BY <1>2, <3>1, <3>5, <3>6 DEF PendingAdd, Pending
  <2>2. g \notin holding /\ AwaitsThis(g, e)
    BY <1>4, <2>1 DEF DeferredOk, AwaitedBy
  <2>3. g # f
    BY <1>1, <2>2 DEF AwaitsThis
  <2> QED BY <1>1, <1>2, <1>3, <2>2, <2>3 DEF AwaitsThis
<1> QED BY <1>1, <1>3, <1>4 DEF DeferredOk, AwaitedBy, AwaitsThis

LEMMA OrderStep ==
  ASSUME CollectsBeforeReturn, FansOutLocked, TypeInv, FiberInv, CollectInv, CalleeInv, LockInv,
         OrderInv, [Next]_vars
  PROVE  OrderInv'
<1>1. ASSUME NEW m \in Modules, Sched(m) \/ SpuriousWake(m) PROVE OrderInv'
  <2>1. ASSUME NEW n \in Modules, Uses(n, "lock") PROVE FanHolds(n)' /\ DeferredOk(n)'
    BY <1>1, <2>1, SchedFan, SchedDeferred DEF OrderInv
  <2>2. ASSUME NEW n \in Modules, ~Uses(n, "lock")
        PROVE  locked_by'[n] = NoFiber /\ deferred'[n] = <<>>
    BY <1>1, <2>2, SchedCounts DEF OrderInv
  <2> QED BY <2>1, <2>2 DEF OrderInv
<1>2. ASSUME NEW m \in Modules, Sequence(m) PROVE OrderInv'
  <2> DEFINE f == current[m]
  <2>1. f \in Fibers /\ Running(m, f) /\ f \in Live(m)
    BY <1>2, CallType, Current DEF Sequence, Running
  <2>2. PICK c \in NextCalls(m) : c \in Call /\ (Calls(m, f, c) \/ NotifyCalls(m, f, c))
    BY <1>2, CallType DEF Sequence
  <2>3. c.op = "lock" => Uses(m, "lock")
    <3>1. /\ \/ /\ fib[f].pc \in DOMAIN Script[fib[f].mod][fib[f].fn]
                /\ c \in Script[fib[f].mod][fib[f].fn][fib[f].pc]
             \/ c.op = "return"
          /\ fib[f].fn \in DOMAIN Script[fib[f].mod]
      BY <2>1, <2>2, CallAtPlace, BodyLedgers
    <3>2. fib[f].mod = m
      BY <2>1 DEF CalleeInv, QueueAsked
    <3> QED BY <3>1, <3>2 DEF Uses
  <2> HIDE DEF f
  <2>4. /\ UNCHANGED <<fibers, deferred>> /\ \A g \in Fibers \ {f} : fib'[g] = fib[g]
        /\ fib'[f].fn = fib[f].fn
        /\ \A g : g # f => (g \in holding' <=> g \in holding)
        /\ c.op # "lock" => \A n \in Modules : locked_by[n] = NoFiber => locked_by'[n] = NoFiber
        /\ \A n \in Modules \ {m} : locked_by'[n] = locked_by[n]
        /\ \A n \in Modules : Live(n)' = Live(n) /\ Live(n) \subseteq Fibers
    <3>1. fib \in [Fibers -> Fiber]
      BY DEF TypeInv, TypeOK
    <3>2. /\ UNCHANGED <<fibers, deferred>> /\ \A g \in Fibers \ {f} : fib'[g] = fib[g]
          /\ fib'[f].fn = fib[f].fn
      BY <2>1, <2>2, <3>1, CallMoves, NotifyMoves, CallsChangeOne, CallKeeps
    <3>3. /\ \A g : g # f => (g \in holding' <=> g \in holding)
          /\ c.op # "lock" => \A n \in Modules : locked_by[n] = NoFiber => locked_by'[n] = NoFiber
          /\ \A n \in Modules \ {m} : locked_by'[n] = locked_by[n]
      BY <2>1, <2>2, CallCounts, CallHolding
    <3> QED BY <3>2, <3>3, RefersType DEF Live, TypeInv, Refers
  <2>5. ASSUME NEW n \in Modules, Uses(n, "lock") PROVE FanHolds(n)'
    <3>0. FanHolds(n)
      BY <2>5 DEF OrderInv
    <3>1. ASSUME n = m
          PROVE  /\ fib'[f].async_outstanding > 0 => f \in holding'
                 /\ ~fib'[f].done => \A held \in HeldPlaces(Script[n][fib[f].fn]) :
                                      fib'[f].pc \in held => f \in holding'
      BY <2>1, <2>2, <2>5, <3>0, <3>1, CallFan
    <3>2. f \in Live(n) => n = m
      BY <2>1 DEF FiberInv, HeapOk
    <3>3. ASSUME NEW g \in Live(n)
          PROVE  /\ fib'[g].async_outstanding > 0 => g \in holding'
                 /\ ~fib'[g].done => \A held \in HeldPlaces(Script[n][fib'[g].fn]) :
                                      fib'[g].pc \in held => g \in holding'
      <4>1. CASE g = f
        BY <2>4, <3>1, <3>2, <3>3, <4>1
      <4>2. CASE g # f
        BY <2>4, <3>0, <3>3, <4>2 DEF FanHolds
      <4> QED BY <4>1, <4>2
    <3> QED BY <2>4, <3>3 DEF FanHolds
  <2>6. ASSUME NEW n \in Modules, Uses(n, "lock") PROVE DeferredOk(n)'
    BY <2>1, <2>2, <2>6, CallDeferred DEF OrderInv
  <2>7. ASSUME NEW n \in Modules, ~Uses(n, "lock")
        PROVE  locked_by'[n] = NoFiber /\ deferred'[n] = <<>>
    BY <2>3, <2>4, <2>7 DEF OrderInv
  <2> QED BY <2>5, <2>6, <2>7 DEF OrderInv
<1>3. UNCHANGED <<fib, fibers, holding, locked_by, pending, deferred>> => OrderInv'
  BY DEF OrderInv, FanHolds, DeferredOk, AwaitedBy, AwaitsThis, Live
<1>4. \/ \E f \in Fibers : TimePasses(f)
      \/ \E c \in Clients : External(c)
      \/ BeginTeardown \/ (\E m \in Modules : StopModule(m)) \/ UNCHANGED vars
      => UNCHANGED <<fib, fibers, holding, locked_by, pending, deferred>>
  BY DEF TimePasses, External, RequestSync, ExtRequestAsync, SyncReturns, BeginTeardown,
         StopModule, vars, schedVars, lockVars
<1>5. FreeModules => OrderInv'
  <2>1. ASSUME FreeModules, NEW m \in Modules
        PROVE  Live(m)' = {} /\ deferred'[m] = <<>> /\ locked_by'[m] = locked_by[m]
    BY <2>1 DEF FreeModules, Live, ToSet, lockVars
  <2> QED BY <2>1 DEF OrderInv, FanHolds, DeferredOk
<1> QED BY <1>1, <1>2, <1>3, <1>4, <1>5 DEF Next, Thread, Owner

\* What CollectsInArrivalOrder says of one step.
ArrivalStep ==
  \A m \in Modules : \A f \in Live(m) : ReachedByReply(f) => ~DeferredReplyFor(m, f)

\* A fiber that waits takes no lock.
LEMMA WaitersDoNotLock ==
  ASSUME TypeInv, FiberInv, [Next]_vars, NEW m \in Modules, NEW f \in Live(m),
         fib[f].waits # {}, f \notin holding
  PROVE  f \notin holding'
<1>1. ASSUME NEW n \in Modules, Sequence(n) PROVE f \notin holding'
  <2>1. current[n] \in Fibers /\ Running(n, current[n])
    BY <1>1, CallType DEF Sequence, Running
  <2>2. PICK c \in NextCalls(n) :
          c \in Call /\ (Calls(n, current[n], c) \/ NotifyCalls(n, current[n], c))
    BY <1>1, CallType DEF Sequence
  <2>3. f # current[n]
    BY <2>1, Current DEF RecordOk
  <2> QED BY <2>1, <2>2, <2>3, CallHolding
<1>2. ASSUME NEW n \in Modules, Sched(n) \/ SpuriousWake(n) PROVE holding' = holding
  BY <1>2, SchedHolding
<1>3. \/ \E g \in Fibers : TimePasses(g)
      \/ \E c \in Clients : External(c)
      \/ Owner \/ UNCHANGED vars
      => holding' = holding
  BY DEF TimePasses, External, RequestSync, ExtRequestAsync, SyncReturns, Owner, BeginTeardown,
         StopModule, FreeModules, vars, lockVars
<1> QED BY <1>1, <1>2, <1>3 DEF Next, Thread

LEMMA ArrivalFollows ==
  ASSUME TypeInv, FiberInv, OrderInv, TypeInv', FiberInv', OrderInv', [Next]_vars
  PROVE  ArrivalStep
<1> SUFFICES ASSUME NEW m \in Modules, NEW f \in Live(m), DeferredReplyFor(m, f)
             PROVE  ~ReachedByReply(f)
  BY DEF ArrivalStep
<1>1. /\ Uses(m, "lock") /\ f \notin holding /\ "reply" \in fib[f].waits
  BY DEF DeferredReplyFor, OrderInv, DeferredOk, AwaitsThis
<1>2. f \notin holding'
  BY <1>1, WaitersDoNotLock
<1>3. f \in Fibers /\ fib[f] \in Fiber /\ fib'[f] \in Fiber
  BY RefersType DEF TypeInv, TypeOK, Refers
<1>4. /\ fib[f].async_outstanding \in Int /\ Len(fib[f].rq) \in Nat
      /\ fib'[f].async_outstanding \in Int /\ Len(fib'[f].rq) \in Nat
  BY <1>3, LenProperties DEF Fiber
<1>5. "any" \notin fib[f].waits /\ Len(fib[f].rq) = 0
  <2>1. RecordOk(f, fib[f], Mine(m, f), f = current[m]) /\ IsFiniteSet(Mine(m, f))
    BY FS_Subset DEF FiberInv, ThreadOk, FibersOk, PendingOk, Mine
  <2>2. fib[f].async_outstanding <= 0
    BY <1>1, <1>4 DEF OrderInv, FanHolds
  <2> QED BY <1>4, <2>1, <2>2, OwedNothing
<1>6. Len(fib'[f].rq) = 0
  <2>1. CASE fib'[f] = fib[f]
    BY <1>5, <2>1
  <2>2. CASE f \in Live(m)'
    <3>1. fib'[f].async_outstanding <= 0
      BY <1>1, <1>2, <1>4, <2>2 DEF OrderInv, FanHolds
    <3>2. RecordOk(f, fib'[f], Mine(m, f)', f = current'[m]) /\ IsFiniteSet(Mine(m, f)')
      BY <2>2, FS_Subset DEF FiberInv, ThreadOk, FibersOk, PendingOk, Mine
    <3> QED BY <1>4, <3>1, <3>2, OwedNothing
  <2> QED BY <2>1, <2>2, StaysOrSame
<1> QED BY <1>5, <1>6 DEF ReachedByReply

\* coseq_wait_reply and coseq_gather hand out the replies in the order they arrived, in a
\* program whose handlers do not lock and whose sequences, in a module that is ever
\* locked, fan out with the lock held until the last reply is collected.  The lock
\* then holds back no reply but those for sequences asleep in a request; the run
\* arrival_order has a sequence that fans out while another locks.
THEOREM ArrivalOrderIsKept ==
  CollectsBeforeReturn /\ HandlersDoNotLock /\ FansOutLocked => (Spec => CollectsInArrivalOrder)
<1> SUFFICES ASSUME CollectsBeforeReturn, HandlersDoNotLock, FansOutLocked
             PROVE  Spec => CollectsInArrivalOrder
  OBVIOUS
<1>1. Init => OrderInv
  BY DEF Init, OrderInv, FanHolds, DeferredOk, Live, ToSet
<1>2. Init => CalleeInv
  <2>1. ASSUME Init PROVE \A m \in Modules : Held(m) = {} /\ Live(m) = {}
    BY <2>1 DEF Init, Held, Live, ToSet
  <2> QED BY <2>1 DEF CalleeInv, Serves
<1>3. TypeInv /\ FiberInv /\ CollectInv /\ CalleeInv /\ [Next]_vars => CalleeInv'
  BY CalleeStep
<1>4. TypeInv /\ FiberInv /\ LockInv /\ [Next]_vars => LockInv'
  BY LockStep
<1>5. TypeInv /\ FiberInv /\ CollectInv /\ CalleeInv /\ LockInv /\ OrderInv /\ [Next]_vars
        => OrderInv'
  BY OrderStep
<1>6. /\ TypeInv /\ FiberInv /\ OrderInv /\ TypeInv' /\ FiberInv' /\ OrderInv' /\ [Next]_vars
      => ArrivalStep
  BY ArrivalFollows
<1>7. CollectsInArrivalOrder <=> [][ArrivalStep]_vars
  BY DEF CollectsInArrivalOrder, ArrivalStep
<1> QED BY <1>1, <1>2, <1>3, <1>4, <1>5, <1>6, <1>7, LockInit, FiberInvariant, PTL DEF Spec
=============================================================================
