------------------------- MODULE CoseqNotifyProofs -------------------------
(***************************************************************************)
(* What publish/subscribe promises.  The client id next_client_id gives    *)
(* out is never the sentinel when one module only registers listeners; a   *)
(* module that asked to be taken off the list of another gets no           *)
(* notification behind the reply that confirms it.                         *)
(***************************************************************************)
EXTENDS CoseqFiberProofs

-----------------------------------------------------------------------------
(* What a step does to the records of the fibers *)

\* The fields of a record the scheduler never changes.
SamePlace(r, s) ==
  /\ s.mod = r.mod /\ s.fn = r.fn /\ s.pc = r.pc /\ s.done = r.done
  /\ s.reply_to = r.reply_to /\ s.reply_req_id = r.reply_req_id /\ s.reg = r.reg

\* A record with the address for replies that the START at the head of the batch of m
\* gave, or none.
Answerable(m, r) ==
  \/ r.reply_to = EXTERNAL
  \/ LET e == Head(evs[m]) IN
     /\ evs[m] # <<>> /\ e.type = "START"
     /\ r.reply_to = e.requester /\ r.reply_req_id = e.req_id /\ r.fn = e.seq

\* The records the scheduler of m leaves: what it frees has returned, and what it
\* launches is its own, in no call, and replies to who started it.
SchedFibers(m) ==
  /\ \A n \in Modules : \A f \in Live(n) :
       SamePlace(fib[f], fib'[f]) /\ (f \in Live(n)' \/ fib[f].done)
  /\ \A n \in Modules : \A f \in Live(n)' \ Live(n) :
       /\ n = m /\ fib'[f].mod = m /\ fib'[f].reg = NotReg /\ fib'[f].rq = <<>>
       /\ Answerable(m, fib'[f])
  /\ \A n \in Modules \ {m} : current'[n] = current[n]
  /\ current[m] = NoFiber

LEMMA SchedMoves ==
  ASSUME TypeInv, FiberInv, NEW m \in Modules, Sched(m) \/ SpuriousWake(m)
  PROVE  SchedFibers(m) /\ UNCHANGED <<notify_clients, next_client_id, nr_module, stop>>
<1>0. /\ fib \in [Fibers -> Fiber] /\ fibers \in [Modules -> Seq(Fibers)]
      /\ current \in [Modules -> Fibers \cup {NoFiber}]
      /\ \A n \in Modules : Live(n) \subseteq Fibers
  BY RefersType DEF TypeInv, TypeOK, Refers
<1>1. loop[m] # "run" => current[m] = NoFiber
  BY DEF FiberInv, ThreadOk, SchedulerOk
<1>2. CASE \/ Sleep(m) \/ StartPass(m) \/ SpuriousWake(m) \/ Stopped(m) \/ EndPass(m)
           \/ (\E f \in Fibers : TimerHeldBack(m, f))
           \/ Defer(m) \/ StartRefused(m) \/ NotifyRefused(m) \/ ReplyUnknown(m)
  <2>1. /\ UNCHANGED <<fib, fibers, current, notify_clients, next_client_id, nr_module, stop>>
        /\ current[m] = NoFiber
    BY <1>1, <1>2 DEF Sleep, StartPass, SpuriousWake, TakeInbox, Stopped, SeesStop, EndPass,
       PassOver, TimerHeldBack, Defer, StartRefused, NotifyRefused, ReplyUnknown, Dropped,
       Handles, Scheduling, notifyVars, instVars
  <2> QED BY <2>1 DEF SchedFibers, SamePlace, Live
<1>3. ASSUME NEW i \in DOMAIN fibers[m], Reap(m, i)
      PROVE  SchedFibers(m) /\ UNCHANGED <<notify_clients, next_client_id, nr_module, stop>>
  <2>1. /\ fib' = fib /\ fibers' = [fibers EXCEPT ![m] = RemoveAt(fibers[m], i)]
        /\ fib[fibers[m][i]].done /\ current[m] = NoFiber
        /\ UNCHANGED <<current, notify_clients, next_client_id, nr_module, stop>>
    BY <1>0, <1>3 DEF Reap, PassOver, Scheduling, notifyVars, instVars
  <2>2. /\ Live(m)' \subseteq Live(m) /\ Live(m) \ {fibers[m][i]} \subseteq Live(m)'
        /\ \A n \in Modules \ {m} : Live(n)' = Live(n)
    BY <1>0, <2>1, RemoveKeepsOthers DEF Live
  <2> QED BY <2>1, <2>2 DEF SchedFibers, SamePlace
<1>4. ASSUME NEW f \in Fibers, NEW r, SamePlace(fib[f], r), fib' = [fib EXCEPT ![f] = r],
             fibers' = fibers, \A n \in Modules \ {m} : current'[n] = current[n],
             current[m] = NoFiber
      PROVE  SchedFibers(m)
  <2>1. \A g \in Fibers : SamePlace(fib[g], fib'[g])
    BY <1>0, <1>4 DEF SamePlace
  <2>2. \A n \in Modules : Live(n)' = Live(n)
    BY <1>4 DEF Live
  <2> QED BY <1>0, <1>4, <2>1, <2>2 DEF SchedFibers
<1>5. ASSUME NEW f \in Fibers, TimerFires(m, f)
      PROVE  SchedFibers(m) /\ UNCHANGED <<notify_clients, next_client_id, nr_module, stop>>
  <2> DEFINE r == [AfterTimer(f) EXCEPT !.waits = {}]
  <2>1. /\ fib' = [fib EXCEPT ![f] = r] /\ fibers' = fibers /\ current[m] = NoFiber
        /\ current' = [current EXCEPT ![m] = f]
        /\ UNCHANGED <<notify_clients, next_client_id, nr_module, stop>>
    BY <1>5 DEF TimerFires, Scheduling, Resume, notifyVars, instVars
  <2>2. SamePlace(fib[f], r)
    BY <1>0 DEF SamePlace, AfterTimer, Fiber
  <2> HIDE DEF r
  <2> QED BY <1>0, <1>4, <2>1, <2>2
<1>6. ASSUME NEW f \in Fibers,
             ReplyEndsRequest(m, f) \/ ReplyEndsWait(m, f) \/ ReplyQueued(m, f)
      PROVE  SchedFibers(m) /\ UNCHANGED <<notify_clients, next_client_id, nr_module, stop>>
  <2> DEFINE e == Head(evs[m])
             x == [req_id |-> e.req_id, result |-> e.result]
             r1 == [[fib[f] EXCEPT !.src = ReplySrc(e)] EXCEPT !.waits = {}]
             r2 == [[fib[f] EXCEPT !.src = ReplySrc(e), !.async_outstanding = @ - 1]
                      EXCEPT !.waits = {}]
             r3 == [fib[f] EXCEPT !.rq = Append(@, x)]
  <2>1. /\ fibers' = fibers /\ current[m] = NoFiber
        /\ current' = [current EXCEPT ![m] = f] \/ current' = current
        /\ UNCHANGED <<notify_clients, next_client_id, nr_module, stop>>
    BY <1>6 DEF ReplyEndsRequest, ReplyEndsWait, ReplyQueued, Replied, Handles, Scheduling,
                Resume, notifyVars, instVars
  <2>2. \/ fib' = [fib EXCEPT ![f] = r1] \/ fib' = [fib EXCEPT ![f] = r2]
        \/ fib' = [fib EXCEPT ![f] = r3]
    BY <1>6 DEF ReplyEndsRequest, ReplyEndsWait, ReplyQueued, Resume
  <2>3. SamePlace(fib[f], r1) /\ SamePlace(fib[f], r2) /\ SamePlace(fib[f], r3)
    BY <1>0 DEF SamePlace, Fiber
  <2>4. \A n \in Modules \ {m} : current'[n] = current[n]
    BY <1>0, <2>1
  <2> HIDE DEF r1, r2, r3
  <2> QED BY <1>0, <1>4, <2>1, <2>2, <2>3, <2>4
<1>7. ASSUME NEW f \in Fibers, StartSequence(m, f) \/ StartHandler(m, f)
      PROVE  SchedFibers(m) /\ UNCHANGED <<notify_clients, next_client_id, nr_module, stop>>
  <2> DEFINE e == Head(evs[m])
             q1 == [FreshFiber(m, e.seq, e.requester, e.req_id,
                               Src("IGNORE", e.requester, 0, e.req_id)) EXCEPT !.waits = {}]
             q2 == [FreshFiber(m, "recv_notify", EXTERNAL, 0,
                               Src("SUCCESS", e.requester, e.client_id, 0)) EXCEPT !.waits = {}]
  <2>1. \E r : /\ fib' = [fib EXCEPT ![f] = r] /\ r.mod = m /\ r.reg = NotReg
               /\ r.rq = <<>> /\ Answerable(m, r)
    <3>1. \/ fib' = [fib EXCEPT ![f] = q1] /\ evs[m] # <<>> /\ e.type = "START"
          \/ fib' = [fib EXCEPT ![f] = q2]
      BY <1>7 DEF StartSequence, StartHandler, Launch, Resume, Handles
    <3>2. /\ q1.mod = m /\ q1.reg = NotReg /\ q2.mod = m /\ q2.reg = NotReg
          /\ q1.reply_to = e.requester /\ q1.reply_req_id = e.req_id /\ q2.reply_to = EXTERNAL
          /\ q1.fn = e.seq /\ q1.rq = <<>> /\ q2.rq = <<>>
      BY DEF FreshFiber
    <3> HIDE DEF q1, q2
    <3> QED BY <3>1, <3>2 DEF Answerable
  <2>2. /\ fibers' = [fibers EXCEPT ![m] = <<f>> \o @] /\ f \in Unused
        /\ current' = [current EXCEPT ![m] = f] /\ current[m] = NoFiber
        /\ UNCHANGED <<notify_clients, next_client_id, nr_module, stop>>
    BY <1>7 DEF StartSequence, StartHandler, Launch, Resume, Handles, Scheduling, notifyVars,
                instVars
  <2>3. Live(m)' = Live(m) \cup {f} /\ \A n \in Modules \ {m} : Live(n)' = Live(n)
    BY <1>0, <2>2, ConsSeq DEF Live
  <2>4. \A n \in Modules : f \notin Live(n)
    BY <2>2 DEF Unused
  <2>5. /\ fib'[f].mod = m /\ fib'[f].reg = NotReg /\ fib'[f].rq = <<>> /\ Answerable(m, fib'[f])
        /\ \A g \in Fibers \ {f} : fib'[g] = fib[g]
    BY <1>0, <2>1
  <2> QED BY <1>0, <2>2, <2>3, <2>4, <2>5 DEF SchedFibers, SamePlace
<1> QED BY <1>2, <1>3, <1>5, <1>6, <1>7 DEF Sched

-----------------------------------------------------------------------------
(* The sentinel *)

\* Only the fiber its module is in can be inside coseq_reg_notify; between its two
\* reads of next_client_id the value stays what the test left, and until its write what
\* it has read.
RegInv ==
  /\ SentinelNeverGiven
  /\ \A m \in Modules : \A f \in Live(m) :
       /\ fib[f].mod = m
       /\ fib[f].reg # NotReg => f = current[m] /\ Registers(m)
       /\ fib[f].reg = Tested => next_client_id # Unregistered
       /\ fib[f].reg \in ClientId => fib[f].reg = next_client_id
       /\ fib[f].reg # Unregistered

\* The values of reg that stand for no id are not the sentinel, nor is the first id.
LEMMA Sentinels ==
  /\ {NotReg, Tested, Wraps} \cap (ClientId \cup {Unregistered}) = {}
  /\ NotReg # Tested /\ Wraps # Tested /\ 0 # Unregistered
  BY ClientIdAssumption DEF NotReg, Tested, Wraps, Unregistered, ClientId

\* A step of the scheduler ...
LEMMA RegSched ==
  ASSUME TypeInv, FiberInv, RegInv, NEW m \in Modules, Sched(m) \/ SpuriousWake(m)
  PROVE  RegInv'
<1>1. SchedFibers(m) /\ UNCHANGED <<notify_clients, next_client_id>>
  BY SchedMoves
<1>2. SentinelNeverGiven'
  BY <1>1 DEF RegInv, SentinelNeverGiven
<1>3. ASSUME NEW n \in Modules, NEW f \in Live(n)'
      PROVE  /\ fib'[f].mod = n
             /\ fib'[f].reg # NotReg => f = current'[n] /\ Registers(n)
             /\ fib'[f].reg = Tested => next_client_id' # Unregistered
             /\ fib'[f].reg \in ClientId => fib'[f].reg = next_client_id'
             /\ fib'[f].reg # Unregistered
  <2>1. CASE f \notin Live(n)
    BY <1>1, <1>3, <2>1, Sentinels DEF SchedFibers
  <2>2. CASE f \in Live(n)
    <3>1. f \in Fibers /\ NoFiber \notin Fibers
      BY <2>2, RefersType, FibersAssumption DEF TypeInv, Refers
    <3>2. fib'[f].mod = fib[f].mod /\ fib'[f].reg = fib[f].reg
      BY <1>1, <2>2 DEF SchedFibers, SamePlace
    <3>3. n = m => fib[f].reg = NotReg
      BY <1>1, <2>2, <3>1 DEF RegInv, SchedFibers
    <3>4. n # m => current'[n] = current[n]
      BY <1>1 DEF SchedFibers
    <3> QED BY <1>1, <2>2, <3>2, <3>3, <3>4, Sentinels DEF RegInv
  <2> QED BY <2>1, <2>2
<1> QED BY <1>2, <1>3 DEF RegInv

\* ... a call: the record of the running fiber becomes r, the others stay.
LEMMA RegCall ==
  ASSUME TypeInv, FiberInv, RegInv, NEW m \in Modules, NEW f \in Fibers, Running(m, f),
         NEW r, fib' = [fib EXCEPT ![f] = r], fibers' = fibers,
         current' = current \/ (Yield(m) /\ r.reg = NotReg),
         SentinelNeverGiven', r.mod = fib[f].mod,
         r.reg # NotReg => Registers(m),
         r.reg = Tested => next_client_id' # Unregistered, r.reg # Unregistered,
         r.reg \in ClientId => r.reg = next_client_id',
         next_client_id' # next_client_id => OnePublisher /\ Registers(m)
  PROVE  RegInv'
<1>0. fib \in [Fibers -> Fiber] /\ current \in [Modules -> Fibers \cup {NoFiber}]
  BY DEF TypeInv, TypeOK
<1>1. ASSUME NEW n \in Modules, NEW g \in Live(n)'
      PROVE  /\ fib'[g].mod = n
             /\ fib'[g].reg # NotReg => g = current'[n] /\ Registers(n)
             /\ fib'[g].reg = Tested => next_client_id' # Unregistered
             /\ fib'[g].reg \in ClientId => fib'[g].reg = next_client_id'
             /\ fib'[g].reg # Unregistered
  <2>1. g \in Live(n) /\ g \in Fibers /\ f \in Live(m) /\ f = current[m]
    BY <1>1, RefersType, Current DEF TypeInv, Refers, Live
  <2>2. CASE g = f
    <3>1. n = m
      BY <2>1, <2>2 DEF RegInv
    <3>2. fib'[g] = r
      BY <1>0, <2>1, <2>2
    <3> QED BY <1>0, <2>1, <2>2, <3>1, <3>2 DEF RegInv, Yield
  <2>3. CASE g # f
    <3>1. fib'[g] = fib[g]
      BY <2>3
    <3>2. fib[g].reg # NotReg => n # m /\ g = current[n] /\ Registers(n)
      BY <2>1, <2>3 DEF RegInv
    <3>3. n # m => current'[n] = current[n]
      BY <1>0 DEF Yield
    <3>4. fib[g].reg # NotReg => next_client_id' = next_client_id
      BY <3>2, Sentinels DEF OnePublisher
    <3> QED BY <2>1, <3>1, <3>2, <3>3, <3>4, Sentinels DEF RegInv
  <2> QED BY <2>2, <2>3
<1> QED BY <1>1 DEF RegInv

\* What a call of the sequence f runs does to the record of f: it goes on, or it
\* has returned; it may take the first answer queued.
TakesFirst(r, s) == r.rq # <<>> /\ s.rq = Tail(r.rq) /\ s.src.result = Head(r.rq).result
Onward(r, s, c) ==
  /\ s.mod = r.mod /\ s.fn = r.fn
  /\ s.reply_to = r.reply_to /\ s.reply_req_id = r.reply_req_id
  /\ s.rq = r.rq \/ TakesFirst(r, s)
  /\ \/ c.op # "return" /\ s.done = r.done /\ s.pc \in {r.pc, r.pc + 1}
     \/ c.op = "return" /\ s.done /\ s.pc = r.pc

LEMMA CallMoves ==
  ASSUME TypeInv, NEW m \in Modules, NEW f \in Fibers, NEW c, Calls(m, f, c)
  PROVE  /\ \E r : /\ fib' = [fib EXCEPT ![f] = r]
                   /\ Onward(fib[f], r, c) /\ r.reg = NotReg
         /\ UNCHANGED <<fibers, notify_clients, next_client_id, nr_module, stop, loop, evs,
                        deferred>>
         /\ current' = current \/ Yield(m)
<1>0. fib[f] \in Fiber
  BY FiberType DEF TypeInv
<1>1. /\ UNCHANGED <<fibers, notify_clients, next_client_id, nr_module, stop, loop, evs,
                     deferred>>
      /\ current' = current \/ Yield(m)
      /\ fib[f].reg = NotReg
  BY DEF Calls, Makes, Collects, Request, RequestAsync, Send, NothingToCollect, CollectQueued,
         WaitForReply, ReplyToModule, ReplyToExternal, WaitTimeout, Lock, Unlock, Return,
         schedVars, notifyVars, instVars
<1>2. ASSUME NEW r, fib' = [fib EXCEPT ![f] = r], r.mod = fib[f].mod, r.fn = fib[f].fn,
             r.reply_to = fib[f].reply_to, r.reply_req_id = fib[f].reply_req_id /\ r.rq = fib[f].rq,
             r.reg = fib[f].reg, r.done = fib[f].done,
             r.pc = fib[f].pc \/ r.pc = fib[f].pc + 1, c.op # "return"
      PROVE  \E s : fib' = [fib EXCEPT ![f] = s] /\ Onward(fib[f], s, c) /\ s.reg = NotReg
  BY <1>1, <1>2 DEF Onward
<1>3. CASE \/ Send(m, f, c) \/ NothingToCollect(m, f, c) \/ ReplyToModule(m, f, c)
           \/ ReplyToExternal(m, f, c) \/ Lock(m, f, c) \/ Unlock(m, f, c)
  <2> DEFINE r == Past(f)
  <2>1. fib' = [fib EXCEPT ![f] = r] /\ c.op # "return"
    BY <1>3 DEF Send, NothingToCollect, ReplyToModule, ReplyToExternal, Lock, Unlock, Collects
  <2>2. /\ r.mod = fib[f].mod /\ r.fn = fib[f].fn /\ r.reply_to = fib[f].reply_to
        /\ r.reply_req_id = fib[f].reply_req_id /\ r.rq = fib[f].rq
        /\ r.reg = fib[f].reg /\ r.done = fib[f].done /\ r.pc = fib[f].pc + 1
    BY <1>0 DEF Past, Fiber
  <2> HIDE DEF r
  <2> QED BY <1>1, <1>2, <2>1, <2>2
<1>4. CASE Request(m, f, c) \/ RequestAsync(m, f, c) \/ WaitTimeout(m, f, c)
  <2> DEFINE r1 == [Past(f) EXCEPT !.wait_req_id = next_req_id[m], !.waits = @ \cup RequestFlags(c)]
             r2 == [Past(f) EXCEPT !.async_outstanding = @ + 1]
             r3 == [Past(f) EXCEPT !.waits = @ \cup {"timer"}]
  <2>1. /\ fib' \in {[fib EXCEPT ![f] = r1], [fib EXCEPT ![f] = r2], [fib EXCEPT ![f] = r3]}
        /\ c.op # "return"
    BY <1>4 DEF Request, RequestAsync, WaitTimeout
  <2>2. \A r \in {r1, r2, r3} :
          /\ r.mod = fib[f].mod /\ r.fn = fib[f].fn /\ r.reply_to = fib[f].reply_to
          /\ r.reply_req_id = fib[f].reply_req_id /\ r.rq = fib[f].rq
          /\ r.reg = fib[f].reg /\ r.done = fib[f].done /\ r.pc = fib[f].pc + 1
    BY <1>0 DEF Past, Fiber
  <2> HIDE DEF r1, r2, r3
  <2> QED BY <1>1, <1>2, <2>1, <2>2
<1>5. CASE WaitForReply(m, f, c)
  <2> DEFINE r == [AfterOne(f, c) EXCEPT !.waits = @ \cup {"any"}]
  <2>1. fib' = [fib EXCEPT ![f] = r] /\ c.op # "return"
    BY <1>5 DEF WaitForReply, Collects
  <2>2. /\ r.mod = fib[f].mod /\ r.fn = fib[f].fn /\ r.reply_to = fib[f].reply_to
        /\ r.reply_req_id = fib[f].reply_req_id /\ r.rq = fib[f].rq
        /\ r.reg = fib[f].reg /\ r.done = fib[f].done
        /\ r.pc = fib[f].pc \/ r.pc = fib[f].pc + 1
    BY <1>0 DEF AfterOne, Past, Fiber
  <2> HIDE DEF r
  <2> QED BY <1>1, <1>2, <2>1, <2>2
<1>7. CASE CollectQueued(m, f, c)
  <2> DEFINE x == Src(Head(fib[f].rq).result, 0, 0, Head(fib[f].rq).req_id)
             r == [AfterOne(f, c) EXCEPT !.rq = Tail(@), !.async_outstanding = @ - 1, !.src = x]
  <2>1. fib' = [fib EXCEPT ![f] = r] /\ c.op # "return" /\ fib[f].rq # <<>>
    BY <1>7 DEF CollectQueued, Collects
  <2>2. x.result = Head(fib[f].rq).result
    BY DEF Src
  <2> HIDE DEF x
  <2>3. /\ r.mod = fib[f].mod /\ r.fn = fib[f].fn /\ r.reply_to = fib[f].reply_to
        /\ r.reply_req_id = fib[f].reply_req_id /\ r.rq = Tail(fib[f].rq) /\ r.src = x
        /\ r.reg = fib[f].reg /\ r.done = fib[f].done
        /\ r.pc = fib[f].pc \/ r.pc = fib[f].pc + 1
    BY <1>0 DEF AfterOne, Past, Fiber
  <2> HIDE DEF r
  <2>4. TakesFirst(fib[f], r)
    BY <2>1, <2>2, <2>3 DEF TakesFirst
  <2> QED BY <1>1, <2>1, <2>3, <2>4 DEF Onward
<1>6. CASE Return(m, f, c)
  <2> DEFINE r == [fib[f] EXCEPT !.done = TRUE]
  <2>1. fib' = [fib EXCEPT ![f] = r] /\ c.op = "return"
    BY <1>6 DEF Return
  <2>2. /\ r.mod = fib[f].mod /\ r.fn = fib[f].fn /\ r.reply_to = fib[f].reply_to
        /\ r.reply_req_id = fib[f].reply_req_id /\ r.rq = fib[f].rq
        /\ r.reg = fib[f].reg /\ r.done /\ r.pc = fib[f].pc
    BY <1>0 DEF Fiber
  <2> HIDE DEF r
  <2> QED BY <1>1, <2>1, <2>2 DEF Onward
<1> QED BY <1>1, <1>3, <1>4, <1>5, <1>6, <1>7 DEF Calls

\* The calls of notifications.
LEMMA NotifyMoves ==
  ASSUME TypeInv, NEW m \in Modules, NEW f \in Fibers, NEW c, NotifyCalls(m, f, c)
  PROVE  /\ \E r : /\ fib' = [fib EXCEPT ![f] = r] /\ Onward(fib[f], r, c)
                   /\ \/ r.reg = NotReg
                      \/ RegTest(m, f, c) /\ r.reg = AfterTest(next_client_id)
                      \/ RegWrap(m, f, c) /\ r.reg = Tested
                      \/ RegRead(m, f, c) /\ r.reg = next_client_id
         /\ UNCHANGED <<fibers, current, nr_module, stop, loop, evs, deferred>>
         /\ RegWrap(m, f, c) \/ RegWrite(m, f, c) \/ next_client_id' = next_client_id
         /\ \/ RegWrite(m, f, c)
            \/ \E cid \in ClientId, i \in DOMAIN notify_clients[m] : UnregNotify(m, f, c, cid, i)
            \/ notify_clients' = notify_clients
<1>0. fib[f] \in Fiber
  BY FiberType DEF TypeInv
<1>1. /\ UNCHANGED <<fibers, current, nr_module, stop, loop, evs, deferred>>
      /\ RegWrap(m, f, c) \/ RegWrite(m, f, c) \/ next_client_id' = next_client_id
      /\ \/ RegWrite(m, f, c)
         \/ \E cid \in ClientId, i \in DOMAIN notify_clients[m] : UnregNotify(m, f, c, cid, i)
         \/ notify_clients' = notify_clients
      /\ c.op # "return"
  BY DEF NotifyCalls, RegRefused, RegTest, RegWrap, RegRead, RegWrite, UnregNotify, UnregUnknown,
         NotifyOne, NotifyDone, Registering, Notifying, schedVars, notifyVars, instVars
<1>2. ASSUME NEW r, fib' = [fib EXCEPT ![f] = r], r.mod = fib[f].mod, r.fn = fib[f].fn,
             r.reply_to = fib[f].reply_to, r.reply_req_id = fib[f].reply_req_id /\ r.rq = fib[f].rq,
             r.done = fib[f].done,
             r.pc = fib[f].pc \/ r.pc = fib[f].pc + 1,
             \/ r.reg = NotReg
             \/ RegTest(m, f, c) /\ r.reg = AfterTest(next_client_id)
             \/ RegWrap(m, f, c) /\ r.reg = Tested
             \/ RegRead(m, f, c) /\ r.reg = next_client_id
      PROVE  \E s : /\ fib' = [fib EXCEPT ![f] = s] /\ Onward(fib[f], s, c)
                    /\ \/ s.reg = NotReg
                       \/ RegTest(m, f, c) /\ s.reg = AfterTest(next_client_id)
                       \/ RegWrap(m, f, c) /\ s.reg = Tested
                       \/ RegRead(m, f, c) /\ s.reg = next_client_id
  BY <1>1, <1>2 DEF Onward
<1>3. CASE \/ RegRefused(m, f, c)
           \/ \E cid \in ClientId : \/ \E i \in DOMAIN notify_clients[m] : UnregNotify(m, f, c, cid, i)
                                    \/ UnregUnknown(m, f, c, cid)
  <2> DEFINE r == Past(f)
  <2>1. fib' = [fib EXCEPT ![f] = r] /\ fib[f].reg = NotReg
    BY <1>3 DEF RegRefused, UnregNotify, UnregUnknown, Makes
  <2>2. /\ r.mod = fib[f].mod /\ r.fn = fib[f].fn /\ r.reply_to = fib[f].reply_to
        /\ r.reply_req_id = fib[f].reply_req_id /\ r.rq = fib[f].rq
        /\ r.reg = fib[f].reg /\ r.done = fib[f].done /\ r.pc = fib[f].pc + 1
    BY <1>0 DEF Past, Fiber
  <2> HIDE DEF r
  <2> QED BY <1>1, <1>2, <2>1, <2>2
<1>4. CASE RegTest(m, f, c)
  <2> DEFINE r == [fib[f] EXCEPT !.reg = AfterTest(next_client_id), !.cat = c.arg]
  <2>1. fib' = [fib EXCEPT ![f] = r]
    BY <1>4 DEF RegTest
  <2>2. /\ r.mod = fib[f].mod /\ r.fn = fib[f].fn /\ r.reply_to = fib[f].reply_to
        /\ r.reply_req_id = fib[f].reply_req_id /\ r.rq = fib[f].rq
        /\ r.reg = AfterTest(next_client_id) /\ r.done = fib[f].done /\ r.pc = fib[f].pc
    BY <1>0 DEF Fiber
  <2> HIDE DEF r
  <2> QED BY <1>1, <1>2, <1>4, <2>1, <2>2
<1>5. CASE RegWrap(m, f, c) \/ RegRead(m, f, c)
  <2>0. PICK x : /\ fib' = [fib EXCEPT ![f].reg = x]
                 /\ \/ RegWrap(m, f, c) /\ x = Tested
                    \/ RegRead(m, f, c) /\ x = next_client_id
    BY <1>5 DEF RegWrap, RegRead
  <2> DEFINE r == [fib[f] EXCEPT !.reg = x]
  <2>1. fib' = [fib EXCEPT ![f] = r]
    BY <2>0
  <2>2. /\ r.mod = fib[f].mod /\ r.fn = fib[f].fn /\ r.reply_to = fib[f].reply_to
        /\ r.reply_req_id = fib[f].reply_req_id /\ r.rq = fib[f].rq
        /\ r.reg = x /\ r.done = fib[f].done /\ r.pc = fib[f].pc
    BY <1>0 DEF Fiber
  <2> HIDE DEF r
  <2> QED BY <1>1, <1>2, <2>0, <2>1, <2>2
<1>6. CASE RegWrite(m, f, c)
  <2> DEFINE r == [Past(f) EXCEPT !.reg = NotReg, !.cat = ""]
  <2>1. fib' = [fib EXCEPT ![f] = r]
    BY <1>6 DEF RegWrite
  <2>2. /\ r.mod = fib[f].mod /\ r.fn = fib[f].fn /\ r.reply_to = fib[f].reply_to
        /\ r.reply_req_id = fib[f].reply_req_id /\ r.rq = fib[f].rq
        /\ r.reg = NotReg /\ r.done = fib[f].done /\ r.pc = fib[f].pc + 1
    BY <1>0 DEF Past, Fiber
  <2> HIDE DEF r
  <2> QED BY <1>1, <1>2, <2>1, <2>2
<1>7. ASSUME NEW i, NotifyOne(m, f, c, i) \/ NotifyDone(m, f, c)
      PROVE  \E s : fib' = [fib EXCEPT ![f] = s] /\ Onward(fib[f], s, c) /\ s.reg = NotReg
  <2> DEFINE r1 == [fib[f] EXCEPT !.fan = i, !.cat = c.arg]
             r2 == [Past(f) EXCEPT !.fan = 0, !.cat = ""]
  <2>1. fib' \in {[fib EXCEPT ![f] = r1], [fib EXCEPT ![f] = r2]} /\ fib[f].reg = NotReg
    BY <1>7 DEF NotifyOne, NotifyDone, Notifying
  <2>2. \A r \in {r1, r2} :
          /\ r.mod = fib[f].mod /\ r.fn = fib[f].fn /\ r.reply_to = fib[f].reply_to
          /\ r.reply_req_id = fib[f].reply_req_id /\ r.rq = fib[f].rq
          /\ r.reg = fib[f].reg /\ r.done = fib[f].done
          /\ r.pc = fib[f].pc \/ r.pc = fib[f].pc + 1
    BY <1>0 DEF Past, Fiber
  <2> HIDE DEF r1, r2
  <2> QED BY <1>1, <2>1, <2>2 DEF Onward
<1> QED BY <1>1, <1>3, <1>4, <1>5, <1>6, <1>7 DEF NotifyCalls

\* The calls keep RegInv when one module only registers listeners.
LEMMA RegSequence ==
  ASSUME OnePublisher, CollectsBeforeReturn, TypeInv, FiberInv, CollectInv, RegInv,
         NEW m \in Modules, Sequence(m)
  PROVE  RegInv'
<1> DEFINE f == current[m]
<1>1. f \in Fibers /\ Running(m, f)
  BY CallType DEF Sequence, Running
<1>2. PICK c \in NextCalls(m) : Calls(m, f, c) \/ NotifyCalls(m, f, c)
  BY DEF Sequence
<1>3. /\ f \in Live(m) /\ f # NoFiber /\ fib[f].mod = m /\ next_client_id \in ClientId
      /\ fib[f].reg # Unregistered
      /\ fib[f].reg # NotReg => Registers(m)
  <2>1. f \in Live(m) /\ f # NoFiber /\ next_client_id \in ClientId
    BY <1>1, Current DEF TypeInv, TypeOK
  <2> HIDE DEF f
  <2> QED BY <2>1 DEF RegInv
<1>4. c.op = "reg_notify" => Registers(m)
  <2>1. /\ \/ /\ fib[f].pc \in DOMAIN Script[fib[f].mod][fib[f].fn]
              /\ c \in Script[fib[f].mod][fib[f].fn][fib[f].pc]
           \/ c.op = "return"
        /\ fib[f].fn \in DOMAIN Script[fib[f].mod]
    BY <1>1, <1>3, CallAtPlace, BodyLedgers
  <2> QED BY <1>3, <2>1 DEF Registers, Uses
<1> HIDE DEF f
<1>5. CASE Calls(m, f, c)
  <2>1. PICK r : fib' = [fib EXCEPT ![f] = r] /\ Onward(fib[f], r, c) /\ r.reg = NotReg
    BY <1>1, <1>5, CallMoves
  <2>2. /\ UNCHANGED <<fibers, notify_clients, next_client_id>>
        /\ current' = current \/ Yield(m)
    BY <1>1, <1>5, CallMoves
  <2>3. SentinelNeverGiven'
    BY <2>2 DEF RegInv, SentinelNeverGiven
  <2> QED BY <1>1, <2>1, <2>2, <2>3, RegCall, Sentinels DEF Onward
<1>6. CASE NotifyCalls(m, f, c)
  <2>1. PICK r : /\ fib' = [fib EXCEPT ![f] = r] /\ Onward(fib[f], r, c)
                 /\ \/ r.reg = NotReg
                    \/ RegTest(m, f, c) /\ r.reg = AfterTest(next_client_id)
                    \/ RegWrap(m, f, c) /\ r.reg = Tested
                    \/ RegRead(m, f, c) /\ r.reg = next_client_id
    BY <1>1, <1>6, NotifyMoves
  <2>2. /\ UNCHANGED <<fibers, current>>
        /\ RegWrap(m, f, c) \/ RegWrite(m, f, c) \/ next_client_id' = next_client_id
        /\ \/ RegWrite(m, f, c)
           \/ \E cid \in ClientId, i \in DOMAIN notify_clients[m] : UnregNotify(m, f, c, cid, i)
           \/ notify_clients' = notify_clients
    BY <1>1, <1>6, NotifyMoves
  <2>3. \/ RegTest(m, f, c) \/ RegWrap(m, f, c) \/ RegRead(m, f, c) \/ RegWrite(m, f, c)
        => c.op = "reg_notify"
    BY DEF RegTest, RegWrap, RegRead, RegWrite, Registering
  <2>4. /\ RegTest(m, f, c) => next_client_id' = next_client_id
        /\ AfterTest(next_client_id) = IF next_client_id = Unregistered THEN Wraps ELSE Tested
        /\ RegWrap(m, f, c) => next_client_id' # Unregistered
    BY Sentinels DEF RegTest, RegWrap, AfterTest, notifyVars
  <2>5. RegRead(m, f, c) => next_client_id # Unregistered /\ fib[f].reg = Tested
    BY <1>3 DEF RegRead, RegInv
  <2>6. SentinelNeverGiven'
    <3>0. notify_clients \in [Modules -> Seq(ListenerEntry)]
      BY DEF TypeInv, TypeOK
    <3>1. CASE RegWrite(m, f, c)
      <4> DEFINE l == Listener(c.arg, fib[f].reply_to, fib[f].reg)
      <4>1. notify_clients' = [notify_clients EXCEPT ![m] = <<l>> \o @]
        BY <3>1, Zenon DEF RegWrite
      <4>2. l.client_id # Unregistered
        BY <1>3 DEF Listener
      <4> HIDE DEF l
      <4>3. ASSUME NEW n \in Modules, NEW i \in DOMAIN notify_clients'[n]
            PROVE  notify_clients'[n][i].client_id # Unregistered
        <5>1. CASE n = m
          <6> DEFINE q == notify_clients[m]
          <6>1. q \in Seq(ListenerEntry) /\ notify_clients'[n] = <<l>> \o q
            BY <3>0, <4>1, <5>1
          <6> DEFINE S == ListenerEntry \cup {l}
          <6>2. q \in Seq(S) /\ l \in S
            BY <6>1, SeqMonotonic
          <6> HIDE DEF S, q
          <6>3. <<l>> \o q \in Seq(S) /\ ToSet(<<l>> \o q) = {l} \cup ToSet(q)
            BY <6>2, ConsSeq
          <6>4. notify_clients'[n][i] \in {l} \cup ToSet(q)
            BY <4>3, <6>1, <6>3 DEF ToSet
          <6> QED BY <4>2, <6>4 DEF RegInv, SentinelNeverGiven, ToSet, q
        <5>2. CASE n # m
          BY <3>0, <4>1, <4>3, <5>2 DEF RegInv, SentinelNeverGiven
        <5> QED BY <5>1, <5>2
      <4> QED BY <4>3 DEF SentinelNeverGiven
    <3>2. ASSUME NEW cid \in ClientId, NEW i \in DOMAIN notify_clients[m],
                 UnregNotify(m, f, c, cid, i)
          PROVE  SentinelNeverGiven'
      <4>1. notify_clients' = [notify_clients EXCEPT ![m] = RemoveAt(notify_clients[m], i)]
        BY <3>0, <3>2 DEF UnregNotify
      <4>2. ToSet(RemoveAt(notify_clients[m], i)) \subseteq ToSet(notify_clients[m])
        BY <3>0, RemoveAtType
      <4>3. \A n \in Modules : ToSet(notify_clients'[n]) \subseteq ToSet(notify_clients[n])
        BY <3>0, <4>1, <4>2
      <4> QED BY <4>3 DEF RegInv, SentinelNeverGiven, ToSet
    <3>3. CASE notify_clients' = notify_clients
      BY <3>3 DEF RegInv, SentinelNeverGiven
    <3> QED BY <2>2, <3>1, <3>2, <3>3
  <2>7. r.reg # NotReg => c.op = "reg_notify"
    BY <2>1, <2>3
  <2>8. /\ r.reg = Tested => next_client_id' # Unregistered
        /\ r.reg # Unregistered
        /\ r.reg \in ClientId => r.reg = next_client_id'
    BY <1>3, <2>1, <2>4, <2>5, Sentinels DEF RegRead, notifyVars
  <2> QED BY <1>1, <1>4, <2>1, <2>2, <2>3, <2>6, <2>7, <2>8, RegCall DEF Onward
<1> QED BY <1>2, <1>5, <1>6

\* Init and every step.
LEMMA RegStep ==
  ASSUME OnePublisher, CollectsBeforeReturn, TypeInv, FiberInv, CollectInv, RegInv, [Next]_vars
  PROVE  RegInv'
<1>1. ASSUME NEW m \in Modules, Sched(m) \/ SpuriousWake(m) PROVE RegInv'
  BY <1>1, RegSched
<1>2. ASSUME NEW m \in Modules, Sequence(m) PROVE RegInv'
  BY <1>2, RegSequence
<1>3. UNCHANGED <<fib, fibers, current, notify_clients, next_client_id>> => RegInv'
  BY DEF RegInv, SentinelNeverGiven, Live
<1>4. \/ \E f \in Fibers : TimePasses(f)
      \/ \E c \in Clients : External(c)
      \/ BeginTeardown \/ (\E m \in Modules : StopModule(m)) \/ UNCHANGED vars
      => UNCHANGED <<fib, fibers, current, notify_clients, next_client_id>>
  BY DEF TimePasses, External, RequestSync, ExtRequestAsync, SyncReturns, BeginTeardown,
         StopModule, vars, schedVars, notifyVars
<1>5. FreeModules => RegInv'
  <2>1. ASSUME FreeModules, NEW m \in Modules
        PROVE  Live(m)' = {} /\ notify_clients'[m] = <<>>
    BY <2>1 DEF FreeModules, Live, ToSet
  <2> QED BY <2>1 DEF RegInv, SentinelNeverGiven
<1> QED BY <1>1, <1>2, <1>3, <1>4, <1>5 DEF Next, Thread, Owner

\* coseq_reg_notify: when the sequences of one module only register listeners, no
\* registration is ever given the id 0xff that stands for "not registered", though
\* next_client_id is tested in one access and read in another.
THEOREM SentinelIsNeverGiven ==
  OnePublisher /\ CollectsBeforeReturn => (Spec => []SentinelNeverGiven)
<1> SUFFICES ASSUME OnePublisher, CollectsBeforeReturn PROVE Spec => []SentinelNeverGiven
  OBVIOUS
<1>1. Init => RegInv
  BY DEF Init, RegInv, SentinelNeverGiven, Live, ToSet
<1>2. TypeInv /\ FiberInv /\ CollectInv /\ RegInv /\ [Next]_vars => RegInv'
  BY RegStep
<1>3. RegInv => SentinelNeverGiven
  BY DEF RegInv
<1> QED BY <1>1, <1>2, <1>3, FiberInvariant, PTL DEF Spec

-----------------------------------------------------------------------------
(* Distinct ids *)

\* The counter has not come round: of the ClientIdMod ids there are it has given out fewer
\* than all but one.
CountsUp == next_client_id' >= next_client_id

\* Every id given out is below the counter.
IdsInv ==
  /\ UniqueClientIds
  /\ \A m \in Modules : \A i \in DOMAIN notify_clients[m] :
       notify_clients[m][i].client_id < next_client_id

\* A list with a new entry in front, its id the counter's value, or with one entry less.
LEMMA IdsRegister ==
  ASSUME TypeInv, IdsInv, NEW m \in Modules, NEW l \in ListenerEntry,
         l.client_id = next_client_id, next_client_id' \in Nat, next_client_id' > next_client_id,
         notify_clients' = [notify_clients EXCEPT ![m] = <<l>> \o @]
  PROVE  IdsInv'
<1>1. notify_clients \in [Modules -> Seq(ListenerEntry)] /\ next_client_id \in Nat
      /\ \A x \in ListenerEntry : x.client_id \in Nat
  <2>1. \A x \in ClientId : x \in Nat
    BY ClientIdAssumption DEF ClientId
  <2>2. \A x \in ListenerEntry : x.client_id \in ClientId
    BY DEF ListenerEntry
  <2> QED BY <2>1, <2>2 DEF TypeInv, TypeOK
<1>2. /\ \A n \in Modules \ {m} : notify_clients'[n] = notify_clients[n]
      /\ DOMAIN notify_clients'[m] = 1..(Len(notify_clients[m]) + 1)
      /\ DOMAIN notify_clients[m] = 1..Len(notify_clients[m])
      /\ notify_clients'[m][1] = l
      /\ \A i \in DOMAIN notify_clients'[m] :
           i # 1 => i - 1 \in DOMAIN notify_clients[m]
                    /\ notify_clients'[m][i] = notify_clients[m][i - 1]
  <2> DEFINE q == notify_clients[m]
  <2>1. q \in Seq(ListenerEntry) /\ notify_clients'[m] = <<l>> \o q
    BY <1>1
  <2> HIDE DEF q
  <2>2. /\ DOMAIN (<<l>> \o q) = 1..(Len(q) + 1) /\ DOMAIN q = 1..Len(q) /\ (<<l>> \o q)[1] = l
        /\ \A i \in 2..(Len(q) + 1) : (<<l>> \o q)[i] = q[i - 1]
        /\ Len(q) \in Nat
    BY <2>1
  <2> QED BY <1>1, <2>1, <2>2 DEF q
<1>3. ASSUME NEW n \in Modules, NEW i \in DOMAIN notify_clients'[n]
      PROVE  /\ notify_clients'[n][i].client_id < next_client_id'
             /\ notify_clients'[n][i].client_id # next_client_id => n # m \/ i # 1
             /\ notify_clients'[n][i].client_id = next_client_id => n = m /\ i = 1
             /\ <<n, i>> # <<m, 1>> =>
                  \E j \in DOMAIN notify_clients[n] :
                    /\ notify_clients'[n][i] = notify_clients[n][j]
                    /\ j = IF n = m THEN i - 1 ELSE i
  <2>1. CASE n = m /\ i = 1
    BY <1>1, <1>2, <2>1
  <2>2. CASE n # m \/ i # 1
    <3>1. PICK j \in DOMAIN notify_clients[n] :
             notify_clients'[n][i] = notify_clients[n][j] /\ j = IF n = m THEN i - 1 ELSE i
      BY <1>2, <1>3, <2>2
    <3>2. notify_clients[n][j].client_id < next_client_id /\ notify_clients[n][j].client_id \in Nat
      BY <1>1, <3>1 DEF IdsInv
    <3> QED BY <1>1, <2>2, <3>1, <3>2
  <2> QED BY <2>1, <2>2
<1>4. ASSUME NEW n \in Modules, NEW k \in Modules,
             NEW i \in DOMAIN notify_clients'[n], NEW j \in DOMAIN notify_clients'[k],
             notify_clients'[n][i].client_id = notify_clients'[k][j].client_id
      PROVE  <<n, i>> = <<k, j>>
  <2>1. CASE notify_clients'[n][i].client_id = next_client_id
    BY <1>3, <1>4, <2>1
  <2>2. CASE notify_clients'[n][i].client_id # next_client_id
    <3>1. <<n, i>> # <<m, 1>> /\ <<k, j>> # <<m, 1>>
      BY <1>3, <1>4, <2>2
    <3>2. PICK i1 \in DOMAIN notify_clients[n] :
             notify_clients'[n][i] = notify_clients[n][i1] /\ i1 = IF n = m THEN i - 1 ELSE i
      BY <1>3, <3>1
    <3>3. PICK j1 \in DOMAIN notify_clients[k] :
             notify_clients'[k][j] = notify_clients[k][j1] /\ j1 = IF k = m THEN j - 1 ELSE j
      BY <1>3, <3>1
    <3>4. <<n, i1>> = <<k, j1>>
      BY <1>4, <3>2, <3>3 DEF IdsInv, UniqueClientIds
    <3>5. n = m => i \in Int /\ j \in Int
      BY <1>2, <3>4
    <3> QED BY <3>2, <3>3, <3>4, <3>5
  <2> QED BY <2>1, <2>2
<1> QED BY <1>3, <1>4 DEF IdsInv, UniqueClientIds

LEMMA IdsUnregister ==
  ASSUME TypeInv, IdsInv, NEW m \in Modules, NEW i \in DOMAIN notify_clients[m],
         next_client_id' = next_client_id,
         notify_clients' = [notify_clients EXCEPT ![m] = RemoveAt(@, i)]
  PROVE  IdsInv'
<1>1. notify_clients \in [Modules -> Seq(ListenerEntry)]
  BY DEF TypeInv, TypeOK
<1> DEFINE Old(n, j) == IF n = m /\ j >= i THEN j + 1 ELSE j
<1>2. ASSUME NEW n \in Modules, NEW j \in DOMAIN notify_clients'[n]
      PROVE  /\ j \in Nat /\ Old(n, j) \in DOMAIN notify_clients[n]
             /\ notify_clients'[n][j] = notify_clients[n][Old(n, j)]
  <2> DEFINE q == notify_clients[n]
  <2>1. q \in Seq(ListenerEntry) /\ i \in Nat
    BY <1>1
  <2>2. CASE n = m
    <3>1. notify_clients'[n] = RemoveAt(q, i) /\ i \in 1..Len(q)
      BY <1>1, <2>2
    <3> HIDE DEF q
    <3>2. /\ Len(RemoveAt(q, i)) = Len(q) - 1
          /\ DOMAIN RemoveAt(q, i) = 1..(Len(q) - 1)
          /\ \A x \in 1..(Len(q) - 1) : RemoveAt(q, i)[x] = IF x < i THEN q[x] ELSE q[x + 1]
      BY <2>1, <3>1, RemoveAtType, LenProperties
    <3>3. j \in 1..(Len(q) - 1) /\ Len(q) \in Nat
      BY <1>2, <2>1, <3>1, <3>2
    <3>4. Old(n, j) = IF j >= i THEN j + 1 ELSE j
      BY <2>2
    <3> HIDE DEF Old
    <3>5. Old(n, j) \in 1..Len(q) /\ RemoveAt(q, i)[j] = q[Old(n, j)]
      BY <2>1, <3>1, <3>2, <3>3, <3>4
    <3>6. DOMAIN q = 1..Len(q)
      BY <2>1, LenProperties
    <3> QED BY <3>1, <3>3, <3>5, <3>6 DEF q
  <2>3. CASE n # m
    BY <1>1, <1>2, <2>3
  <2> QED BY <2>2, <2>3
<1>3. ASSUME NEW n \in Modules, NEW k \in Modules, NEW j \in DOMAIN notify_clients'[n],
             NEW h \in DOMAIN notify_clients'[k],
             notify_clients'[n][j].client_id = notify_clients'[k][h].client_id
      PROVE  <<n, j>> = <<k, h>>
  <2>1. <<n, Old(n, j)>> = <<k, Old(k, h)>>
    <3> HIDE DEF Old
    <3> QED BY <1>2, <1>3 DEF IdsInv, UniqueClientIds
  <2>2. j \in Nat /\ h \in Nat /\ i \in Nat
    BY <1>1, <1>2, <1>3
  <2> QED BY <2>1, <2>2
<1> HIDE DEF Old
<1> QED BY <1>2, <1>3 DEF IdsInv, UniqueClientIds

\* Every step on which the counter does not come round.
LEMMA IdsStep ==
  ASSUME TypeInv, TypeInv', FiberInv, RegInv, IdsInv, CountsUp, Next
  PROVE  IdsInv'
<1>0. next_client_id \in Nat /\ next_client_id' \in Nat /\ next_client_id < ClientIdMod
  BY ClientIdAssumption DEF TypeInv, TypeOK, ClientId
<1>1. UNCHANGED <<notify_clients, next_client_id>> => IdsInv'
  BY DEF IdsInv, UniqueClientIds
<1>2. ASSUME NEW m \in Modules, Sched(m) \/ SpuriousWake(m) PROVE IdsInv'
  BY <1>1, <1>2, SchedMoves
<1>3. ASSUME NEW m \in Modules, Sequence(m) PROVE IdsInv'
  <2> DEFINE f == current[m]
  <2>1. f \in Fibers /\ Running(m, f) /\ f \in Live(m)
    BY <1>3, CallType, Current DEF Sequence, Running, TypeInv
  <2>2. PICK c \in NextCalls(m) : Calls(m, f, c) \/ NotifyCalls(m, f, c)
    BY <1>3 DEF Sequence
  <2> HIDE DEF f
  <2>3. CASE Calls(m, f, c)
    BY <1>1, <2>1, <2>3, CallMoves
  <2>4. CASE RegWrite(m, f, c)
    <3> DEFINE l == Listener(c.arg, fib[f].reply_to, fib[f].reg)
    <3>1. /\ notify_clients' = [notify_clients EXCEPT ![m] = <<l>> \o @]
          /\ fib[f].reg \in ClientId /\ next_client_id' = (fib[f].reg + 1) % ClientIdMod
      BY <2>4 DEF RegWrite
    <3>2. l.client_id = next_client_id /\ fib[f].reg = next_client_id
      BY <2>1, <3>1 DEF RegInv, Listener
    <3>3. next_client_id' > next_client_id
      BY <1>0, <3>1, <3>2, ClientIdAssumption DEF CountsUp
    <3>4. l \in ListenerEntry
      <4> HIDE DEF l
      <4>1. notify_clients'[m] \in Seq(ListenerEntry) /\ notify_clients[m] \in Seq(ListenerEntry)
            /\ notify_clients'[m] = <<l>> \o notify_clients[m]
        BY <3>1 DEF TypeInv, TypeOK
      <4>2. notify_clients'[m][1] = l /\ 1 \in DOMAIN notify_clients'[m]
        BY <4>1
      <4> QED BY <4>1, <4>2
    <3> HIDE DEF l
    <3> QED BY <1>0, <3>1, <3>2, <3>3, <3>4, IdsRegister
  <2>5. ASSUME NEW cid \in ClientId, NEW i \in DOMAIN notify_clients[m],
               UnregNotify(m, f, c, cid, i)
        PROVE  IdsInv'
    BY <2>5, IdsUnregister DEF UnregNotify
  <2>6. CASE RegWrap(m, f, c)
    <3>1. notify_clients' = notify_clients /\ next_client_id' = 0
      BY <2>6 DEF RegWrap
    <3>2. next_client_id' = next_client_id
      BY <1>0, <3>1 DEF CountsUp
    <3> QED BY <1>1, <3>1, <3>2
  <2>7. /\ RegWrap(m, f, c) \/ RegWrite(m, f, c) \/ next_client_id' = next_client_id
        /\ \/ Calls(m, f, c) \/ RegWrite(m, f, c)
           \/ \E cid \in ClientId, i \in DOMAIN notify_clients[m] : UnregNotify(m, f, c, cid, i)
           \/ notify_clients' = notify_clients
    BY <2>1, <2>2, NotifyMoves, CallMoves
  <2> QED BY <1>1, <2>3, <2>4, <2>5, <2>6, <2>7
<1>4. \/ \E f \in Fibers : TimePasses(f)
      \/ \E c \in Clients : External(c)
      \/ BeginTeardown \/ (\E m \in Modules : StopModule(m))
      => UNCHANGED <<notify_clients, next_client_id>>
  BY DEF TimePasses, External, RequestSync, ExtRequestAsync, SyncReturns, BeginTeardown,
         StopModule, notifyVars
<1>5. FreeModules => IdsInv'
  <2>1. ASSUME FreeModules, NEW m \in Modules PROVE notify_clients'[m] = <<>>
    BY <2>1 DEF FreeModules
  <2> QED BY <2>1 DEF IdsInv, UniqueClientIds
<1> QED BY <1>1, <1>2, <1>3, <1>4, <1>5 DEF Next, Thread, Owner

\* coseq_reg_notify: when the sequences of one module only register listeners, the
\* registrations of an instance have distinct ids, for as long as the 8-bit counter has
\* not come round (255 registrations in the code).
THEOREM ClientIdsAreUnique ==
  OnePublisher /\ CollectsBeforeReturn =>
    (Spec /\ [][CountsUp]_vars => []UniqueClientIds)
<1> SUFFICES ASSUME OnePublisher, CollectsBeforeReturn
             PROVE  Spec /\ [][CountsUp]_vars => []UniqueClientIds
  OBVIOUS
<1>1. Init => RegInv /\ IdsInv
  BY DEF Init, RegInv, SentinelNeverGiven, IdsInv, UniqueClientIds, Live, ToSet
<1>2. TypeInv /\ FiberInv /\ CollectInv /\ RegInv /\ [Next]_vars => RegInv'
  BY RegStep
<1>3. TypeInv /\ TypeInv' /\ FiberInv /\ RegInv /\ IdsInv /\ [Next]_vars /\ [CountsUp]_vars
        => IdsInv'
  <2>1. UNCHANGED vars /\ IdsInv => IdsInv'
    BY DEF IdsInv, UniqueClientIds, vars, notifyVars
  <2> QED BY <2>1, IdsStep
<1>4. IdsInv => UniqueClientIds
  BY DEF IdsInv
<1> QED BY <1>1, <1>2, <1>3, <1>4, FiberInvariant, PTL DEF Spec

-----------------------------------------------------------------------------
(* The end of a registration *)

\* What is asked of the program besides UnregThenReplies, of its behaviour: a sequence
\* takes off the list only the module it was started by.
OwnUnregister ==
  \A m \in Modules : current[m] # NoFiber =>
    \A c \in NextCalls(m), cid \in ClientId : \A i \in DOMAIN notify_clients[m] :
      UnregNotify(m, current[m], c, cid, i) =>
        notify_clients[m][i].listener_module = fib[current[m]].reply_to

\* A fiber with the record r has a reply to m still to make.
WillReply(r, m) ==
  ~r.done /\ r.reply_to = m /\ RepliesFrom(Script[r.mod][r.fn], r.pc)

\* The pairs of a publisher and a client id of which m may be notified: it is
\* registered, or the confirmation that it is not any more is still to come.
Cover(m) ==
  {x \in Modules \X ClientId :
     \/ IsListenerAt(x[1], m, x[2])
     \/ \E f \in Live(x[1]) : WillReply(fib[f], m)}

\* In the stream s every notification is covered by C, or by a reply behind it.
ReplyBehind(s, i) ==
  \E j \in DOMAIN s : j > i /\ s[j].type = "REPLY" /\ s[j].requester = s[i].requester
NotifyOk(s, C) ==
  \A i \in DOMAIN s : s[i].type = "NOTIFY" =>
    s[i].requester \in Modules /\ (<<s[i].requester, s[i].client_id>> \in C \/ ReplyBehind(s, i))
NoNotify(s) == \A i \in DOMAIN s : s[i].type # "NOTIFY"

NotifyInv ==
  /\ \A m \in Modules : stop[m] \/ loop[m] = "stopped" => nr_module = 0
  /\ \A m \in Modules : loop[m] # "run" => evs[m] = <<>>
  /\ \A m \in Modules : NoNotify(deferred[m])
  /\ nr_module > 0 => \A m \in Modules : NotifyOk(Stream(m), Cover(m))

-----------------------------------------------------------------------------
(* Streams *)

\* More is covered.
LEMMA WiderCover ==
  ASSUME NEW s, NEW C, NEW D, C \subseteq D, NotifyOk(s, C)
  PROVE  NotifyOk(s, D)
  BY DEF NotifyOk

\* The first event is handled.
LEMMA TailStream ==
  ASSUME NEW s \in Seq(Event), s # <<>>, NEW C, NotifyOk(s, C)
  PROVE  NotifyOk(Tail(s), C)
<1> DEFINE t == Tail(s)
           n == Len(t)
<1>1. /\ t \in Seq(Event) /\ Len(s) = n + 1 /\ n \in Nat
      /\ \A i \in 1..n : t[i] = s[i + 1]
      /\ DOMAIN s = 1..Len(s) /\ DOMAIN t = 1..n
  <2>1. t \in Seq(Event) /\ Len(t) = Len(s) - 1 /\ \A i \in 1..Len(t) : t[i] = s[i + 1]
    BY HeadTailProperties
  <2>2. Len(t) \in Nat /\ Len(s) \in Nat /\ DOMAIN s = 1..Len(s) /\ DOMAIN t = 1..Len(t)
    BY <2>1, LenProperties
  <2> HIDE DEF t
  <2> QED BY <2>1, <2>2
<1> HIDE DEF t, n
<1>2. SUFFICES ASSUME NEW i \in 1..n, t[i].type = "NOTIFY"
               PROVE  /\ t[i].requester \in Modules
                      /\ <<t[i].requester, t[i].client_id>> \in C \/ ReplyBehind(t, i)
  BY <1>1 DEF NotifyOk, t
<1>3. i + 1 \in DOMAIN s /\ t[i] = s[i + 1]
  BY <1>1
<1>4. ReplyBehind(s, i + 1) => ReplyBehind(t, i)
  <2>1. SUFFICES ASSUME NEW j \in 1..(n + 1), j > i + 1, s[j].type = "REPLY",
                        s[j].requester = s[i + 1].requester
                 PROVE  ReplyBehind(t, i)
    BY <1>1 DEF ReplyBehind
  <2>2. j - 1 \in 1..n /\ j - 1 > i /\ (j - 1) + 1 = j
    BY <1>1, <2>1
  <2>3. t[j - 1] = s[j]
    BY <1>1, <2>2
  <2> QED BY <1>1, <1>3, <2>1, <2>2, <2>3 DEF ReplyBehind
<1> QED BY <1>2, <1>3, <1>4 DEF NotifyOk

\* An event is posted: a notification that is covered, or no notification.  A reply
\* covers what its sender has notified before.
LEMMA PostedStream ==
  ASSUME NEW s \in Seq(Event), NEW e \in Event, NEW C, NotifyOk(s, C), NEW D,
         \A x \in C : x \in D \/ (e.type = "REPLY" /\ e.requester = x[1]),
         e.type = "NOTIFY" => e.requester \in Modules /\ <<e.requester, e.client_id>> \in D
  PROVE  NotifyOk(Append(s, e), D)
<1> DEFINE t == Append(s, e)
           n == Len(s)
<1>1. /\ n \in Nat /\ DOMAIN s = 1..n /\ DOMAIN t = 1..(n + 1)
      /\ \A i \in 1..n : t[i] = s[i]
      /\ t[n + 1] = e
  BY AppendProperties, LenProperties
<1> HIDE DEF t, n
<1>2. SUFFICES ASSUME NEW i \in 1..(n + 1), t[i].type = "NOTIFY"
               PROVE  /\ t[i].requester \in Modules
                      /\ <<t[i].requester, t[i].client_id>> \in D \/ ReplyBehind(t, i)
  BY <1>1 DEF NotifyOk, t
<1>3. CASE i = n + 1
  BY <1>1, <1>2, <1>3
<1>4. CASE i # n + 1
  <2>1. i \in 1..n /\ t[i] = s[i] /\ n + 1 \in 1..(n + 1) /\ n + 1 > i
    BY <1>1, <1>4
  <2>2. s[i].requester \in Modules
        /\ (<<s[i].requester, s[i].client_id>> \in C \/ ReplyBehind(s, i))
    BY <1>1, <1>2, <2>1 DEF NotifyOk
  <2>3. ReplyBehind(s, i) => ReplyBehind(t, i)
    <3>1. SUFFICES ASSUME NEW j \in 1..n, j > i, s[j].type = "REPLY",
                          s[j].requester = s[i].requester
                   PROVE  ReplyBehind(t, i)
      BY <1>1 DEF ReplyBehind
    <3>2. j \in 1..(n + 1) /\ t[j] = s[j]
      BY <1>1
    <3> QED BY <1>1, <2>1, <3>1, <3>2 DEF ReplyBehind
  <2>4. <<s[i].requester, s[i].client_id>>[1] = s[i].requester
    OBVIOUS
  <2>5. e.type = "REPLY" /\ e.requester = s[i].requester => ReplyBehind(t, i)
    BY <1>1, <2>1 DEF ReplyBehind
  <2> QED BY <2>1, <2>2, <2>3, <2>4, <2>5
<1> QED BY <1>3, <1>4

\* Deferred events are put back ahead of the others.
LEMMA RefilledStream ==
  ASSUME NEW d \in Seq(Event), NEW s \in Seq(Event), NoNotify(d), NEW C, NotifyOk(s, C)
  PROVE  NotifyOk(d \o s, C)
<1> DEFINE t == d \o s
           n == Len(d)
           k == Len(s)
<1>1. /\ n \in Nat /\ k \in Nat /\ DOMAIN d = 1..n /\ DOMAIN s = 1..k /\ DOMAIN t = 1..(n + k)
      /\ \A i \in 1..(n + k) : t[i] = IF i <= n THEN d[i] ELSE s[i - n]
  <2>1. /\ t \in Seq(Event) /\ Len(t) = n + k
        /\ \A i \in 1..(n + k) : t[i] = IF i <= n THEN d[i] ELSE s[i - n]
    BY ConcatProperties
  <2>2. n \in Nat /\ k \in Nat /\ DOMAIN d = 1..n /\ DOMAIN s = 1..k /\ DOMAIN t = 1..Len(t)
    BY <2>1, LenProperties
  <2> HIDE DEF t, n, k
  <2> QED BY <2>1, <2>2
<1> HIDE DEF t, n, k
<1>2. SUFFICES ASSUME NEW i \in 1..(n + k), t[i].type = "NOTIFY"
               PROVE  /\ t[i].requester \in Modules
                      /\ <<t[i].requester, t[i].client_id>> \in C \/ ReplyBehind(t, i)
  BY <1>1 DEF NotifyOk, t
<1>3. CASE i <= n
  <2>1. i \in 1..n /\ t[i] = d[i]
    BY <1>1, <1>3
  <2> QED BY <1>1, <1>2, <2>1 DEF NoNotify
<1>4. CASE ~(i <= n)
  <2>1. i - n \in 1..k /\ t[i] = s[i - n]
    BY <1>1, <1>4
  <2>2. s[i - n].requester \in Modules
        /\ (<<s[i - n].requester, s[i - n].client_id>> \in C \/ ReplyBehind(s, i - n))
    BY <1>1, <1>2, <2>1 DEF NotifyOk
  <2>3. ReplyBehind(s, i - n) => ReplyBehind(t, i)
    <3>1. SUFFICES ASSUME NEW j \in 1..k, j > i - n, s[j].type = "REPLY",
                          s[j].requester = s[i - n].requester
                   PROVE  ReplyBehind(t, i)
      BY <1>1 DEF ReplyBehind
    <3>2. n + j \in 1..(n + k) /\ ~(n + j <= n) /\ (n + j) - n = j /\ n + j > i
      BY <1>1, <1>4, <3>1
    <3>3. t[n + j] = s[j]
      BY <1>1, <3>2
    <3> QED BY <1>1, <2>1, <3>1, <3>2, <3>3 DEF ReplyBehind
  <2> QED BY <2>1, <2>2, <2>3
<1> QED BY <1>3, <1>4

\* The queues of a module are sequences of events, and so is its stream.
LEMMA QueueTypes ==
  ASSUME TypeOK, NEW m \in Modules
  PROVE  /\ evs[m] \in Seq(Event) /\ inbox[m] \in Seq(Event) /\ deferred[m] \in Seq(Event)
         /\ Stream(m) \in Seq(Event)
<1>1. evs[m] \in Seq(Event) /\ inbox[m] \in Seq(Event) /\ deferred[m] \in Seq(Event)
  BY DEF TypeOK
<1> QED BY <1>1, ConcatProperties DEF Stream

\* Taking the first event of the batch takes the first of the stream.
LEMMA TailConcat ==
  ASSUME NEW S, NEW s \in Seq(S), NEW t \in Seq(S), s # <<>>
  PROVE  s \o t # <<>> /\ Tail(s) \o t = Tail(s \o t)
<1> DEFINE n == Len(s)
           k == Len(t)
           u == s \o t
           a == Tail(s)
           b == Tail(u)
           v == a \o t
<1>1. n \in Nat /\ n # 0 /\ k \in Nat
  BY LenProperties, EmptySeq
<1>2. u \in Seq(S) /\ Len(u) = n + k
      /\ \A i \in 1..(n + k) : u[i] = IF i <= n THEN s[i] ELSE t[i - n]
  BY ConcatProperties
<1>3. a \in Seq(S) /\ Len(a) = n - 1 /\ \A i \in 1..(n - 1) : a[i] = s[i + 1]
  BY HeadTailProperties
<1>4. v \in Seq(S) /\ Len(v) = Len(a) + k
      /\ \A i \in 1..(Len(a) + k) : v[i] = IF i <= Len(a) THEN a[i] ELSE t[i - Len(a)]
  BY <1>3, ConcatProperties
<1> HIDE DEF u, a, n, k
<1>5. u # <<>>
  BY <1>1, <1>2, EmptySeq
<1>6. b \in Seq(S) /\ Len(b) = n + k - 1 /\ \A i \in 1..(n + k - 1) : b[i] = u[i + 1]
  <2>1. b \in Seq(S) /\ Len(b) = Len(u) - 1 /\ \A i \in 1..Len(b) : b[i] = u[i + 1]
    BY <1>2, <1>5, HeadTailProperties
  <2> HIDE DEF b
  <2>2. Len(b) = n + k - 1
    BY <1>1, <1>2, <2>1
  <2> QED BY <2>1, <2>2
<1> HIDE DEF b, v
<1>7. ASSUME NEW i \in 1..(n + k - 1) PROVE v[i] = b[i]
  <2>1. i + 1 \in 1..(n + k) /\ i \in 1..(Len(a) + k)
    BY <1>1, <1>3
  <2>2. CASE i <= n - 1
    <3>1. i \in 1..(n - 1) /\ i + 1 <= n /\ i <= Len(a)
      BY <1>1, <1>3, <2>2
    <3>2. v[i] = a[i] /\ a[i] = s[i + 1] /\ u[i + 1] = s[i + 1] /\ b[i] = u[i + 1]
      BY <1>2, <1>3, <1>4, <1>6, <2>1, <3>1
    <3> QED BY <3>2
  <2>3. CASE ~(i <= n - 1)
    <3>1. ~(i + 1 <= n) /\ ~(i <= Len(a)) /\ i - Len(a) = (i + 1) - n
      BY <1>1, <1>3, <2>3
    <3>2. v[i] = t[i - Len(a)] /\ u[i + 1] = t[(i + 1) - n] /\ b[i] = u[i + 1]
      BY <1>2, <1>4, <1>6, <2>1, <3>1
    <3> QED BY <3>1, <3>2
  <2> QED BY <2>2, <2>3
<1>8. Len(v) = n + k - 1 /\ Len(b) = Len(v)
  BY <1>1, <1>3, <1>4, <1>6
<1>9. v = b
  BY <1>4, <1>6, <1>7, <1>8, SeqEqual
<1> QED BY <1>5, <1>9 DEF u, v, a, b

\* What a step that posts e to t, and leaves the other queues alone, must show.
LEMMA PostKeeps ==
  ASSUME TypeOK, NotifyInv, NEW t \in Int, NEW e \in Event, Post(t, e),
         UNCHANGED <<evs, deferred, loop, stop, nr_module>>,
         \A m \in Modules : \A x \in Cover(m) :
           x \in Cover(m)' \/ (m = t /\ e.type = "REPLY" /\ e.requester = x[1]),
         t \in Modules /\ e.type = "NOTIFY" =>
           e.requester \in Modules /\ <<e.requester, e.client_id>> \in Cover(t)'
  PROVE  NotifyInv'
<1>1. SUFFICES ASSUME nr_module > 0, NEW m \in Modules
               PROVE  NotifyOk(Stream(m), Cover(m))'
  BY DEF NotifyInv
<1>2. nr_module \in Nat /\ NotifyOk(Stream(m), Cover(m)) /\ Stream(m) \in Seq(Event)
  BY <1>1, QueueTypes, ModulesAssumption DEF TypeOK, NotifyInv
<1>3. CASE m # t
  <2>1. Stream(m)' = Stream(m)
    BY <1>3 DEF Post, Stream, TypeOK
  <2> QED BY <1>2, <1>3, <2>1, WiderCover
<1>4. CASE m = t
  <2>1. inbox'[m] = Append(inbox[m], e)
    BY <1>1, <1>2, <1>4 DEF Post, TypeOK
  <2>2. Stream(m)' = Append(Stream(m), e)
    <3>1. evs[m] \in Seq(Event) /\ inbox[m] \in Seq(Event)
      BY QueueTypes
    <3>2. <<e>> \in Seq(Event)
      OBVIOUS
    <3>3. Append(inbox[m], e) = inbox[m] \o <<e>>
      BY <3>1, AppendIsConcat
    <3>4. Append(evs[m] \o inbox[m], e) = (evs[m] \o inbox[m]) \o <<e>>
      BY <1>2, AppendIsConcat DEF Stream
    <3>5. (evs[m] \o inbox[m]) \o <<e>> = evs[m] \o (inbox[m] \o <<e>>)
      <4>1. \A q, r, u \in Seq(Event) : (q \o r) \o u = q \o (r \o u)
        BY ConcatAssociative
      <4> QED BY <3>1, <3>2, <4>1, Zenon
    <3>6. Stream(m)' = evs[m] \o inbox'[m]
      BY DEF Stream
    <3> QED BY <2>1, <3>3, <3>4, <3>5, <3>6 DEF Stream
  <2> DEFINE s == Stream(m)
             C == Cover(m)
             D == Cover(m)'
  <2>3. s \in Seq(Event) /\ NotifyOk(s, C)
        /\ (\A x \in C : x \in D \/ (e.type = "REPLY" /\ e.requester = x[1]))
        /\ (e.type = "NOTIFY" => e.requester \in Modules /\ <<e.requester, e.client_id>> \in D)
    BY <1>2, <1>4
  <2> HIDE DEF s, C, D
  <2>4. NotifyOk(Append(s, e), D)
    BY <2>3, PostedStream
  <2>5. NotifyOk(Stream(m)', Cover(m)')
    BY <2>2, <2>4 DEF s, D
  <2> QED BY <2>5 DEF NotifyOk, ReplyBehind
<1> QED BY <1>3, <1>4

\* ... and one that posts nothing.
LEMMA QuietKeeps ==
  ASSUME NotifyInv, UNCHANGED <<inbox, evs, deferred, loop, stop, nr_module>>,
         \A m \in Modules : Cover(m) \subseteq Cover(m)'
  PROVE  NotifyInv'
<1>1. SUFFICES ASSUME nr_module > 0, NEW m \in Modules
               PROVE  NotifyOk(Stream(m), Cover(m))'
  BY DEF NotifyInv
<1>2. NotifyOk(Stream(m), Cover(m)) /\ Stream(m)' = Stream(m)
  BY <1>1 DEF NotifyInv, Stream
<1> QED BY <1>2, WiderCover

-----------------------------------------------------------------------------
(* Steps of the scheduler *)

\* The queues of the other modules, and what a step of the scheduler of m makes of
\* its own.
HandlesOne(m) ==
  /\ loop[m] = "run" /\ loop'[m] = "run" /\ inbox'[m] = inbox[m]
  /\ evs[m] # <<>> /\ evs'[m] = Tail(evs[m])
  /\ \/ deferred'[m] = deferred[m]
     \/ deferred'[m] = Append(deferred[m], Head(evs[m])) /\ Head(evs[m]).type # "NOTIFY"
TakesAll(m) ==
  /\ loop[m] # "run" /\ loop'[m] = "run"
  /\ evs'[m] = Refilled(m) /\ inbox'[m] = <<>> /\ deferred'[m] = StillDeferred(m)
Stops(m) ==
  /\ stop[m] /\ loop[m] # "run" /\ evs'[m] = evs[m]
  /\ inbox'[m] = Refilled(m) /\ deferred'[m] = StillDeferred(m)
NoEvent(m) ==
  /\ inbox'[m] = inbox[m] /\ evs'[m] = evs[m] /\ deferred'[m] = deferred[m]
  /\ loop[m] # "stopped" /\ loop'[m] # "stopped"
  /\ loop'[m] # "run" => loop[m] # "run" \/ evs[m] = <<>>

LEMMA SchedStream ==
  ASSUME TypeOK, NEW m \in Modules, Sched(m) \/ SpuriousWake(m)
  PROVE  /\ HandlesOne(m) \/ TakesAll(m) \/ Stops(m) \/ NoEvent(m)
         /\ \A k \in Modules \ {m} : /\ loop'[k] = loop[k] /\ inbox'[k] = inbox[k]
                                     /\ evs'[k] = evs[k] /\ deferred'[k] = deferred[k]
<1>0. /\ loop \in [Modules -> {"top", "wait", "run", "stopped"}]
      /\ inbox \in [Modules -> Seq(Event)] /\ evs \in [Modules -> Seq(Event)]
      /\ deferred \in [Modules -> Seq(Event)]
  BY DEF TypeOK
<1>1. CASE StartPass(m) \/ SpuriousWake(m)
  <2>1. TakeInbox(m) /\ loop[m] # "run"
    BY <1>1 DEF StartPass, SpuriousWake
  <2> QED BY <1>0, <2>1 DEF TakeInbox, TakesAll
<1>2. CASE Stopped(m)
  BY <1>0, <1>2 DEF Stopped, SeesStop, Stops
<1>3. CASE Sleep(m) \/ EndPass(m)
  BY <1>0, <1>3 DEF Sleep, EndPass, PassOver, Scheduling, NoEvent
<1>4. CASE \/ \E f \in Fibers : TimerFires(m, f) \/ TimerHeldBack(m, f)
           \/ \E i \in DOMAIN fibers[m] : Reap(m, i)
  BY <1>0, <1>4 DEF TimerFires, TimerHeldBack, Reap, PassOver, Scheduling, NoEvent
<1>5. CASE Defer(m)
  <2>1. Head(evs[m]).type # "NOTIFY"
    BY <1>5 DEF Defer, Handles
  <2> QED BY <1>0, <1>5, <2>1 DEF Defer, Handles, Scheduling, HandlesOne
<1>6. CASE \/ StartRefused(m) \/ NotifyRefused(m) \/ ReplyUnknown(m)
           \/ \E f \in Fibers :
                \/ StartSequence(m, f) \/ StartHandler(m, f)
                \/ ReplyEndsRequest(m, f) \/ ReplyEndsWait(m, f) \/ ReplyQueued(m, f)
  <2>1. /\ \E type \in {"START", "NOTIFY", "REPLY"} : Handles(m, type)
        /\ UNCHANGED <<inbox, loop, deferred>>
    BY <1>6 DEF StartRefused, NotifyRefused, ReplyUnknown, Dropped, StartSequence, StartHandler,
       ReplyEndsRequest, ReplyEndsWait, ReplyQueued, Replied
  <2> QED BY <1>0, <2>1 DEF Handles, Scheduling, HandlesOne
<1> QED BY <1>1, <1>2, <1>3, <1>4, <1>5, <1>6 DEF Sched

\* What the scheduler frees has replied, or never will.
LEMMA SchedCovers ==
  ASSUME NEW m \in Modules, SchedFibers(m), notify_clients' = notify_clients
  PROVE  \A k \in Modules : Cover(k) \subseteq Cover(k)'
<1>1. ASSUME NEW p \in Modules, NEW f \in Live(p), NEW k \in Modules, WillReply(fib[f], k)
      PROVE  f \in Live(p)' /\ WillReply(fib'[f], k)
  BY <1>1 DEF SchedFibers, SamePlace, WillReply
<1>2. ASSUME NEW k \in Modules, NEW x \in Cover(k) PROVE x \in Cover(k)'
  <2>1. x \in Modules \X ClientId /\ x[1] \in Modules
    BY <1>2 DEF Cover
  <2>2. CASE IsListenerAt(x[1], k, x[2])
    BY <2>1, <2>2 DEF Cover, IsListenerAt
  <2>3. ASSUME NEW f \in Live(x[1]), WillReply(fib[f], k) PROVE x \in Cover(k)'
    <3>1. f \in Live(x[1])' /\ WillReply(fib[f], k)'
      BY <1>1, <2>1, <2>3 DEF WillReply
    <3> QED BY <2>1, <3>1 DEF Cover
  <2> QED BY <1>2, <2>2, <2>3 DEF Cover
<1> QED BY <1>2

\* The stream of a module through a step of its scheduler.
LEMMA NotifySched ==
  ASSUME TypeInv, FiberInv, NotifyInv, NEW m \in Modules, Sched(m) \/ SpuriousWake(m)
  PROVE  NotifyInv'
<1>0. /\ TypeOK /\ SchedFibers(m) /\ UNCHANGED <<notify_clients, nr_module, stop>>
      /\ evs[m] \in Seq(Event) /\ inbox[m] \in Seq(Event) /\ deferred[m] \in Seq(Event)
  BY SchedMoves, QueueTypes DEF TypeInv
<1>1. /\ HandlesOne(m) \/ TakesAll(m) \/ Stops(m) \/ NoEvent(m)
      /\ \A k \in Modules \ {m} : /\ loop'[k] = loop[k] /\ inbox'[k] = inbox[k]
                                  /\ evs'[k] = evs[k] /\ deferred'[k] = deferred[k]
  BY <1>0, SchedStream
<1>2. \A k \in Modules : Cover(k) \subseteq Cover(k)'
  BY <1>0, SchedCovers
<1>3. \A k \in Modules : stop'[k] \/ loop'[k] = "stopped" => nr_module' = 0
  <2>1. loop'[m] = "stopped" => stop[m] \/ loop[m] = "stopped"
    BY <1>1 DEF HandlesOne, TakesAll, Stops, NoEvent
  <2> QED BY <1>0, <1>1, <2>1 DEF NotifyInv
<1>4. loop'[m] # "run" => evs'[m] = <<>>
  BY <1>1 DEF HandlesOne, TakesAll, Stops, NoEvent, NotifyInv
<1>5. NoNotify(deferred'[m])
  <2>1. CASE deferred'[m] = deferred[m]
    BY <2>1 DEF NotifyInv
  <2>2. CASE deferred'[m] = StillDeferred(m)
    BY <2>2 DEF NotifyInv, StillDeferred, NoNotify
  <2>3. CASE /\ deferred'[m] = Append(deferred[m], Head(evs[m])) /\ Head(evs[m]).type # "NOTIFY"
             /\ evs[m] # <<>>
    <3> DEFINE d == deferred[m]
               e == Head(evs[m])
    <3>1. d \in Seq(Event) /\ e \in Event /\ NoNotify(d) /\ e.type # "NOTIFY"
          /\ deferred'[m] = Append(d, e)
      BY <1>0, <2>3, HeadEvent DEF NotifyInv
    <3> HIDE DEF d, e
    <3>2. /\ Len(d) \in Nat /\ DOMAIN d = 1..Len(d) /\ DOMAIN Append(d, e) = 1..(Len(d) + 1)
          /\ \A i \in 1..Len(d) : Append(d, e)[i] = d[i]
          /\ Append(d, e)[Len(d) + 1] = e
      BY <3>1, AppendProperties, LenProperties
    <3>3. ASSUME NEW i \in 1..(Len(d) + 1) PROVE Append(d, e)[i].type # "NOTIFY"
      <4>1. i = Len(d) + 1 \/ i \in 1..Len(d)
        BY <3>2
      <4> QED BY <3>1, <3>2, <4>1 DEF NoNotify
    <3> QED BY <3>1, <3>2, <3>3 DEF NoNotify
  <2> QED BY <1>1, <2>1, <2>2, <2>3 DEF HandlesOne, TakesAll, Stops, NoEvent
<1>6. ASSUME nr_module > 0 PROVE NotifyOk(Stream(m)', Cover(m))
  <2>1. NotifyOk(Stream(m), Cover(m)) /\ ~stop[m]
    BY <1>6 DEF NotifyInv
  <2>2. Stream(m)' = evs'[m] \o inbox'[m]
    BY DEF Stream
  <2>3. CASE HandlesOne(m)
    <3>1. Stream(m) # <<>> /\ Stream(m)' = Tail(Stream(m))
      BY <1>0, <2>2, <2>3, TailConcat DEF HandlesOne, Stream
    <3>2. Stream(m) \in Seq(Event)
      BY <1>0, QueueTypes
    <3> QED BY <2>1, <3>1, <3>2, TailStream
  <2>4. CASE TakesAll(m)
    <3>1. Stream(m) = inbox[m]
      BY <1>0, <2>4, ConcatEmptySeq DEF TakesAll, NotifyInv, Stream
    <3>2. Refilled(m) \in Seq(Event) /\ Stream(m)' = Refilled(m)
      BY <1>0, <2>2, <2>4, ConcatEmptySeq, ConcatProperties DEF TakesAll, Refilled
    <3>3. NotifyOk(deferred[m] \o inbox[m], Cover(m)) /\ NotifyOk(inbox[m], Cover(m))
      BY <1>0, <2>1, <3>1, RefilledStream DEF NotifyInv
    <3> QED BY <3>2, <3>3 DEF Refilled
  <2>5. CASE NoEvent(m)
    BY <2>1, <2>5 DEF NoEvent, Stream
  <2> QED BY <1>1, <2>1, <2>3, <2>4, <2>5 DEF Stops
<1>7. ASSUME nr_module > 0, NEW k \in Modules \ {m} PROVE NotifyOk(Stream(k)', Cover(k))
  BY <1>1, <1>7 DEF NotifyInv, Stream
<1>8. ASSUME nr_module' > 0, NEW k \in Modules PROVE NotifyOk(Stream(k), Cover(k))'
  <2>1. NotifyOk(Stream(k)', Cover(k)) /\ Cover(k) \subseteq Cover(k)'
    BY <1>0, <1>2, <1>6, <1>7, <1>8
  <2>2. NotifyOk(Stream(k)', Cover(k)')
    BY <2>1, WiderCover
  <2> QED BY <2>2 DEF NotifyOk, ReplyBehind
<1>9. \A k \in Modules : NoNotify(deferred'[k]) /\ (loop'[k] # "run" => evs'[k] = <<>>)
  BY <1>1, <1>4, <1>5 DEF NotifyInv
<1> QED BY <1>3, <1>8, <1>9 DEF NotifyInv, NoNotify

-----------------------------------------------------------------------------
(* Steps of the sequences *)

\* A call that is no reply leaves the reply still to come.
LEMMA StillReplies ==
  ASSUME TypeInv, FiberInv, CollectInv, NEW m \in Modules, NEW f \in Fibers, Running(m, f),
         NEW c \in NextCalls(m), NEW k, WillReply(fib[f], k), c.op # "reply",
         NEW r, Onward(fib[f], r, c)
  PROVE  WillReply(r, k)
<1> DEFINE body == Script[fib[f].mod][fib[f].fn]
           pc == fib[f].pc
           n == Len(body)
<1>0. f \in Live(m)
  BY Current
<1>1. n \in Nat /\ DOMAIN body = 1..n /\ pc \in 1..(n + 1)
  BY <1>0, BodyLedgers DEF CollectInv, Collected
<1>2. \/ pc \in DOMAIN body /\ c \in body[pc]
      \/ pc \notin DOMAIN body /\ c.op = "return"
  BY CallAtPlace
<1>3. /\ ~fib[f].done /\ fib[f].reply_to = k
      /\ \E l \in DOMAIN body :
           /\ l >= pc /\ \A d \in body[l] : d.op = "reply"
           /\ \A j \in pc..l : \A d \in body[j] : d.op # "return"
  BY DEF WillReply, RepliesFrom
<1>4. /\ r.mod = fib[f].mod /\ r.fn = fib[f].fn /\ r.reply_to = fib[f].reply_to
      /\ \/ c.op # "return" /\ r.done = fib[f].done /\ r.pc \in {pc, pc + 1}
         \/ c.op = "return" /\ r.done
  BY DEF Onward
<1>5. RepliesFrom(Script[r.mod][r.fn], r.pc) <=> RepliesFrom(body, r.pc)
  BY <1>4
<1> HIDE DEF body, pc, n
<1>6. PICK l \in 1..n :
        /\ l >= pc /\ \A d \in body[l] : d.op = "reply"
        /\ \A j \in pc..l : \A d \in body[j] : d.op # "return"
  BY <1>1, <1>3
<1>7. pc \in 1..n /\ c \in body[pc] /\ pc \in pc..l
  BY <1>1, <1>2, <1>6
<1>8. c.op # "return" /\ l # pc
  BY <1>6, <1>7
<1>9. l >= pc + 1 /\ \A j \in (pc + 1)..l : j \in pc..l
  BY <1>1, <1>6, <1>7, <1>8
<1>10. RepliesFrom(body, pc) /\ RepliesFrom(body, pc + 1)
  BY <1>1, <1>6, <1>9 DEF RepliesFrom
<1>11. r.pc = pc \/ r.pc = pc + 1
  BY <1>4, <1>8
<1>12. RepliesFrom(body, r.pc)
  BY <1>10, <1>11
<1> QED BY <1>3, <1>4, <1>5, <1>8, <1>12 DEF WillReply

\* What a call leaves covered: all but what its own reply uncovers.
LEMMA CallCovers ==
  ASSUME TypeInv, FiberInv, CollectInv, NEW m \in Modules, NEW f \in Fibers, Running(m, f),
         NEW c \in NextCalls(m), NEW r, fib' = [fib EXCEPT ![f] = r], Onward(fib[f], r, c),
         fibers' = fibers,
         \A p, k \in Modules : \A cid \in ClientId :
           IsListenerAt(p, k, cid) => IsListenerAt(p, k, cid)' \/ (p = m /\ WillReply(r, k)),
         NEW k \in Modules, NEW x \in Cover(k)
  PROVE  x \in Cover(k)' \/ (c.op = "reply" /\ fib[f].reply_to = k /\ x[1] = m)
<1>0. /\ f \in Live(m) /\ fib \in [Fibers -> Fiber] /\ \A p \in Modules : Live(p)' = Live(p)
      /\ x \in Modules \X ClientId /\ x[1] \in Modules /\ x[2] \in ClientId
  BY Current DEF TypeInv, TypeOK, Live, Cover
<1>1. \A p \in Modules : WillReply(r, k) /\ p = m => \E g \in Live(p)' : WillReply(fib[g], k)'
  BY <1>0 DEF WillReply
<1>2. CASE IsListenerAt(x[1], k, x[2])
  <2>1. IsListenerAt(x[1], k, x[2])' \/ (x[1] = m /\ WillReply(r, k))
    BY <1>0, <1>2
  <2>2. IsListenerAt(x[1], k, x[2])' \/ \E g \in Live(x[1])' : WillReply(fib[g], k)'
    BY <1>0, <1>1, <2>1
  <2> QED BY <1>0, <2>2 DEF Cover
<1>3. ASSUME NEW g \in Live(x[1]), WillReply(fib[g], k)
      PROVE  x \in Cover(k)' \/ (c.op = "reply" /\ fib[f].reply_to = k /\ x[1] = m)
  <2>1. CASE g # f
    <3>1. g \in Fibers
      BY <1>0, <1>3, RefersType DEF TypeInv, Refers
    <3>2. g \in Live(x[1])' /\ WillReply(fib[g], k)'
      BY <1>0, <1>3, <2>1, <3>1 DEF WillReply
    <3> QED BY <1>0, <3>2 DEF Cover
  <2>2. CASE g = f
    <3>1. x[1] = m
      BY <1>0, <1>3, <2>2 DEF FiberInv, HeapOk
    <3>2. c.op = "reply" => fib[f].reply_to = k
      BY <1>3, <2>2 DEF WillReply
    <3>3. c.op # "reply" => WillReply(r, k)
      BY <1>3, <2>2, StillReplies
    <3>4. c.op # "reply" => \E h \in Live(x[1])' : WillReply(fib[h], k)'
      BY <1>0, <1>1, <3>1, <3>3
    <3> QED BY <1>0, <3>1, <3>2, <3>4 DEF Cover
  <2> QED BY <2>1, <2>2
<1> QED BY <1>2, <1>3 DEF Cover

\* The calls that leave the lists of listeners alone.
LEMMA NotifyPlainCalls ==
  ASSUME TypeInv, FiberInv, CollectInv, NotifyInv,
         NEW m \in Modules, NEW f \in Fibers, Running(m, f), NEW c \in NextCalls(m),
         Calls(m, f, c)
  PROVE  NotifyInv'
<1>0. TypeOK /\ c \in Call /\ fib[f] \in Fiber
  BY CallType, FiberType DEF TypeInv, Running
<1>1. PICK r : fib' = [fib EXCEPT ![f] = r] /\ Onward(fib[f], r, c) /\ r.reg = NotReg
  BY CallMoves
<1>2. UNCHANGED <<fibers, notify_clients, nr_module, stop, loop, evs, deferred>>
  BY CallMoves
<1>3. \A p, k \in Modules : \A cid \in ClientId :
        IsListenerAt(p, k, cid) => IsListenerAt(p, k, cid)'
  BY <1>2 DEF IsListenerAt
<1>4. \A k \in Modules : \A x \in Cover(k) :
        x \in Cover(k)' \/ (c.op = "reply" /\ fib[f].reply_to = k /\ x[1] = m)
  <2>1. /\ fibers' = fibers
        /\ \A p, k \in Modules : \A cid \in ClientId :
             IsListenerAt(p, k, cid) => IsListenerAt(p, k, cid)' \/ (p = m /\ WillReply(r, k))
    BY <1>2, <1>3
  <2>2. SUFFICES ASSUME NEW k \in Modules, NEW x \in Cover(k)
                 PROVE  x \in Cover(k)' \/ (c.op = "reply" /\ fib[f].reply_to = k /\ x[1] = m)
    OBVIOUS
  <2> QED BY <1>1, <2>1, CallCovers
<1>5. CASE Request(m, f, c) \/ RequestAsync(m, f, c) \/ Send(m, f, c)
  <2> DEFINE e == StartEv(c.seq, next_req_id[m], m)
  <2>1. Post(c.to, e) /\ c.op # "reply"
    BY <1>5 DEF Request, RequestAsync, Send
  <2>2. e \in Event /\ e.type = "START" /\ c.to \in Int
    <3>1. next_req_id[m] \in Int /\ c.seq \in Name /\ c.to \in Int
      BY <1>0 DEF TypeOK, Call
    <3>2. e \in Event
      BY <3>1, EvType
    <3> QED BY <3>1, <3>2 DEF StartEv, Ev
  <2> HIDE DEF e
  <2> QED BY <1>0, <1>2, <1>4, <2>1, <2>2, PostKeeps
<1>6. CASE ReplyToModule(m, f, c)
  <2> DEFINE e == ReplyEv(fib[f].reply_req_id, m, c.arg)
             t == fib[f].reply_to
  <2>1. Post(t, e)
    BY <1>6 DEF ReplyToModule
  <2>2. e \in Event /\ e.type = "REPLY" /\ e.requester = m /\ t \in Int
    <3>1. t \in Int /\ fib[f].reply_req_id \in Int /\ c.arg \in Argument
      BY <1>0, FiberType, ModuleIndex DEF Call
    <3>2. e \in Event
      BY <3>1, EvType
    <3> QED BY <3>1, <3>2 DEF ReplyEv, Ev
  <2>3. \A k \in Modules : \A x \in Cover(k) : x \in Cover(k)' \/ (k = t /\ e.requester = x[1])
    BY <1>4, <2>2
  <2> HIDE DEF e, t
  <2> QED BY <1>0, <1>2, <2>1, <2>2, <2>3, PostKeeps
<1>7. CASE \/ NothingToCollect(m, f, c) \/ CollectQueued(m, f, c) \/ WaitForReply(m, f, c)
           \/ ReplyToExternal(m, f, c) \/ WaitTimeout(m, f, c) \/ Lock(m, f, c)
           \/ Unlock(m, f, c) \/ Return(m, f, c)
  <2>1. inbox' = inbox /\ (c.op = "reply" => fib[f].reply_to = EXTERNAL)
    BY <1>7 DEF NothingToCollect, CollectQueued, WaitForReply, ReplyToExternal, WaitTimeout, Lock,
                Unlock, Return, Collects
  <2>2. EXTERNAL \notin Modules
    BY DEF EXTERNAL, Modules
  <2> QED BY <1>2, <1>4, <2>1, <2>2, QuietKeeps
<1> QED BY <1>5, <1>6, <1>7 DEF Calls

\* A registration added.
LEMMA RegKeepsListeners ==
  ASSUME TypeOK, NEW m \in Modules, NEW l, notify_clients' = [notify_clients EXCEPT ![m] = <<l>> \o @],
         NEW p \in Modules, NEW k, NEW cid, IsListenerAt(p, k, cid)
  PROVE  IsListenerAt(p, k, cid)'
<1>0. notify_clients \in [Modules -> Seq(ListenerEntry)]
  BY DEF TypeOK
<1>1. PICK i \in DOMAIN notify_clients[p] :
        notify_clients[p][i].listener_module = k /\ notify_clients[p][i].client_id = cid
  BY DEF IsListenerAt
<1>2. notify_clients[p][i] \in ToSet(notify_clients'[p])
  <2>1. CASE p = m
    <3> DEFINE q == notify_clients[p]
               S == ListenerEntry \cup {l}
    <3>1. q \in Seq(S) /\ l \in S /\ notify_clients'[p] = <<l>> \o q
      BY <1>0, <2>1, SeqMonotonic
    <3>2. q[i] \in ToSet(q)
      BY <1>1 DEF ToSet
    <3> HIDE DEF q, S
    <3>3. ToSet(<<l>> \o q) = {l} \cup ToSet(q)
      BY <3>1, ConsSeq
    <3> QED BY <3>1, <3>2, <3>3 DEF q
  <2>2. CASE p # m
    BY <1>0, <1>1, <2>2 DEF ToSet
  <2> QED BY <2>1, <2>2
<1> QED BY <1>1, <1>2 DEF ToSet, IsListenerAt

\* A registration taken off: the sequence that did it has its reply still to make,
\* to the module that was registered.
LEMMA UnregKeeps ==
  ASSUME UnregThenReplies, OwnUnregister, TypeInv, FiberInv, CollectInv,
         NEW m \in Modules, NEW f \in Fibers, Running(m, f), NEW c \in NextCalls(m),
         NEW cid \in ClientId, NEW i \in DOMAIN notify_clients[m], UnregNotify(m, f, c, cid, i),
         NEW p \in Modules, NEW k \in Modules, NEW id, IsListenerAt(p, k, id)
  PROVE  IsListenerAt(p, k, id)' \/ (p = m /\ WillReply(Past(f), k))
<1>0. /\ notify_clients \in [Modules -> Seq(ListenerEntry)] /\ fib[f] \in Fiber
      /\ f \in Live(m) /\ ~fib[f].done /\ current[m] = f /\ f # NoFiber
  BY Current DEF TypeInv, TypeOK, RecordOk
<1>1. PICK j \in DOMAIN notify_clients[p] :
        notify_clients[p][j].listener_module = k /\ notify_clients[p][j].client_id = id
  BY DEF IsListenerAt
<1>2. notify_clients' = [notify_clients EXCEPT ![m] = RemoveAt(notify_clients[m], i)]
  BY <1>0 DEF UnregNotify
<1>3. CASE p # m
  BY <1>0, <1>1, <1>2, <1>3 DEF IsListenerAt
<1>4. CASE p = m /\ notify_clients[m][j] # notify_clients[m][i]
  <2> DEFINE q == notify_clients[m]
  <2>1. q \in Seq(ListenerEntry) /\ notify_clients'[m] = RemoveAt(q, i)
    BY <1>0, <1>2
  <2>2. q[j] \in ToSet(q) \ {q[i]}
    BY <1>1, <1>4 DEF ToSet
  <2> HIDE DEF q
  <2>3. q[j] \in ToSet(RemoveAt(q, i))
    BY <2>1, <2>2, RemoveKeepsOthers DEF q
  <2>4. notify_clients[m][j] \in ToSet(notify_clients'[m])
    BY <2>1, <2>3 DEF q
  <2> QED BY <1>1, <1>4, <2>4 DEF ToSet, IsListenerAt
<1>5. CASE p = m /\ notify_clients[m][j] = notify_clients[m][i]
  <2>1. fib[f].reply_to = k
    BY <1>0, <1>1, <1>5 DEF OwnUnregister
  <2>2. RepliesFrom(Script[fib[f].mod][fib[f].fn], fib[f].pc + 1)
    <3>1. c.op = "unreg_notify"
      BY DEF UnregNotify
    <3>2. /\ \/ /\ fib[f].pc \in DOMAIN Script[fib[f].mod][fib[f].fn]
                /\ c \in Script[fib[f].mod][fib[f].fn][fib[f].pc]
             \/ c.op = "return"
          /\ fib[f].fn \in DOMAIN Script[fib[f].mod] /\ fib[f].mod \in Modules
      BY <1>0, CallAtPlace, BodyLedgers
    <3> QED BY <3>1, <3>2 DEF UnregThenReplies
  <2> DEFINE r == Past(f)
  <2>3. /\ r.mod = fib[f].mod /\ r.fn = fib[f].fn /\ r.reply_to = fib[f].reply_to
        /\ r.done = fib[f].done /\ r.pc = fib[f].pc + 1
    BY <1>0 DEF Past, Fiber
  <2> HIDE DEF r
  <2>4. WillReply(r, k)
    BY <1>0, <2>1, <2>2, <2>3 DEF WillReply
  <2> QED BY <1>5, <2>4 DEF r
<1> QED BY <1>3, <1>4, <1>5

\* The calls of notifications.
LEMMA NotifyNotifyCalls ==
  ASSUME UnregThenReplies, OwnUnregister, TypeInv, FiberInv, CollectInv, NotifyInv,
         NEW m \in Modules, NEW f \in Fibers, Running(m, f), NEW c \in NextCalls(m),
         NotifyCalls(m, f, c)
  PROVE  NotifyInv'
<1>0. /\ TypeOK /\ fib[f] \in Fiber /\ notify_clients \in [Modules -> Seq(ListenerEntry)]
  BY FiberType DEF TypeInv, TypeOK
<1>1. UNCHANGED <<fibers, nr_module, stop, loop, evs, deferred>>
  BY NotifyMoves
<1>2. c.op # "reply"
  BY DEF NotifyCalls, RegRefused, RegTest, RegWrap, RegRead, RegWrite, UnregNotify, UnregUnknown,
         NotifyOne, NotifyDone, Registering, Notifying
<1>3. ASSUME NEW r, fib' = [fib EXCEPT ![f] = r], Onward(fib[f], r, c),
             \A p, k \in Modules : \A id \in ClientId :
               IsListenerAt(p, k, id) => IsListenerAt(p, k, id)' \/ (p = m /\ WillReply(r, k))
      PROVE  \A k \in Modules : Cover(k) \subseteq Cover(k)'
  <2>1. SUFFICES ASSUME NEW k \in Modules, NEW x \in Cover(k) PROVE x \in Cover(k)'
    OBVIOUS
  <2>2. x \in Cover(k)' \/ (c.op = "reply" /\ fib[f].reply_to = k /\ x[1] = m)
    BY <1>1, <1>3, CallCovers
  <2> QED BY <1>2, <2>2
<1>4. ASSUME NEW cid \in ClientId, NEW i \in DOMAIN notify_clients[m], UnregNotify(m, f, c, cid, i)
      PROVE  NotifyInv'
  <2> DEFINE r == Past(f)
  <2>1. fib' = [fib EXCEPT ![f] = r] /\ inbox' = inbox /\ c.op # "return"
    BY <1>4 DEF UnregNotify
  <2>2. /\ r.mod = fib[f].mod /\ r.fn = fib[f].fn /\ r.reply_to = fib[f].reply_to
        /\ r.reply_req_id = fib[f].reply_req_id /\ r.done = fib[f].done /\ r.pc = fib[f].pc + 1
        /\ r.rq = fib[f].rq
    BY <1>0 DEF Past, Fiber
  <2>3. \A p, k \in Modules : \A id \in ClientId :
          IsListenerAt(p, k, id) => IsListenerAt(p, k, id)' \/ (p = m /\ WillReply(r, k))
    BY <1>4, UnregKeeps
  <2> HIDE DEF r
  <2>4. Onward(fib[f], r, c)
    BY <2>1, <2>2 DEF Onward
  <2> QED BY <1>1, <1>3, <2>1, <2>3, <2>4, QuietKeeps
<1>5. CASE RegWrite(m, f, c)
  <2>1. PICK r : fib' = [fib EXCEPT ![f] = r] /\ Onward(fib[f], r, c)
    BY NotifyMoves
  <2>2. inbox' = inbox
        /\ \E l : notify_clients' = [notify_clients EXCEPT ![m] = <<l>> \o @]
    BY <1>5 DEF RegWrite
  <2>3. \A p, k \in Modules : \A id \in ClientId :
          IsListenerAt(p, k, id) => IsListenerAt(p, k, id)' \/ (p = m /\ WillReply(r, k))
    BY <1>0, <2>2, RegKeepsListeners
  <2> QED BY <1>1, <1>3, <2>1, <2>2, <2>3, QuietKeeps
<1>6. CASE notify_clients' = notify_clients
  <2>1. PICK r : fib' = [fib EXCEPT ![f] = r] /\ Onward(fib[f], r, c)
    BY NotifyMoves
  <2>2. \A p, k \in Modules : \A id \in ClientId :
          IsListenerAt(p, k, id) => IsListenerAt(p, k, id)' \/ (p = m /\ WillReply(r, k))
    BY <1>6 DEF IsListenerAt
  <2>3. \A k \in Modules : Cover(k) \subseteq Cover(k)'
    BY <1>3, <2>1, <2>2
  <2>4. ASSUME NEW i, NotifyOne(m, f, c, i) PROVE NotifyInv'
    <3>1. /\ i \in DOMAIN notify_clients[m]
          /\ Post(notify_clients[m][i].listener_module, NotifyEv(m, notify_clients[m][i].client_id))
      BY <2>4 DEF NotifyOne, LeftToNotify
    <3>2. PICK l \in ListenerEntry : l = notify_clients[m][i]
      BY <1>0, <3>1, ElementOfSeq, LenProperties
    <3>3. PICK t \in Int : t = l.listener_module
      BY <3>2, ModuleIndex, 0 \in Int DEF ListenerEntry
    <3>4. PICK e \in Event : e = NotifyEv(m, l.client_id)
      BY <3>2, EvType DEF ListenerEntry
    <3>5. e.requester = m /\ e.client_id = l.client_id /\ l.client_id \in ClientId
      BY <3>2, <3>4 DEF NotifyEv, Ev, ListenerEntry
    <3>6. t \in Modules => <<e.requester, e.client_id>> \in Cover(t)
      <4>1. IsListenerAt(m, t, l.client_id)
        BY <3>1, <3>2, <3>3 DEF IsListenerAt
      <4>2. <<m, l.client_id>>[1] = m /\ <<m, l.client_id>>[2] = l.client_id
        OBVIOUS
      <4> QED BY <3>5, <4>1, <4>2 DEF Cover
    <3>7. Post(t, e)
      BY <3>1, <3>2, <3>3, <3>4
    <3>8. t \in Modules /\ e.type = "NOTIFY" =>
            e.requester \in Modules /\ <<e.requester, e.client_id>> \in Cover(t)'
      <4>1. ASSUME t \in Modules PROVE <<e.requester, e.client_id>> \in Cover(t)'
        BY <2>3, <3>6, <4>1
      <4> QED BY <3>5, <4>1
    <3> QED BY <1>0, <1>1, <2>3, <3>7, <3>8, PostKeeps
  <2>5. CASE inbox' = inbox
    BY <1>1, <2>3, <2>5, QuietKeeps
  <2>6. inbox' = inbox \/ \E i : NotifyOne(m, f, c, i)
    BY DEF NotifyCalls, RegRefused, RegTest, RegWrap, RegRead, RegWrite, UnregNotify, UnregUnknown,
           NotifyDone
  <2> QED BY <2>4, <2>5, <2>6
<1>7. \/ RegWrite(m, f, c)
      \/ \E cid \in ClientId, i \in DOMAIN notify_clients[m] : UnregNotify(m, f, c, cid, i)
      \/ notify_clients' = notify_clients
  BY NotifyMoves
<1> QED BY <1>4, <1>5, <1>6, <1>7

\* The external threads and the owner.
LEMMA NotifyElsewhere ==
  ASSUME TypeInv, NotifyInv,
         \/ \E f \in Fibers : TimePasses(f)
         \/ \E c \in Clients : External(c)
         \/ Owner \/ UNCHANGED vars
  PROVE  NotifyInv'
<1>0. TypeOK /\ nr_module \in Nat
  BY ModulesAssumption DEF TypeInv, TypeOK
<1>1. UNCHANGED <<fib, fibers, notify_clients>> => \A k \in Modules : Cover(k)' = Cover(k)
  BY DEF Cover, IsListenerAt, WillReply, Live
<1>2. ASSUME NEW c \in Clients, NEW x \in ExtCalls, RequestSync(c, x) \/ ExtRequestAsync(c, x)
      PROVE  NotifyInv'
  <2> DEFINE e == StartEv(x.seq, ext_id, EXTERNAL)
  <2>1. /\ Post(x.to, e)
        /\ UNCHANGED <<fib, fibers, notify_clients, evs, deferred, loop, stop, nr_module>>
    BY <1>2 DEF RequestSync, ExtRequestAsync, schedVars, instVars, notifyVars
  <2>2. e \in Event /\ e.type = "START" /\ x.to \in Int
    <3>1. ext_id \in Int /\ x.seq \in Name /\ x.to \in Int
      BY <1>0, ExternalAssumption DEF TypeOK
    <3>2. e \in Event
      BY <3>1, EvType
    <3> QED BY <3>1, <3>2 DEF StartEv, Ev
  <2> HIDE DEF e
  <2> QED BY <1>0, <1>1, <2>1, <2>2, PostKeeps
<1>3. CASE \/ \E f \in Fibers : TimePasses(f)
           \/ \E c \in Clients : SyncReturns(c)
           \/ UNCHANGED vars
  <2>1. UNCHANGED <<fib, fibers, notify_clients, inbox, evs, deferred, loop, stop, nr_module>>
    BY <1>3 DEF TimePasses, SyncReturns, vars, schedVars, instVars, notifyVars
  <2> QED BY <1>1, <2>1, QuietKeeps
<1>4. CASE BeginTeardown \/ \E m \in Modules : StopModule(m)
  <2>1. nr_module' = 0 /\ UNCHANGED <<evs, deferred, loop>>
    BY <1>4 DEF BeginTeardown, StopModule, schedVars
  <2> QED BY <2>1 DEF NotifyInv
<1>5. CASE FreeModules
  <2>1. nr_module = 0 /\ UNCHANGED <<nr_module, stop, loop, evs>>
    BY <1>5, ModuleIndex DEF FreeModules, NotifyInv, instVars
  <2>2. \A m \in Modules : deferred'[m] = <<>>
    BY <1>5 DEF FreeModules
  <2> QED BY <2>1, <2>2 DEF NotifyInv, NoNotify
<1> QED BY <1>2, <1>3, <1>4, <1>5 DEF External, Owner

\* NotifyInv is inductive for such programs.
LEMMA NotifyStep ==
  ASSUME UnregThenReplies, OwnUnregister, TypeInv, FiberInv, CollectInv, NotifyInv, [Next]_vars
  PROVE  NotifyInv'
<1>1. ASSUME NEW m \in Modules, Sched(m) \/ SpuriousWake(m) PROVE NotifyInv'
  BY <1>1, NotifySched
<1>2. ASSUME NEW m \in Modules, Sequence(m) PROVE NotifyInv'
  <2>1. current[m] \in Fibers /\ Running(m, current[m])
    BY <1>2, CallType DEF Sequence, Running
  <2>2. PICK c \in NextCalls(m) : Calls(m, current[m], c) \/ NotifyCalls(m, current[m], c)
    BY <1>2 DEF Sequence
  <2> QED BY <2>1, <2>2, NotifyPlainCalls, NotifyNotifyCalls
<1> QED BY <1>1, <1>2, NotifyElsewhere DEF Next, Thread

\* coseq_unreg_notify and coseq_notify: in a program whose sequences take off the
\* list only the module they serve, and reply to it afterwards, no notification is
\* on its way to a module that is not registered any more behind the reply that
\* told it so.
THEOREM NotifyEndsWithReply ==
  CollectsBeforeReturn /\ UnregThenReplies =>
    (Spec /\ [][OwnUnregister]_vars => []NotifyStopsAfterUnregister)
<1> SUFFICES ASSUME CollectsBeforeReturn, UnregThenReplies
             PROVE  Spec /\ [][OwnUnregister]_vars => []NotifyStopsAfterUnregister
  OBVIOUS
<1>1. Init => NotifyInv
  <2> SUFFICES ASSUME Init PROVE NotifyInv
    OBVIOUS
  <2>1. \A m \in Modules : Stream(m) = <<>>
    BY DEF Init, Stream
  <2>2. NrModule > 0
    BY ModulesAssumption
  <2> QED BY <2>1, <2>2 DEF Init, NotifyInv, NotifyOk, NoNotify
<1>2. TypeInv /\ FiberInv /\ CollectInv /\ NotifyInv /\ [Next]_vars /\ [OwnUnregister]_vars
        => NotifyInv'
  <2> SUFFICES ASSUME TypeInv, FiberInv, CollectInv, NotifyInv, [Next]_vars, [OwnUnregister]_vars
               PROVE  NotifyInv'
    OBVIOUS
  <2>1. CASE UNCHANGED vars
    BY <2>1, NotifyElsewhere
  <2>2. CASE OwnUnregister
    BY <2>2, NotifyStep
  <2> QED BY <2>1, <2>2
<1>3. NotifyInv => NotifyStopsAfterUnregister
  <2> SUFFICES ASSUME NotifyInv, nr_module > 0, NEW m \in Modules, NEW i \in DOMAIN Stream(m),
                      Stream(m)[i].type = "NOTIFY"
               PROVE  LET e == Stream(m)[i] IN
                      \/ IsListenerAt(e.requester, m, e.client_id)
                      \/ \E f \in Live(e.requester) : ~fib[f].done /\ fib[f].reply_to = m
                      \/ ReplyBehind(Stream(m), i)
    BY DEF NotifyStopsAfterUnregister, ReplyBehind
  <2> DEFINE e == Stream(m)[i]
             x == <<e.requester, e.client_id>>
  <2>1. x \in Cover(m) \/ ReplyBehind(Stream(m), i)
    BY DEF NotifyInv, NotifyOk
  <2>2. x[1] = e.requester /\ x[2] = e.client_id
    OBVIOUS
  <2> HIDE DEF e, x
  <2>3. x \in Cover(m) => \/ IsListenerAt(e.requester, m, e.client_id)
                          \/ \E f \in Live(e.requester) : ~fib[f].done /\ fib[f].reply_to = m
    BY <2>2 DEF Cover, WillReply
  <2> QED BY <2>1, <2>3 DEF e
<1> QED BY <1>1, <1>2, <1>3, FiberInvariant, PTL DEF Spec
=============================================================================
