------------------------------- MODULE Coseq -------------------------------
(***************************************************************************)
(* A coseq instance between setup and teardown: the modules' threads, each *)
(* in its scheduler (CoseqSched) or in a sequence (CoseqCalls,             *)
(* CoseqNotify), the external threads and the owner (CoseqInstance).       *)
(***************************************************************************)
EXTENDS CoseqSched, CoseqNotify, CoseqInstance

NoSrc == Src("IGNORE", 0, 0, 0)
BlankFiber == FreshFiber(0, "", EXTERNAL, 0, NoSrc)

\* _setup has returned: every module's thread is at the top of its loop.
Init ==
  /\ nr_module = NrModule
  /\ stop = [m \in Modules |-> FALSE]
  /\ inbox = [m \in Modules |-> <<>>]
  /\ loop = [m \in Modules |-> "top"]
  /\ evs = [m \in Modules |-> <<>>]
  /\ due = [m \in Modules |-> {}]
  /\ deferred = [m \in Modules |-> <<>>]
  /\ fibers = [m \in Modules |-> <<>>]
  /\ current = [m \in Modules |-> NoFiber]
  /\ locked_by = [m \in Modules |-> NoFiber]
  /\ pending = [m \in Modules |-> {}]
  /\ next_req_id = [m \in Modules |-> 1]
  /\ notify_clients = [m \in Modules |-> <<>>]
  /\ next_client_id = 0
  /\ fib = [f \in Fibers |-> BlankFiber]
  /\ expired = {}
  /\ ext = [wait_rid |-> NoRid, ready |-> FALSE, result |-> "IGNORE", msg |-> NoRid]
  /\ ext_id = 1
  /\ client = [c \in Clients |-> [rid |-> NoRid, waiting |-> FALSE, got |-> NoRid]]
  /\ holding = {}

\* One call, or one step of a call, of the sequence running on m.
Sequence(m) ==
  /\ current[m] # NoFiber
  /\ \E c \in NextCalls(m) : Calls(m, current[m], c) \/ NotifyCalls(m, current[m], c)

Thread(m) == Sched(m) \/ Sequence(m)

External(c) ==
  \/ \E x \in ExtCalls : RequestSync(c, x) \/ ExtRequestAsync(c, x)
  \/ SyncReturns(c)

Owner == BeginTeardown \/ (\E m \in Modules : StopModule(m)) \/ FreeModules

Next ==
  \/ \E m \in Modules : Thread(m) \/ SpuriousWake(m)
  \/ \E f \in Fibers : TimePasses(f)
  \/ \E c \in Clients : External(c)
  \/ Owner

Spec == Init /\ [][Next]_vars

(***************************************************************************)
(* Fairness: the kernel runs every thread that can run, a signalled or     *)
(* timed-out wait returns, the clock advances, a teardown that was begun   *)
(* goes on.  Nothing makes an external thread call, the owner tear down,   *)
(* or a wait return for no reason.                                         *)
(***************************************************************************)
Fairness ==
  /\ \A m \in Modules : WF_vars(Thread(m))
  /\ \A f \in Fibers : WF_vars(TimePasses(f))
  /\ \A c \in Clients : WF_vars(SyncReturns(c))
  /\ \A m \in Modules : WF_vars(StopModule(m))
  /\ WF_vars(FreeModules)

FairSpec == Spec /\ Fairness

\* bound: calloc hands out the first record that is free, where Fibers are numbers.
FirstFree == \A f, g \in Unused : f < g => (g \in Unused') \/ f \notin Unused'

-----------------------------------------------------------------------------
(* Types *)

Event == [type : {"START", "REPLY", "NOTIFY"}, seq : Name, req_id : Int,
          requester : Modules \cup {EXTERNAL}, result : Argument, client_id : ClientId]
PendingEntry == [req_id : Nat, f : Fibers]
Source == [result : Argument, thread_idx : 0..255, client_id : ClientId, req_id : Int]
Fiber == [mod : Modules, fn : Name, reply_to : Modules \cup {EXTERNAL}, reply_req_id : Int,
          pc : Nat, src : Source, waits : SUBSET {"reply", "timer", "any"},
          wait_req_id : Int, async_outstanding : Int,
          rq : Seq([req_id : Int, result : Argument]),
          done : BOOLEAN, reg : {NotReg, Tested, Wraps} \cup ClientId, fan : Nat, cat : Argument]
ListenerEntry == [category : Argument, listener_module : Modules, client_id : ClientId]

\* Every variable, and every field the C structs declare, keeps its type.
TypeOK ==
  /\ nr_module \in {0, NrModule}
  /\ stop \in [Modules -> BOOLEAN]
  /\ inbox \in [Modules -> Seq(Event)]
  /\ loop \in [Modules -> {"top", "wait", "run", "stopped"}]
  /\ evs \in [Modules -> Seq(Event)]
  /\ due \in [Modules -> SUBSET Fibers]
  /\ deferred \in [Modules -> Seq(Event)]
  /\ fibers \in [Modules -> Seq(Fibers)]
  /\ current \in [Modules -> Fibers \cup {NoFiber}]
  /\ locked_by \in [Modules -> Fibers \cup {NoFiber}]
  /\ pending \in [Modules -> SUBSET PendingEntry]
  /\ next_req_id \in [Modules -> Nat]
  /\ notify_clients \in [Modules -> Seq(ListenerEntry)]
  /\ next_client_id \in ClientId
  /\ fib \in [Fibers -> Fiber]
  /\ expired \subseteq Fibers
  /\ ext \in [wait_rid : Int, ready : BOOLEAN, result : Argument, msg : Int]
  /\ ext_id \in Nat
  /\ client \in [Clients -> [rid : Int, waiting : BOOLEAN, got : Int]]
  /\ holding \subseteq Fibers

-----------------------------------------------------------------------------
(* The inboxes *)

\* What Inbox implements: sched_loop handles the events of a module in the order they
\* were posted, once each, but for those the lock puts aside, and does not fall
\* asleep on one it could take.
Queues == INSTANCE EventQueue WITH
  Readers <- Modules, Item <- Event, locked <- {m \in Modules : locked_by[m] # NoFiber}
UsesEventQueues == Queues!Spec

-----------------------------------------------------------------------------
(* The lock *)

\* reap_done never leaves a lock with a fiber it frees: the holder of a running
\* module's lock is one of its live fibers.
LockHolderLive ==
  \A m \in Modules : loop[m] # "stopped" => locked_by[m] \in Live(m) \cup {NoFiber}

\* sched_loop never sleeps on deferred events unless a parked fiber holds the
\* lock: an unlock, or a holder that returned, puts them back in the batch.
NothingStranded ==
  \A m \in Modules :
    loop[m] = "wait" /\ deferred[m] # <<>> =>
      /\ locked_by[m] \in Live(m)
      /\ ~fib[locked_by[m]].done
      /\ fib[locked_by[m]].waits # {}

\* coseq_lock: between a fiber's lock and its unlock or return, nothing else of
\* its module runs but recv_notify handlers.
LockExclusion ==
  \A m \in Modules : \A f \in holding \cap Live(m) :
    current[m] \notin {NoFiber, f} => fib[current[m]].fn = "recv_notify"

-----------------------------------------------------------------------------
(* Requests and replies *)

\* handle_reply writes through the fiber of a pending entry: the fiber must be a
\* live one of the module.
PendingFibersLive ==
  \A m \in Modules : \A p \in pending[m] : p.f \in Live(m)

\* The pending entries of f that answer a coseq_request_async.
AsyncPending(m, f) ==
  {p \in pending[m] : p.f = f /\ ~("reply" \in fib[f].waits /\ p.req_id = fib[f].wait_req_id)}

\* coseq_wait_reply decides on async_outstanding whether to wait: it counts the
\* async requests still pending and the replies queued, no timed-out request
\* and no second reply among them.
AsyncAccounting ==
  \A m \in Modules : \A f \in Live(m) :
    fib[f].async_outstanding = Cardinality(AsyncPending(m, f)) + Len(fib[f].rq)

\* A fiber that is neither running nor finished is parked on something that can
\* still resume it: a timer, or a reply that pending leads back to it.
NoFiberForgotten ==
  \A m \in Modules : \A f \in Live(m) :
    loop[m] # "stopped" /\ f # current[m] /\ ~fib[f].done =>
      \/ "timer" \in fib[f].waits
      \/ "reply" \in fib[f].waits /\ Pending(fib[f].wait_req_id, f) \in pending[m]
      \/ "any" \in fib[f].waits /\ AsyncPending(m, f) # {}

\* A request returns with its own reply or its own timeout, whatever other replies
\* reach the fiber meanwhile.
RequestGetsItsReply ==
  [][\A f \in Fibers :
       "reply" \in fib[f].waits /\ "reply" \notin fib'[f].waits =>
         fib'[f].src.req_id = fib[f].wait_req_id]_vars

\* What the sequence s of module n may reply with.
ResultsOf(n, s) ==
  {x \in Argument : n \in Modules /\ s \in DOMAIN Script[n] /\
     \E i \in DOMAIN Script[n][s] : \E c \in Script[n][s][i] : c.op = "reply" /\ c.arg = x}

\* Whether module n may answer a sequence with the record r with the result x: one of
\* the calls it has made names a sequence of n that replies so.  The call is the request
\* at the place before pc, or an asynchronous one at any place before.
MayGet(c, n, x) == c.to = n /\ x \in ResultsOf(n, c.seq)
AskedInRequest(r, n, x) ==
  LET body == Script[r.mod][r.fn] IN
  \E i \in DOMAIN body : i + 1 = r.pc /\
    \E c \in body[i] : c.op \in {"request", "request_timeout"} /\ MayGet(c, n, x)
AskedBefore(r, n, x) ==
  LET body == Script[r.mod][r.fn] IN
  \E i \in DOMAIN body : i < r.pc /\
    \E c \in body[i] : c.op = "request_async" /\ MayGet(c, n, x)

\* The source of an answer is a module that was asked for it, and its result one that
\* the sequence asked for replies with: request ids are drawn from one counter, those
\* of coseq_send too, so that no reply to a send, and no late or second reply, meets
\* another request.  A reply that was queued has lost its source, but not its result.
AnswersComeFromCallee ==
  [][\A m \in Modules : \A f \in Live(m) :
       LET src == fib'[f].src IN
       /\ "reply" \in fib[f].waits /\ "reply" \notin fib'[f].waits =>
            src.result = "REQ_TIMEOUT" \/ AskedInRequest(fib[f], src.thread_idx, src.result)
       /\ "any" \in fib[f].waits /\ "any" \notin fib'[f].waits =>
            AskedBefore(fib[f], src.thread_idx, src.result)
       /\ Len(fib'[f].rq) < Len(fib[f].rq) =>
            \E n \in Modules : AskedBefore(fib[f], n, src.result)]_vars

\* By module and fiber: the request it is inside; the numbers of its asynchronous
\* requests it has no answer to yet, in pending or in its own queue.
Asking == [m \in Modules |-> Live(m)]
Inside ==
  [m \in Modules |-> [f \in Fibers |->
     IF f \in Live(m) /\ "reply" \in fib[f].waits THEN {fib[f].wait_req_id} ELSE {}]]
Owed ==
  [m \in Modules |-> [f \in Fibers |->
     IF f \in Live(m)
     THEN {p.req_id : p \in AsyncPending(m, f)} \cup {rr.req_id : rr \in ToSet(fib[f].rq)}
     ELSE {}]]
Handed == [f \in Fibers |-> fib[f].src.req_id]

\* pending, the wait flags and the reply queues do together what RequestReply says:
\* every request comes back once, every asynchronous answer is handed over once, to
\* the fiber that asked, and no fiber is reaped that is owed one.
Requests == INSTANCE RequestReply WITH
  Askers <- Modules, Sequences <- Fibers, asking <- Asking, next <- next_req_id,
  inside <- Inside, owed <- Owed, handed <- Handed
AnswersRequests == Requests!Spec

\* ext_deliver and request_sync: a thread that came back from request_sync has
\* the reply to the request it made, not to another's or to a request_async.
ClientGetsOwnReply ==
  \A c \in Clients : ~client[c].waiting => client[c].got = client[c].rid

\* coseq_wait_reply hands out async replies in the order they arrived: when one
\* reaches its fiber, no earlier one for the same fiber is still deferred.
ReachedByReply(f) ==
  \/ Len(fib'[f].rq) > Len(fib[f].rq)
  \/ "any" \in fib[f].waits /\ fib'[f].waits = {}
DeferredReplyFor(m, f) ==
  \E i \in DOMAIN deferred[m] :
    deferred[m][i].type = "REPLY" /\ AwaitedBy(m, deferred[m][i], f)
CollectsInArrivalOrder ==
  [][\A m \in Modules : \A f \in Live(m) :
       ReachedByReply(f) => ~DeferredReplyFor(m, f)]_vars

-----------------------------------------------------------------------------
(* Notifications *)

\* coseq_reg_notify: the registrations of an instance have distinct client ids,
\* whichever modules they were made with.
UniqueClientIds ==
  \A m, n \in Modules :
    \A i \in DOMAIN notify_clients[m] : \A j \in DOMAIN notify_clients[n] :
      notify_clients[m][i].client_id = notify_clients[n][j].client_id => <<m, i>> = <<n, j>>

\* ... and none is the sentinel that means "not registered".
SentinelNeverGiven ==
  \A m \in Modules : \A i \in DOMAIN notify_clients[m] :
    notify_clients[m][i].client_id # Unregistered

\* What the thread of m has been sent and has not handled, deferral apart.
Stream(m) == evs[m] \o inbox[m]
IsListenerAt(p, m, cid) ==
  \E i \in DOMAIN notify_clients[p] :
    notify_clients[p][i].listener_module = m /\ notify_clients[p][i].client_id = cid

\* A notification reaches a module only while it is registered, or ahead of the
\* reply to the request that ended the registration: as long as the instance is not
\* torn down, nothing more comes once coseq_unreg_notify was confirmed.
NotifyStopsAfterUnregister ==
  nr_module > 0 =>
    \A m \in Modules : \A i \in DOMAIN Stream(m) :
      LET e == Stream(m)[i] IN
      e.type = "NOTIFY" =>
        \/ IsListenerAt(e.requester, m, e.client_id)
        \/ \E f \in Live(e.requester) : ~fib[f].done /\ fib[f].reply_to = m
        \/ \E j \in DOMAIN Stream(m) :
             j > i /\ Stream(m)[j].type = "REPLY" /\ Stream(m)[j].requester = e.requester

-----------------------------------------------------------------------------
(* Liveness *)

\* As long as the instance is not torn down: request_sync to a sequence that replies
\* returns, ...
SyncRequestsReturn ==
  \A c \in Clients : client[c].waiting ~> (~client[c].waiting \/ nr_module = 0)

\* ... events deferred by a lock are taken back, ...
DeferredAreHandled ==
  \A m \in Modules : deferred[m] # <<>> ~> (deferred[m] = <<>> \/ nr_module = 0)

\* ... and coseq_request_timeout returns, whatever the module it asked does.
TimedRequestsReturn ==
  \A f \in Fibers :
    {"reply", "timer"} \subseteq fib[f].waits ~> (fib[f].waits = {} \/ nr_module = 0)

\* _teardown joins every thread: once begun, every scheduler stops.
TeardownEnds == (nr_module = 0) ~> \A m \in Modules : loop[m] = "stopped"
=============================================================================
