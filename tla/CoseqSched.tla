---------------------------- MODULE CoseqSched -----------------------------
(***************************************************************************)
(* sched_loop, the scheduler of one module.  A pass of the loop is         *)
(*                                                                         *)
(*   top / wait  under the module's mutex: put deferred events back when   *)
(*               the module is unlocked, sleep while there is nothing to   *)
(*               do, take the whole inbox;                                 *)
(*   run         resume the fibers whose timer has expired, then handle    *)
(*               the batch event by event, then reap the finished fibers.  *)
(*                                                                         *)
(* While current[m] is a fiber the thread is inside that fiber (the API    *)
(* modules), and no action of this module is enabled for m.                *)
(***************************************************************************)
EXTENDS CoseqBase

\* mutant of Refilled: deferred events wait for something new in the inbox
RefilledWithNews(m) ==
  IF locked_by[m] = NoFiber /\ inbox[m] # <<>> THEN deferred[m] \o inbox[m] ELSE inbox[m]

\* The events a pass starts from, and the deferred ones it leaves behind: an
\* unlocked module takes its deferred events back, ahead of the inbox.
Refilled(m)  == IF locked_by[m] = NoFiber THEN deferred[m] \o inbox[m] ELSE inbox[m]
StillDeferred(m) == IF locked_by[m] = NoFiber THEN <<>> ELSE deferred[m]

TimerExpired(m, f) == f \in Live(m) /\ "timer" \in fib[f].waits /\ f \in expired

\* mutant of Awake: a wait without a timeout
Posted(m) == inbox[m] # <<>>

\* What ends a sleep: a post, or the nearest timer the lock lets run.
Awake(m) ==
  \/ inbox[m] # <<>>
  \/ \E f \in Live(m) : TimerExpired(m, f) /\ ~LockedOut(m, f)

\* Nothing to do: pthread_cond_wait or pthread_cond_timedwait.
Sleep(m) ==
  /\ loop[m] = "top" /\ ~stop[m]
  /\ Refilled(m) = <<>>
  /\ loop' = [loop EXCEPT ![m] = "wait"]
  /\ UNCHANGED <<instVars, inbox, evs, due, deferred, fibers, lockVars,
                 notifyVars, extVars, current, pending, next_req_id, fib, expired>>

\* Take the inbox and look at the clock: due is what the clock has passed.
TakeInbox(m) ==
  /\ evs' = [evs EXCEPT ![m] = Refilled(m)]
  /\ inbox' = [inbox EXCEPT ![m] = <<>>]
  /\ deferred' = [deferred EXCEPT ![m] = StillDeferred(m)]
  /\ due' = [due EXCEPT ![m] = {f \in Live(m) : TimerExpired(m, f)}]
  /\ loop' = [loop EXCEPT ![m] = "run"]
  /\ UNCHANGED <<instVars, fibers, lockVars, notifyVars, extVars, current,
                 pending, next_req_id, fib, expired>>

StartPass(m) ==
  /\ ~stop[m]
  /\ \/ loop[m] = "top" /\ Refilled(m) # <<>>
     \/ loop[m] = "wait" /\ Awake(m)
  /\ TakeInbox(m)

\* A condition variable may wake with no reason.
SpuriousWake(m) ==
  /\ loop[m] = "wait" /\ ~stop[m] /\ ~Awake(m)
  /\ TakeInbox(m)

\* mutant of SeesStop: stop set without a signal
SeesStopAwake(m) == loop[m] = "top" /\ stop[m]
SeesStop(m) == loop[m] \in {"top", "wait"} /\ stop[m]

\* stop is looked at before the inbox: what is in it is never handled.
Stopped(m) ==
  /\ SeesStop(m)
  /\ loop' = [loop EXCEPT ![m] = "stopped"]
  /\ inbox' = [inbox EXCEPT ![m] = Refilled(m)]
  /\ deferred' = [deferred EXCEPT ![m] = StillDeferred(m)]
  /\ UNCHANGED <<instVars, evs, due, fibers, lockVars, notifyVars, extVars,
                 current, pending, next_req_id, fib, expired>>

-----------------------------------------------------------------------------
(* Expired timers, in the order of the list of fibers *)

Scheduling(m) == loop[m] = "run" /\ current[m] = NoFiber

FirstDue(m, f) ==
  \E i \in DOMAIN fibers[m] :
    fibers[m][i] = f /\ \A j \in 1..(i - 1) : fibers[m][j] \notin due[m]

\* mutants of PendingAfterTimer: the request is not given up; every request of
\* the fiber is
PendingKept(m, f) == pending
PendingOfFiberDropped(m, f) == [pending EXCEPT ![m] = {p \in @ : p.f # f}]

\* request_timeout that ran out: the request is given up, pending_take makes a
\* late reply unknown.  A plain timer leaves pending alone.
PendingAfterTimer(m, f) ==
  IF "reply" \in fib[f].waits THEN PendingTake(m, fib[f].wait_req_id) ELSE pending
AfterTimer(f) ==
  IF "reply" \in fib[f].waits
  THEN [fib[f] EXCEPT !.src = Src("REQ_TIMEOUT", 0, 0, fib[f].wait_req_id)]
  ELSE fib[f]

TimerFires(m, f) ==
  /\ Scheduling(m) /\ f \in due[m] /\ FirstDue(m, f)
  /\ ~LockedOut(m, f)
  /\ due' = [due EXCEPT ![m] = @ \ {f}]
  /\ pending' = PendingAfterTimer(m, f)
  /\ Resume(m, f, AfterTimer(f))
  /\ UNCHANGED <<instVars, inbox, loop, evs, deferred, fibers, lockVars,
                 notifyVars, extVars, next_req_id>>

\* The lock keeps the timers of the other fibers from firing.
TimerHeldBack(m, f) ==
  /\ Scheduling(m) /\ f \in due[m] /\ FirstDue(m, f)
  /\ LockedOut(m, f)
  /\ due' = [due EXCEPT ![m] = @ \ {f}]
  /\ UNCHANGED <<instVars, inbox, loop, evs, deferred, fibers, lockVars,
                 notifyVars, extVars, current, pending, next_req_id, fib, expired>>

-----------------------------------------------------------------------------
(* Events.  Each action handles the first event of the batch. *)

Handles(m, type) ==
  /\ Scheduling(m) /\ due[m] = {} /\ evs[m] # <<>>
  /\ Head(evs[m]).type = type
  /\ evs' = [evs EXCEPT ![m] = Tail(@)]

AwaitedBy(m, e, f) == Pending(e.req_id, f) \in pending[m]

\* mutants of MustDefer: every START passes; every reply does; none
\* does; only those to a holder that waits for one just now
DeferReplies(m, e) ==
  /\ locked_by[m] # NoFiber
  /\ e.type = "REPLY" /\ ~AwaitedBy(m, e, locked_by[m])
DeferStarts(m, e) == locked_by[m] # NoFiber /\ e.type = "START"
DeferAll(m, e) == locked_by[m] # NoFiber /\ e.type # "NOTIFY"
DeferIfBusy(m, e) ==
  /\ DeferAll(m, e)
  /\ ~(/\ e.type = "REPLY" /\ AwaitedBy(m, e, locked_by[m])
       /\ fib[locked_by[m]].waits \cap {"reply", "any"} # {})

\* A locked module only handles notifications and the replies its holder awaits.
MustDefer(m, e) ==
  /\ locked_by[m] # NoFiber
  /\ e.type # "NOTIFY"
  /\ ~(e.type = "REPLY" /\ AwaitedBy(m, e, locked_by[m]))

\* defer_ev
Defer(m) ==
  /\ \E type \in {"START", "REPLY"} : Handles(m, type)
  /\ MustDefer(m, Head(evs[m]))
  /\ deferred' = [deferred EXCEPT ![m] = Append(@, Head(evs[m]))]
  /\ UNCHANGED <<instVars, inbox, loop, due, fibers, lockVars, notifyVars,
                 extVars, current, pending, next_req_id, fib, expired>>

\* new_fiber and its first resume.
Launch(m, f, r) ==
  /\ fibers' = [fibers EXCEPT ![m] = <<f>> \o @]
  /\ Resume(m, f, r)

Dropped == UNCHANGED <<instVars, inbox, loop, due, deferred, fibers, lockVars,
                       notifyVars, extVars, current, pending, next_req_id, fib, expired>>

StartSequence(m, f) ==
  LET e == Head(evs[m]) IN
  /\ Handles(m, "START") /\ ~MustDefer(m, e)
  /\ e.seq \in Seqs(m) /\ f \in Unused
  /\ Launch(m, f, FreshFiber(m, e.seq, e.requester, e.req_id,
                             Src("IGNORE", e.requester, 0, e.req_id)))
  /\ UNCHANGED <<instVars, inbox, loop, due, deferred, lockVars, notifyVars,
                 extVars, pending, next_req_id>>

\* Unknown sequence, or no memory for the fiber: nobody is told.
StartRefused(m) ==
  LET e == Head(evs[m]) IN
  /\ Handles(m, "START") /\ ~MustDefer(m, e)
  /\ e.seq \notin Seqs(m) \/ Unused = {}
  /\ Dropped

StartHandler(m, f) ==
  LET e == Head(evs[m]) IN
  /\ Handles(m, "NOTIFY")
  /\ HasHandler(m) /\ f \in Unused
  /\ Launch(m, f, FreshFiber(m, "recv_notify", EXTERNAL, 0,
                             Src("SUCCESS", e.requester, e.client_id, 0)))
  /\ UNCHANGED <<instVars, inbox, loop, due, deferred, lockVars, notifyVars,
                 extVars, pending, next_req_id>>

NotifyRefused(m) ==
  /\ Handles(m, "NOTIFY")
  /\ ~HasHandler(m) \/ Unused = {}
  /\ Dropped

\* A reply nobody waits for any more: late after a timeout, or a second one.
ReplyUnknown(m) ==
  LET e == Head(evs[m]) IN
  /\ Handles(m, "REPLY") /\ ~MustDefer(m, e)
  /\ \A p \in pending[m] : p.req_id # e.req_id
  /\ Dropped

\* handle_reply: f is the fiber that made the request.
Replied(m, f, e) ==
  /\ Handles(m, "REPLY") /\ ~MustDefer(m, e)
  /\ AwaitedBy(m, e, f)
  /\ pending' = PendingTake(m, e.req_id)

\* mutant of AwaitsThis: any reply is taken for the awaited one
AwaitsSome(f, e) == "reply" \in fib[f].waits

\* f is inside this very request
AwaitsThis(f, e) == "reply" \in fib[f].waits /\ fib[f].wait_req_id = e.req_id

ReplySrc(e) == Src(e.result, e.requester, 0, e.req_id)

ReplyEndsRequest(m, f) ==
  LET e == Head(evs[m]) IN
  /\ Replied(m, f, e)
  /\ AwaitsThis(f, e)
  /\ Resume(m, f, [fib[f] EXCEPT !.src = ReplySrc(e)])
  /\ UNCHANGED <<instVars, inbox, loop, due, deferred, fibers, lockVars,
                 notifyVars, extVars, next_req_id>>

\* f sleeps in coseq_wait_reply; once awake it counts the reply as taken.
ReplyEndsWait(m, f) ==
  LET e == Head(evs[m]) IN
  /\ Replied(m, f, e)
  /\ ~AwaitsThis(f, e) /\ "any" \in fib[f].waits
  /\ Resume(m, f, [fib[f] EXCEPT !.src = ReplySrc(e), !.async_outstanding = @ - 1])
  /\ UNCHANGED <<instVars, inbox, loop, due, deferred, fibers, lockVars,
                 notifyVars, extVars, next_req_id>>

\* f does something else: the reply waits in its queue.
ReplyQueued(m, f) ==
  LET e == Head(evs[m]) IN
  /\ Replied(m, f, e)
  /\ ~AwaitsThis(f, e) /\ "any" \notin fib[f].waits
  /\ fib' = [fib EXCEPT ![f].rq = Append(@, [req_id |-> e.req_id, result |-> e.result])]
  /\ UNCHANGED <<instVars, inbox, loop, due, deferred, fibers, lockVars,
                 notifyVars, extVars, current, next_req_id, expired>>

-----------------------------------------------------------------------------
(* reap_done: one finished fiber at a time, then the next pass *)

PassOver(m) == Scheduling(m) /\ due[m] = {} /\ evs[m] = <<>>

\* mutant of LockAfterReap: the lock of a finished fiber is kept
LockKept(m, f) == locked_by

LockAfterReap(m, f) ==
  IF locked_by[m] = f THEN [locked_by EXCEPT ![m] = NoFiber] ELSE locked_by

Reap(m, i) ==
  /\ PassOver(m)
  /\ i \in DOMAIN fibers[m]
  /\ fib[fibers[m][i]].done /\ \A j \in 1..(i - 1) : ~fib[fibers[m][j]].done
  /\ locked_by' = LockAfterReap(m, fibers[m][i])
  /\ fibers' = [fibers EXCEPT ![m] = RemoveAt(@, i)]
  /\ UNCHANGED <<instVars, inbox, loop, evs, due, deferred, holding, notifyVars,
                 extVars, current, pending, next_req_id, fib, expired>>

EndPass(m) ==
  /\ PassOver(m)
  /\ \A f \in Live(m) : ~fib[f].done
  /\ loop' = [loop EXCEPT ![m] = "top"]
  /\ UNCHANGED <<instVars, inbox, evs, due, deferred, fibers, lockVars,
                 notifyVars, extVars, current, pending, next_req_id, fib, expired>>

-----------------------------------------------------------------------------
\* The clock passes the deadline of a waiting fiber.
TimePasses(f) ==
  /\ "timer" \in fib[f].waits /\ f \notin expired
  /\ expired' = expired \cup {f}
  /\ UNCHANGED <<instVars, inbox, schedVars, lockVars, notifyVars, extVars,
                 current, pending, next_req_id, fib>>

Sched(m) ==
  \/ Sleep(m) \/ StartPass(m) \/ Stopped(m)
  \/ \E f \in Fibers : TimerFires(m, f) \/ TimerHeldBack(m, f)
  \/ Defer(m) \/ StartRefused(m) \/ NotifyRefused(m) \/ ReplyUnknown(m)
  \/ \E f \in Fibers :
       \/ StartSequence(m, f) \/ StartHandler(m, f)
       \/ ReplyEndsRequest(m, f) \/ ReplyEndsWait(m, f) \/ ReplyQueued(m, f)
  \/ \E i \in DOMAIN fibers[m] : Reap(m, i)
  \/ EndPass(m)
=============================================================================
