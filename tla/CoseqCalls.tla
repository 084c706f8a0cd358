---------------------------- MODULE CoseqCalls -----------------------------
(***************************************************************************)
(* The calls a running sequence makes: request, request_timeout,           *)
(* request_async, wait_reply, gather, send, reply, wait_timeout, lock,     *)
(* unlock, and returning from the sequence.  A call is one step of the     *)
(* module's thread: all it touches besides the posted event belongs to     *)
(* that thread.  A call that waits ends with a swap to the scheduler.      *)
(***************************************************************************)
EXTENDS CoseqBase

\* The calls the fiber running on m may make next; past the end it returns.
NextCalls(m) ==
  LET r == fib[current[m]]
      body == Script[r.mod][r.fn]
  IN IF r.pc \in DOMAIN body THEN body[r.pc] ELSE {ReturnCall}

\* The fiber f of m makes the call c.  It is not in the middle of another one:
\* coseq_reg_notify and coseq_notify (CoseqNotify) take several steps.
Running(m, f) == f = current[m] /\ f # NoFiber
Makes(m, f, c) ==
  /\ Running(m, f) /\ c \in NextCalls(m)
  /\ fib[f].reg = NotReg /\ fib[f].fan = 0

\* f goes past the call it is making.
Past(f) == [fib[f] EXCEPT !.pc = @ + 1]

RequestFlags(c) == IF c.op = "request_timeout" THEN {"reply", "timer"} ELSE {"reply"}

\* request_common
Request(m, f, c) ==
  LET rid == next_req_id[m] IN
  /\ Makes(m, f, c) /\ c.op \in {"request", "request_timeout"}
  /\ next_req_id' = [next_req_id EXCEPT ![m] = @ + 1]
  /\ pending' = PendingAdd(m, rid, f)
  /\ fib' = [fib EXCEPT ![f] = [Past(f) EXCEPT !.wait_req_id = rid,
                                               !.waits = @ \cup RequestFlags(c)]]
  /\ Post(c.to, StartEv(c.seq, rid, m))
  /\ Yield(m)
  /\ UNCHANGED <<instVars, schedVars, lockVars, notifyVars, extVars, expired>>

RequestAsync(m, f, c) ==
  LET rid == next_req_id[m] IN
  /\ Makes(m, f, c) /\ c.op = "request_async"
  /\ next_req_id' = [next_req_id EXCEPT ![m] = @ + 1]
  /\ pending' = PendingAdd(m, rid, f)
  /\ fib' = [fib EXCEPT ![f] = [Past(f) EXCEPT !.async_outstanding = @ + 1]]
  /\ Post(c.to, StartEv(c.seq, rid, m))
  /\ UNCHANGED <<instVars, schedVars, lockVars, notifyVars, extVars, current, expired>>

\* mutant of Send: no number of its own
SendUnnumbered(m, f, c) ==
  /\ Makes(m, f, c) /\ c.op = "send"
  /\ fib' = [fib EXCEPT ![f] = Past(f)]
  /\ Post(c.to, StartEv(c.seq, next_req_id[m], m))
  /\ UNCHANGED <<instVars, schedVars, lockVars, notifyVars, extVars, current,
                 next_req_id, pending, expired>>

\* coseq_send: a request that is not entered in pending.
Send(m, f, c) ==
  /\ Makes(m, f, c) /\ c.op = "send"
  /\ next_req_id' = [next_req_id EXCEPT ![m] = @ + 1]
  /\ fib' = [fib EXCEPT ![f] = Past(f)]
  /\ Post(c.to, StartEv(c.seq, next_req_id[m], m))
  /\ UNCHANGED <<instVars, schedVars, lockVars, notifyVars, extVars, current,
                 pending, expired>>

\* coseq_gather calls coseq_wait_reply until it returns NULL.
Collects(m, f, c) == Makes(m, f, c) /\ c.op \in {"wait_reply", "gather"}
AfterOne(f, c) == IF c.op = "gather" THEN fib[f] ELSE Past(f)

NothingToCollect(m, f, c) ==
  /\ Collects(m, f, c)
  /\ fib[f].async_outstanding = 0 /\ fib[f].rq = <<>>
  /\ fib' = [fib EXCEPT ![f] = Past(f)]
  /\ UNCHANGED <<instVars, inbox, schedVars, lockVars, notifyVars, extVars,
                 current, pending, next_req_id, expired>>

\* The queue does not keep who sent a reply: thread_idx is set to 0.
CollectQueued(m, f, c) ==
  LET rr == Head(fib[f].rq) IN
  /\ Collects(m, f, c)
  /\ fib[f].rq # <<>>
  /\ fib' = [fib EXCEPT ![f] = [AfterOne(f, c) EXCEPT
                                  !.rq = Tail(@), !.async_outstanding = @ - 1,
                                  !.src = Src(rr.result, 0, 0, rr.req_id)]]
  /\ UNCHANGED <<instVars, inbox, schedVars, lockVars, notifyVars, extVars,
                 current, pending, next_req_id, expired>>

WaitForReply(m, f, c) ==
  /\ Collects(m, f, c)
  /\ fib[f].async_outstanding # 0 /\ fib[f].rq = <<>>
  /\ fib' = [fib EXCEPT ![f] = [AfterOne(f, c) EXCEPT !.waits = @ \cup {"any"}]]
  /\ Yield(m)
  /\ UNCHANGED <<instVars, inbox, schedVars, lockVars, notifyVars, extVars,
                 pending, next_req_id, expired>>

\* coseq_reply to a module: whether anyone still waits is not known here.
ReplyToModule(m, f, c) ==
  /\ Makes(m, f, c) /\ c.op = "reply" /\ fib[f].reply_to # EXTERNAL
  /\ fib' = [fib EXCEPT ![f] = Past(f)]
  /\ Post(fib[f].reply_to, ReplyEv(fib[f].reply_req_id, m, c.arg))
  /\ UNCHANGED <<instVars, schedVars, lockVars, notifyVars, extVars, current,
                 pending, next_req_id, expired>>

\* ... and to an external thread; a recv_notify handler replies here, to 0.
ReplyToExternal(m, f, c) ==
  /\ Makes(m, f, c) /\ c.op = "reply" /\ fib[f].reply_to = EXTERNAL
  /\ fib' = [fib EXCEPT ![f] = Past(f)]
  /\ ext' = ExtDeliver(fib[f].reply_req_id, c.arg)
  /\ UNCHANGED <<instVars, inbox, schedVars, lockVars, notifyVars, ext_id, client,
                 current, pending, next_req_id, expired>>

WaitTimeout(m, f, c) ==
  /\ Makes(m, f, c) /\ c.op = "wait_timeout"
  /\ fib' = [fib EXCEPT ![f] = [Past(f) EXCEPT !.waits = @ \cup {"timer"}]]
  /\ Yield(m)
  /\ UNCHANGED <<instVars, inbox, schedVars, lockVars, notifyVars, extVars,
                 pending, next_req_id, expired>>

\* coseq_lock does not look at who holds the lock.
Lock(m, f, c) ==
  /\ Makes(m, f, c) /\ c.op = "lock"
  /\ locked_by' = [locked_by EXCEPT ![m] = f]
  /\ holding' = holding \cup {f}
  /\ fib' = [fib EXCEPT ![f] = Past(f)]
  /\ UNCHANGED <<instVars, inbox, schedVars, notifyVars, extVars, current,
                 pending, next_req_id, expired>>

LockAfterUnlock(m, f) ==
  IF locked_by[m] = f THEN [locked_by EXCEPT ![m] = NoFiber] ELSE locked_by

Unlock(m, f, c) ==
  /\ Makes(m, f, c) /\ c.op = "unlock"
  /\ locked_by' = LockAfterUnlock(m, f)
  /\ holding' = holding \ {f}
  /\ fib' = [fib EXCEPT ![f] = Past(f)]
  /\ UNCHANGED <<instVars, inbox, schedVars, notifyVars, extVars, current,
                 pending, next_req_id, expired>>

\* fiber_entry: the sequence has returned.
Return(m, f, c) ==
  /\ Makes(m, f, c) /\ c.op = "return"
  /\ fib' = [fib EXCEPT ![f].done = TRUE]
  /\ holding' = holding \ {f}
  /\ Yield(m)
  /\ UNCHANGED <<instVars, inbox, schedVars, locked_by, notifyVars, extVars,
                 pending, next_req_id, expired>>

Calls(m, f, c) ==
  \/ Request(m, f, c) \/ RequestAsync(m, f, c) \/ Send(m, f, c)
  \/ NothingToCollect(m, f, c) \/ CollectQueued(m, f, c) \/ WaitForReply(m, f, c)
  \/ ReplyToModule(m, f, c) \/ ReplyToExternal(m, f, c)
  \/ WaitTimeout(m, f, c) \/ Lock(m, f, c) \/ Unlock(m, f, c) \/ Return(m, f, c)
=============================================================================
