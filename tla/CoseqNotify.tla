---------------------------- MODULE CoseqNotify ----------------------------
(***************************************************************************)
(* Publish/subscribe: coseq_reg_notify, coseq_unreg_notify, coseq_notify.  *)
(* A registration is kept by the publishing module, in the list            *)
(* notify_clients of that module's thread.  Two things reach beyond the    *)
(* thread, so these calls take several steps: the client id comes from     *)
(* next_client_id, which every module's thread reads and writes with no    *)
(* lock, and coseq_notify posts to one listener after the other.           *)
(***************************************************************************)
EXTENDS CoseqCalls

Listener(category, listener, cid) ==
  [category |-> category, listener_module |-> listener, client_id |-> cid]

\* In coseq_reg_notify, past the test that refuses a sequence started from outside
\* and a handler: they have no module to register.
Registering(m, f, c) ==
  /\ Running(m, f) /\ c \in NextCalls(m) /\ c.op = "reg_notify"
  /\ fib[f].reply_to # EXTERNAL

RegRefused(m, f, c) ==
  /\ Makes(m, f, c) /\ c.op = "reg_notify"
  /\ fib[f].reply_to = EXTERNAL
  /\ fib' = [fib EXCEPT ![f] = Past(f)]
  /\ UNCHANGED <<instVars, inbox, schedVars, lockVars, notifyVars, extVars,
                 current, pending, next_req_id, expired>>

\* mutant of AfterTest: 0xff is given out
AfterNoTest(id) == Tested
AfterTest(id) == IF id = Unregistered THEN Wraps ELSE Tested

\* First read: is it the sentinel?
RegTest(m, f, c) ==
  /\ Makes(m, f, c) /\ Registering(m, f, c)
  /\ fib' = [fib EXCEPT ![f].reg = AfterTest(next_client_id), ![f].cat = c.arg]
  /\ UNCHANGED <<instVars, inbox, schedVars, lockVars, notifyVars, extVars,
                 current, pending, next_req_id, expired>>

\* It was: the counter starts again.
RegWrap(m, f, c) ==
  /\ Registering(m, f, c)
  /\ fib[f].reg = Wraps /\ fib[f].cat = c.arg
  /\ next_client_id' = 0
  /\ fib' = [fib EXCEPT ![f].reg = Tested]
  /\ UNCHANGED <<instVars, inbox, schedVars, lockVars, notify_clients, extVars,
                 current, pending, next_req_id, expired>>

\* Second read: the id.
RegRead(m, f, c) ==
  /\ Registering(m, f, c)
  /\ fib[f].reg = Tested /\ fib[f].cat = c.arg
  /\ fib' = [fib EXCEPT ![f].reg = next_client_id]
  /\ UNCHANGED <<instVars, inbox, schedVars, lockVars, notifyVars, extVars,
                 current, pending, next_req_id, expired>>

\* The write of the increment, and the new entry of the list.
RegWrite(m, f, c) ==
  /\ Registering(m, f, c)
  /\ fib[f].reg \in ClientId /\ fib[f].cat = c.arg
  /\ next_client_id' = (fib[f].reg + 1) % ClientIdMod
  /\ notify_clients' = [notify_clients EXCEPT ![m] =
                          <<Listener(c.arg, fib[f].reply_to, fib[f].reg)>> \o @]
  /\ fib' = [fib EXCEPT ![f] = [Past(f) EXCEPT !.reg = NotReg, !.cat = ""]]
  /\ UNCHANGED <<instVars, inbox, schedVars, lockVars, extVars,
                 current, pending, next_req_id, expired>>

\* mutant of IsListener: strcmp taken for a test of equality
IsOtherListener(l, category, cid) == l.category # category /\ l.client_id = cid
IsListener(l, category, cid) == l.category = category /\ l.client_id = cid

\* The client id comes from a message.  The first entry that matches goes ...
UnregNotify(m, f, c, cid, i) ==
  /\ Makes(m, f, c) /\ c.op = "unreg_notify"
  /\ IsListener(notify_clients[m][i], c.arg, cid)
  /\ \A j \in 1..(i - 1) : ~IsListener(notify_clients[m][j], c.arg, cid)
  /\ notify_clients' = [notify_clients EXCEPT ![m] = RemoveAt(@, i)]
  /\ fib' = [fib EXCEPT ![f] = Past(f)]
  /\ UNCHANGED <<instVars, inbox, schedVars, lockVars, next_client_id, extVars,
                 current, pending, next_req_id, expired>>

\* ... or none does, and the call returns false.
UnregUnknown(m, f, c, cid) ==
  /\ Makes(m, f, c) /\ c.op = "unreg_notify"
  /\ \A i \in DOMAIN notify_clients[m] : ~IsListener(notify_clients[m][i], c.arg, cid)
  /\ fib' = [fib EXCEPT ![f] = Past(f)]
  /\ UNCHANGED <<instVars, inbox, schedVars, lockVars, notifyVars, extVars,
                 current, pending, next_req_id, expired>>

\* coseq_notify: the listeners of the category at or after the place reached.
Notifying(m, f, c) ==
  /\ Running(m, f) /\ c \in NextCalls(m) /\ c.op = "notify"
  /\ fib[f].reg = NotReg
  /\ fib[f].fan = 0 \/ fib[f].cat = c.arg

LeftToNotify(m, f, c) ==
  {i \in DOMAIN notify_clients[m] :
     i > fib[f].fan /\ notify_clients[m][i].category = c.arg}

NotifyOne(m, f, c, i) ==
  /\ Notifying(m, f, c)
  /\ i \in LeftToNotify(m, f, c) /\ \A j \in LeftToNotify(m, f, c) : i <= j
  /\ Post(notify_clients[m][i].listener_module,
          NotifyEv(m, notify_clients[m][i].client_id))
  /\ fib' = [fib EXCEPT ![f].fan = i, ![f].cat = c.arg]
  /\ UNCHANGED <<instVars, schedVars, lockVars, notifyVars, extVars, current,
                 pending, next_req_id, expired>>

NotifyDone(m, f, c) ==
  /\ Notifying(m, f, c)
  /\ LeftToNotify(m, f, c) = {}
  /\ fib' = [fib EXCEPT ![f] = [Past(f) EXCEPT !.fan = 0, !.cat = ""]]
  /\ UNCHANGED <<instVars, inbox, schedVars, lockVars, notifyVars, extVars,
                 current, pending, next_req_id, expired>>

NotifyCalls(m, f, c) ==
  \/ RegRefused(m, f, c) \/ RegTest(m, f, c) \/ RegWrap(m, f, c)
  \/ RegRead(m, f, c) \/ RegWrite(m, f, c)
  \/ \E cid \in ClientId :
       \/ \E i \in DOMAIN notify_clients[m] : UnregNotify(m, f, c, cid, i)
       \/ UnregUnknown(m, f, c, cid)
  \/ \E i \in DOMAIN notify_clients[m] : NotifyOne(m, f, c, i)
  \/ NotifyDone(m, f, c)
=============================================================================
