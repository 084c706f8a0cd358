--------------------------- MODULE CoseqInstance ---------------------------
(***************************************************************************)
(* The instance as seen from outside its modules: request_sync and         *)
(* request_async of external threads, and teardown.  Every external thread *)
(* shares one mailbox: one awaited request id, one ready flag, one result. *)
(* request_sync holds ext_mtx except while it waits on ext_cv, so it is    *)
(* two steps.                                                              *)
(***************************************************************************)
EXTENDS CoseqBase

\* bound: at most MaxExt external requests; none is started after teardown
MayCall == ext_id <= MaxExt /\ nr_module > 0

RequestSync(c, x) ==
  /\ MayCall /\ ~client[c].waiting
  /\ ext_id' = ext_id + 1
  /\ ext' = [ext EXCEPT !.wait_rid = ext_id, !.ready = FALSE]
  /\ client' = [client EXCEPT ![c].waiting = TRUE, ![c].rid = ext_id]
  /\ Post(x.to, StartEv(x.seq, ext_id, EXTERNAL))
  /\ UNCHANGED <<instVars, schedVars, lockVars, notifyVars, current, pending,
                 next_req_id, fib, expired>>

\* Awake with ready set: the result is read, the message taken, the request id
\* reset; ready is left as it is.
SyncReturns(c) ==
  /\ client[c].waiting /\ ext.ready
  /\ client' = [client EXCEPT ![c].waiting = FALSE, ![c].got = ext.msg]
  /\ ext' = [ext EXCEPT !.wait_rid = NoRid, !.msg = NoRid]
  /\ UNCHANGED <<instVars, inbox, schedVars, lockVars, notifyVars, ext_id,
                 current, pending, next_req_id, fib, expired>>

\* The request id is taken under ext_mtx and posted after it is released.
\* The id is taken under ext_mtx and the post follows without it.  Nobody reads ext_id in
\* between but to take the next one, so that taking it at the post only changes which of
\* two threads has which number.
ExtRequestAsync(c, x) ==
  /\ MayCall /\ ~client[c].waiting
  /\ ext_id' = ext_id + 1
  /\ Post(x.to, StartEv(x.seq, ext_id, EXTERNAL))
  /\ UNCHANGED <<instVars, schedVars, lockVars, notifyVars, ext, client, current,
                 pending, next_req_id, fib, expired>>

-----------------------------------------------------------------------------
(* _teardown and stop_modules *)

BeginTeardown ==
  /\ MayTeardown /\ nr_module > 0
  /\ nr_module' = 0
  /\ UNCHANGED <<stop, inbox, schedVars, lockVars, notifyVars, extVars, current,
                 pending, next_req_id, fib, expired>>

\* The modules are told to stop in the order of their index.
StopModule(m) ==
  /\ nr_module = 0 /\ ~stop[m] /\ \A k \in 0..(m - 1) : stop[k]
  /\ stop' = [stop EXCEPT ![m] = TRUE]
  /\ UNCHANGED <<nr_module, inbox, schedVars, lockVars, notifyVars, extVars,
                 current, pending, next_req_id, fib, expired>>

\* Every thread is joined: fibers, pending entries, listeners and events are freed.
FreeModules ==
  /\ \A m \in Modules : loop[m] = "stopped"
  /\ \E m \in Modules : fibers[m] # <<>> \/ pending[m] # {} \/ notify_clients[m] # <<>>
                        \/ inbox[m] # <<>> \/ deferred[m] # <<>>
  /\ fibers' = [m \in Modules |-> <<>>]
  /\ pending' = [m \in Modules |-> {}]
  /\ notify_clients' = [m \in Modules |-> <<>>]
  /\ inbox' = [m \in Modules |-> <<>>]
  /\ deferred' = [m \in Modules |-> <<>>]
  /\ UNCHANGED <<instVars, loop, evs, due, lockVars, next_client_id, extVars,
                 current, next_req_id, fib, expired>>
=============================================================================
