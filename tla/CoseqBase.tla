----------------------------- MODULE CoseqBase -----------------------------
(***************************************************************************)
(* The data model of coseq/coseq.c: events, fibers, modules, the external  *)
(* mailbox, and the small operations on them (post, pending_*, resume,     *)
(* ext_deliver) that the scheduler and the in-sequence API share.          *)
(*                                                                         *)
(* A module is one pthread running sched_loop.  A fiber is a record in the *)
(* heap; Fibers is the set of records the heap can hold, so that a freed   *)
(* record can be handed out again and calloc can fail.  A record that was  *)
(* freed keeps its last contents until it is handed out again.             *)
(*                                                                         *)
(* Sequences are user code.  Script[m][s] is the body of sequence s of     *)
(* module m: at each position a set of API calls, any one of which the     *)
(* sequence may make there (its branches on received data).  The body of   *)
(* the recv_notify handler, when the module has one, is named              *)
(* "recv_notify".                                                          *)
(*                                                                         *)
(* Time is abstracted to the only thing the loop asks of it: whether a     *)
(* timer's deadline has passed.  expired holds the fibers for which it has.*)
(***************************************************************************)
EXTENDS Integers, Sequences, FiniteSets, SequencesExt

CONSTANTS
  NrModule,      \* number of modules given to setup
  Fibers,        \* fiber records the heap can hold
  NoFiber,       \* the null fiber pointer
  SeqNames,      \* what a START can name, registered with its module or not
  Categories,    \* notification categories
  Script,        \* the registered sequences of each module
  Clients,       \* external (non-module) threads
  ExtCalls,      \* the [to, seq] pairs external threads ask for
  MaxExt,        \* bound: external requests made in a behaviour
  MayTeardown,   \* whether the owner may call teardown
  ClientIdMod    \* client ids are uint8_t: 256 in the code

EXTERNAL == -1
MAX_MODULE == 32
Modules == 0..(NrModule - 1)

Ops == {"request", "request_timeout", "request_async", "wait_reply", "gather",
        "send", "reply", "wait_timeout", "lock", "unlock",
        "reg_notify", "unreg_notify", "notify", "return"}

Result == {"IGNORE", "SUCCESS", "ERROR", "REQ_TIMEOUT"}

\* One API call of a sequence: the module and sequence it addresses, and an
\* argument (the result of a reply, the category of a notification).
Name == SeqNames \cup {""}
Argument == Result \cup Categories \cup {""}
Call == [op : Ops, to : Int, seq : Name, arg : Argument]
ReturnCall == [op |-> "return", to |-> 0, seq |-> "", arg |-> ""]

ASSUME ModulesAssumption == NrModule \in 1..MAX_MODULE
ASSUME FibersAssumption == NoFiber \notin Fibers
ASSUME ClientIdAssumption == ClientIdMod \in Nat /\ ClientIdMod > 1
ASSUME ExternalAssumption ==
  /\ ExtCalls \subseteq [to : Int, seq : Name]
  /\ MaxExt \in Nat /\ MayTeardown \in BOOLEAN
ASSUME ScriptAssumption ==
  \A m \in Modules : \A s \in DOMAIN Script[m] :
    s \in SeqNames /\ Script[m][s] \in Seq(SUBSET Call)

\* The sequences a START event can name; recv_notify is not one of them.
Seqs(m) == DOMAIN Script[m] \ {"recv_notify"}
HasHandler(m) == "recv_notify" \in DOMAIN Script[m]

VARIABLES
  nr_module,       \* NrModule between setup and teardown, 0 after
  stop,            \* [Modules -> BOOLEAN], under the module's mutex
  inbox,           \* [Modules -> Seq(Event)], under the module's mutex
  loop,            \* where each sched_loop is: "top", "wait", "run", "stopped"
  evs,             \* the batch taken from the inbox, not yet processed
  due,             \* timer fibers of this pass, not yet looked at
  deferred,        \* events put off while the module is locked
  fibers,          \* list of live fibers, newest first
  current,         \* the fiber running on the module's thread
  locked_by,       \* the fiber that holds the module's lock
  pending,         \* requests whose reply has not come
  next_req_id,
  notify_clients,  \* registered listeners, newest first
  next_client_id,  \* shared by all modules, not protected
  fib,             \* contents of the fiber records
  expired,         \* fibers whose deadline has passed
  ext,             \* the external mailbox, under ext_mtx
  ext_id,
  client,          \* external threads inside or outside request_sync
  holding          \* history: fibers between coseq_lock and coseq_unlock

schedVars  == <<loop, evs, due, deferred, fibers>>
lockVars   == <<locked_by, holding>>
notifyVars == <<notify_clients, next_client_id>>
instVars   == <<nr_module, stop>>
extVars    == <<ext, ext_id, client>>
vars == <<instVars, inbox, schedVars, lockVars, notifyVars, extVars,
          current, pending, next_req_id, fib, expired>>

-----------------------------------------------------------------------------
(* Values *)

NoRid == -1                \* (uint32_t)-1: no external request is waiting
ClientId == 0..(ClientIdMod - 1)
Unregistered == ClientIdMod - 1   \* 0xff, the "not registered" sentinel
NotNarrowed(x) == x          \* mutant of Uint8: the cast forgotten
Uint8(x) == x % 256

\* make_ev and the two fields coseq_notify sets on its own.
Ev(type, seq, rid, requester, result, cid) ==
  [type |-> type, seq |-> seq, req_id |-> rid, requester |-> requester,
   result |-> result, client_id |-> cid]
StartEv(seq, rid, from)     == Ev("START", seq, rid, from, "IGNORE", 0)
ReplyEv(rid, from, result)  == Ev("REPLY", "", rid, from, result, 0)
NotifyEv(from, cid)         == Ev("NOTIFY", "", 0, from, "SUCCESS", cid)

\* set_src: what coseq_source and a returning request hand to the sequence.
Src(result, from, cid, rid) ==
  [result |-> result, thread_idx |-> Uint8(from), client_id |-> cid, req_id |-> rid]

NotReg == -1      \* the fiber is not inside coseq_reg_notify
Tested == -2      \* it has compared next_client_id with 0xff
Wraps == -3       \* ... found them equal, and is to write 0

\* A fiber as new_fiber leaves it.  fn and mod name its body, pc is its place in
\* it; reg, fan and cat are the locals of a coseq_reg_notify or coseq_notify in
\* progress: the client id read, the place in the list of listeners, the category.
FreshFiber(mod, fn, to, rid, src) ==
  [mod |-> mod, fn |-> fn, reply_to |-> to, reply_req_id |-> rid, pc |-> 1, src |-> src,
   waits |-> {}, wait_req_id |-> 0, async_outstanding |-> 0, rq |-> <<>>,
   done |-> FALSE, reg |-> NotReg, fan |-> 0, cat |-> ""]

-----------------------------------------------------------------------------
(* Operations shared by the scheduler and the API *)

Live(m) == ToSet(fibers[m])
Unused == {f \in Fibers : \A m \in Modules : f \notin Live(m)}

\* mutant of Post: a stack in place of the queue
PostInFront(t, e) ==
  \/ t \in Modules /\ inbox' = [inbox EXCEPT ![t] = <<e>> \o @]
  \/ (t \notin Modules \/ nr_module = 0) /\ UNCHANGED inbox

\* post: the only path between threads.  nr_module is read without a lock, so
\* after teardown has zeroed it a poster may still have seen the old value.
Post(t, e) ==
  \/ /\ t \in Modules
     /\ inbox' = [inbox EXCEPT ![t] = Append(@, e)]
  \/ /\ t \notin Modules \/ nr_module = 0
     /\ UNCHANGED inbox

Pending(rid, f) == [req_id |-> rid, f |-> f]

\* pending_add
PendingAdd(m, rid, f) == [pending EXCEPT ![m] = @ \cup {Pending(rid, f)}]

\* mutant of PendingTake: the entry is looked up and left
PendingPeek(m, rid) == pending

\* pending_take: the entry goes, whoever it belonged to
PendingTake(m, rid) == [pending EXCEPT ![m] = {p \in @ : p.req_id # rid}]

\* resume: the fiber f, left as r, goes on running with its wait flags cleared.
Resume(m, f, r) ==
  /\ fib' = [fib EXCEPT ![f] = [r EXCEPT !.waits = {}]]
  /\ current' = [current EXCEPT ![m] = f]
  /\ expired' = expired \ {f}

\* swapcontext back to the scheduler
Yield(m) == current' = [current EXCEPT ![m] = NoFiber]

\* Locked out: the module is locked by another fiber than f.
LockedOut(m, f) == locked_by[m] \notin {NoFiber, f}

\* mutant of ExtDeliver: whatever reply comes is delivered
DeliverAny(rid, result) ==
  [ext EXCEPT !.ready = TRUE, !.result = result, !.msg = rid]

\* ext_deliver: only the request the mailbox waits for is delivered.  The
\* payload is abstracted to the request it answers.
ExtDeliver(rid, result) ==
  IF rid = ext.wait_rid
  THEN [ext EXCEPT !.ready = TRUE, !.result = result, !.msg = rid]
  ELSE ext
=============================================================================
