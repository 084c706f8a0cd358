------------------------------ MODULE CoseqPP ------------------------------
(***************************************************************************)
(* The C++ wrapper.  A method of iface is one call of the C API, made from *)
(* the sequence it was handed to; a body is the list of the calls a        *)
(* sequence makes.  manager::setup registers every sequence of a module    *)
(* through one wrapper, which finds its way back to the C++ object, and a  *)
(* notification handler for every module, whether it has one or not.       *)
(***************************************************************************)
EXTENDS Coseq

MakesCall(op, to, seq, arg) == {[op |-> op, to |-> to, seq |-> seq, arg |-> arg]}

-----------------------------------------------------------------------------
(* iface *)

request(to, seq)         == MakesCall("request", to, seq, "")
request_timeout(to, seq) == MakesCall("request_timeout", to, seq, "")
request_async(to, seq)   == MakesCall("request_async", to, seq, "")
wait_reply               == MakesCall("wait_reply", 0, "", "")
send(to, seq)            == MakesCall("send", to, seq, "")

\* A loop over coseq_wait_reply that ends at NULL, as coseq_gather is.
gather_all               == MakesCall("gather", 0, "", "")

reply(rslt)              == MakesCall("reply", 0, "", rslt)
wait_timeout             == MakesCall("wait_timeout", 0, "", "")
reg_notify(category)     == MakesCall("reg_notify", 0, "", category)
unreg_notify(category)   == MakesCall("unreg_notify", 0, "", category)
notify(category)         == MakesCall("notify", 0, "", category)
lock                     == MakesCall("lock", 0, "", "")
unlock                   == MakesCall("unlock", 0, "", "")

-----------------------------------------------------------------------------
(* source, a view of what coseq_source returns *)

get_result(f)     == fib[f].src.result
get_thread_idx(f) == fib[f].src.thread_idx
get_request_id(f) == fib[f].src.req_id

-----------------------------------------------------------------------------
(* module_base, manager *)

\* module_base::on_receive_notify, unless it is overridden: nothing.
on_receive_notify == <<>>

\* A module: its sequences, and the override of on_receive_notify.
module_base(sequences, handler) == [sequences |-> sequences, on_receive_notify |-> handler]

\* What manager::setup hands to setup: the C table.
manager_setup(modules) ==
  [m \in DOMAIN modules |->
     modules[m].sequences
     @@ ("recv_notify" :> modules[m].on_receive_notify)]
=============================================================================
