---------------------------- MODULE TestProgram ----------------------------
(***************************************************************************)
(* The programs that come with coseq, run on Coseq: testpp/main.cpp, whose *)
(* assertions and CHECKs are the properties below, and samples/sample.c,   *)
(* which samplespp/sample.cpp repeats with the wrapper.  Each has three    *)
(* modules and a main thread that makes requests, sleeps and looks at what *)
(* the sequences have counted.                                             *)
(*                                                                         *)
(* Their expectations rest on delays of 50 to 400 ms.  Here timers have    *)
(* lengths, and time goes on only when no thread can: the machine is       *)
(* faster than the shortest margin.  At one instant the threads interleave *)
(* in every way.  No wait ends without a reason here: wakeups for nothing  *)
(* are Coseq's.                                                            *)
(***************************************************************************)
EXTENDS CoseqPP, CoseqPrograms

CONSTANT MainThread     \* the one external thread

MOD_A == 0
MOD_B == 1
MOD_C == 2
CAT == "CAT"

-----------------------------------------------------------------------------
(* testpp/main.cpp: the modules *)

success == reply("SUCCESS")

module_a == module_base(
     ("echo"      :> <<success>>)
  @@ ("chain"     :> <<request(MOD_B, "chain"), success>>)
  @@ ("reqto"     :> <<request_timeout(MOD_B, "slow"), success>>)
  @@ ("fanout"    :> <<request_async(MOD_B, "slow"), request_async(MOD_C, "work"),
                       wait_reply, wait_reply, success>>)
  @@ ("gather"    :> <<request_async(MOD_B, "slow"), request_async(MOD_C, "work"),
                       request_async(MOD_C, "work"), gather_all, success>>)
  @@ ("subscribe" :> <<request(MOD_C, "register"), success>>)
  @@ ("lock"      :> <<lock, request(MOD_B, "slow"), unlock, success>>)
  @@ ("nolock"    :> <<request(MOD_B, "slow"), success>>)
  @@ ("probe"     :> <<success>>)
  @@ ("getlog"    :> <<success>>)
  @@ ("reqmsg"    :> <<request(MOD_B, "echo"), success>>)
  @@ ("do_send"   :> <<send(MOD_C, "sink"), success>>),
  <<>>)                                  \* counts the notification and returns

module_b == module_base(
     ("chain" :> <<request(MOD_C, "work"), success>>)
  @@ ("slow"  :> <<wait_timeout, success>>)
  @@ ("echo"  :> <<success>>),
  on_receive_notify)

\* register and unregister reply success or error.
Either == success \cup reply("ERROR")
module_c == module_base(
     ("work"         :> <<wait_timeout, success>>)
  @@ ("register"     :> <<reg_notify(CAT), Either>>)
  @@ ("notify_once"  :> <<notify(CAT), success>>)
  @@ ("unregister"   :> <<unreg_notify(CAT), Either>>)
  @@ ("notify_empty" :> <<notify(CAT), success>>)
  @@ ("sink"         :> <<>>),
  on_receive_notify)

TestModules == manager_setup((MOD_A :> module_a) @@ (MOD_B :> module_b) @@ (MOD_C :> module_c))

-----------------------------------------------------------------------------
(* samples/sample.c: the modules *)

Ticks == 6                               \* bound: rounds of the loop of c_loop
Tick(n) == IF n % 2 = 1 THEN wait_timeout ELSE notify(CAT)

SampleA ==
     ("a_echo"   :> <<success>>)
  @@ ("a_chain"  :> <<lock, request(MOD_B, "b_chain"), unlock, success>>)
  @@ ("a_sub"    :> <<request(MOD_C, "c_register"), success>>)
  @@ ("a_reqto"  :> <<request_timeout(MOD_B, "b_slow"), success>>)
  @@ ("a_fanout" :> <<request_async(MOD_B, "b_slow"), request_async(MOD_C, "c_work"),
                      wait_reply, wait_reply, success>>)
  @@ ("a_gather" :> <<request_async(MOD_B, "b_slow"), request_async(MOD_C, "c_work"),
                      gather_all, success>>)
SampleB ==
     ("b_chain" :> <<request(MOD_C, "c_work"), success>>)
  @@ ("b_slow"  :> <<wait_timeout, success>>)
SampleC ==
     ("c_loop"     :> <<success>> \o [n \in 1..(2 * Ticks) |-> Tick(n)])
  @@ ("c_register" :> <<reg_notify(CAT), Either>>)
  @@ ("c_work"     :> <<wait_timeout, success>>)

SampleModules == (MOD_A :> SampleA) @@ (MOD_B :> SampleB) @@ (MOD_C :> SampleC)

\* samplespp/sample.cpp: the same sequences, as methods.
sample_module_a == module_base(SampleA, <<>>)    \* prints the notification
sample_module_b == module_base(SampleB, on_receive_notify)
sample_module_c == module_base(SampleC, on_receive_notify)
SamplePPModules ==
  manager_setup((MOD_A :> sample_module_a) @@ (MOD_B :> sample_module_b)
                @@ (MOD_C :> sample_module_c))

\* The modules of all three programs at once; each main asks for its own sequences, and
\* nobody notifies the modules that have no handler in the C sample.
Programs == [m \in 0..2 |-> TestModules[m] @@ SamplePPModules[m] @@ SampleModules[m]]

\* How long a sequence waits for its timer, in milliseconds.
Delay(fn) == IF fn \in {"slow", "b_slow", "c_loop"} THEN 300 ELSE 100

-----------------------------------------------------------------------------
(* The main threads *)

Statement(do, to, seq, ms, want) == [do |-> do, to |-> to, seq |-> seq, ms |-> ms, want |-> want]
Sync(to, seq)        == Statement("sync", to, seq, 0, "SUCCESS")
SyncFails(to, seq)   == Statement("sync", to, seq, 0, "ERROR")
Async(to, seq)       == Statement("async", to, seq, 0, "")
Nap(ms)              == Statement("nap", 0, "", ms, "")
Remember             == Statement("remember", 0, "", 0, "")
CheckLog(text)       == Statement("log", 0, "", 0, text)
CheckCount(what, n)  == Statement(what, 0, "", 0, n)
CheckNoErrors        == Statement("no_errors", 0, "", 0, "")
Ends                 == Statement("teardown", 0, "", 0, "")

TestMain ==
  <<Sync(MOD_A, "echo"), Sync(MOD_A, "chain"), Sync(MOD_A, "reqto"), Sync(MOD_A, "fanout"),
    Sync(MOD_A, "gather"), Sync(MOD_A, "subscribe"),
    Sync(MOD_C, "notify_once"), Nap(100), CheckCount("notified", 1),
    Sync(MOD_C, "notify_empty"), Nap(100), CheckCount("notified", 2),
    Sync(MOD_C, "unregister"), Sync(MOD_C, "notify_once"), Nap(100), CheckCount("notified", 2),
    Sync(MOD_A, "reqmsg"),
    Async(MOD_A, "lock"), Nap(50), Async(MOD_A, "probe"), Nap(400), Sync(MOD_A, "getlog"),
    CheckLog(<<"[", "]", "P">>),
    Async(MOD_A, "nolock"), Nap(50), Async(MOD_A, "probe"), Nap(400), Sync(MOD_A, "getlog"),
    CheckLog(<<"[", "P", "]">>),
    Remember, Sync(MOD_A, "do_send"), Async(MOD_C, "sink"), Nap(100), CheckCount("sunk", 2),
    CheckNoErrors,
    Remember, Async(99, "echo"), Async(MOD_C, "nosuch"), Nap(100), CheckCount("errors", 2),
    SyncFails(MOD_C, "register"), Ends>>

SampleMain ==
  <<Sync(MOD_A, "a_echo"), Sync(MOD_A, "a_chain"), Sync(MOD_A, "a_sub"), Sync(MOD_A, "a_reqto"),
    Async(MOD_C, "c_loop"), Nap(1000), Sync(MOD_A, "a_fanout"), Sync(MOD_A, "a_gather"), Ends>>

\* The instance they run on; main's requests are those of the one external thread.
MainStatements == ToSet(TestMain) \cup ToSet(SampleMain)
ASSUME InstanceAssumption ==
  /\ Script = Programs /\ Clients = {MainThread}
  /\ {TestMain, SampleMain} \subseteq Seq(MainStatements)
  /\ \A s \in MainStatements :
       s.do \in {"sync", "async"} => [to |-> s.to, seq |-> s.seq] \in ExtCalls

\* What the theorems about Coseq ask of a program holds of these.
ASSUME ProgramsAssumption == HasLargestLedgers /\ HandlersDoNotLock /\ OnePublisher

VARIABLES
  main,        \* the statements main has left
  nap,         \* milliseconds left of its sleep
  left,        \* milliseconds left of each fiber's timer
  log,         \* g_log
  sent_log,    \* the log as getlog last replied it
  tally,       \* g_notify_count, g_sink_count, g_log_errors
  before,      \* their values at the last "before"
  client_id,   \* the client id register replied and main was handed
  found,       \* what reg_notify or unreg_notify last returned
  collected    \* the replies the last fan-out has collected

clockVars == <<nap, left>>
dataVars == <<log, sent_log, tally, client_id, found, collected>>
testVars == <<vars, main, clockVars, dataVars, before>>

Zero == [notified |-> 0, sunk |-> 0, errors |-> 0]
TestInit ==
  /\ Init
  /\ main \in {TestMain, SampleMain}
  /\ nap = 0 /\ left = [f \in Fibers |-> 0]
  /\ log = <<>> /\ sent_log = <<>> /\ tally = Zero /\ before = Zero
  /\ client_id = 0 /\ found = FALSE /\ collected = {}

-----------------------------------------------------------------------------
(* main *)

Next1 == main' = Tail(main)
Executes(do) == main # <<>> /\ nap = 0 /\ Head(main).do = do
Asked == [to |-> Head(main).to, seq |-> Head(main).seq]

MainAsks ==
  /\ Executes("sync") /\ RequestSync(MainThread, Asked)
  /\ UNCHANGED <<main, clockVars, dataVars, before>>
MainIsAnswered ==
  /\ Executes("sync") /\ SyncReturns(MainThread) /\ Next1
  /\ UNCHANGED <<clockVars, dataVars, before>>

\* post logs an error for a module that does not exist.
MainFires ==
  /\ Executes("async") /\ ExtRequestAsync(MainThread, Asked) /\ Next1
  /\ tally' = IF Asked.to \in Modules THEN tally ELSE [tally EXCEPT !.errors = @ + 1]
  /\ UNCHANGED <<clockVars, log, sent_log, client_id, found, collected, before>>

MainSleeps ==
  /\ Executes("nap") /\ Next1 /\ nap' = Head(main).ms
  /\ UNCHANGED <<vars, left, dataVars, before>>
MainRemembers ==
  /\ Executes("remember") /\ Next1 /\ before' = tally
  /\ UNCHANGED <<vars, clockVars, dataVars>>
MainChecks ==
  /\ \E do \in {"log", "notified", "sunk", "no_errors", "errors"} : Executes(do)
  /\ Next1
  /\ UNCHANGED <<vars, clockVars, dataVars, before>>
MainEnds ==
  /\ Executes("teardown") /\ BeginTeardown /\ Next1
  /\ UNCHANGED <<clockVars, dataVars, before>>
MainStops ==
  /\ main = <<>> /\ ((\E m \in Modules : StopModule(m)) \/ FreeModules)
  /\ UNCHANGED <<main, clockVars, dataVars, before>>

MainStep ==
  \/ MainAsks \/ MainIsAnswered \/ MainFires \/ MainSleeps \/ MainRemembers \/ MainChecks
  \/ MainEnds \/ MainStops

-----------------------------------------------------------------------------
(* The modules' threads, with what their sequences do besides API calls *)

\* lock_seq and nolock_seq write "[" first and "]" before they reply.
LogAfter(r) ==
  CASE r.fn \in {"lock", "nolock"} /\ r.pc = 1 -> <<"[">>
    [] r.fn = "lock" /\ r.pc = 4               -> Append(log, "]")
    [] r.fn = "nolock" /\ r.pc = 2             -> Append(log, "]")
    [] r.fn = "probe" /\ r.pc = 1              -> Append(log, "P")
    [] OTHER                                   -> log
TallyAfter(m, r) ==
  CASE r.fn = "recv_notify" /\ m = MOD_A -> [tally EXCEPT !.notified = @ + 1]
    [] r.fn = "sink"                     -> [tally EXCEPT !.sunk = @ + 1]
    [] OTHER                             -> tally

\* The result of a reply that has two: did the registration, or its end, succeed?
Replies(f, c) ==
  c.op = "reply" /\ fib[f].fn \in {"register", "c_register", "unregister"} =>
    c.arg = IF found THEN "SUCCESS" ELSE "ERROR"

RegNotify(m, f, c) ==
  \/ RegRefused(m, f, c) /\ found' = FALSE
  \/ (RegTest(m, f, c) \/ RegWrap(m, f, c) \/ RegRead(m, f, c)) /\ UNCHANGED found
  \/ RegWrite(m, f, c) /\ found' = TRUE

\* unregist passes on the client id of its message.
Unregisters(m, f, c) ==
  \/ (\E i \in DOMAIN notify_clients[m] : UnregNotify(m, f, c, client_id, i)) /\ found' = TRUE
  \/ UnregUnknown(m, f, c, client_id) /\ found' = FALSE

SequenceStep(m) ==
  LET f == current[m] IN
  /\ f # NoFiber
  /\ \E c \in NextCalls(m) :
       /\ Replies(f, c)
       /\ CASE c.op = "reg_notify"   -> RegNotify(m, f, c)
            [] c.op = "unreg_notify" -> Unregisters(m, f, c)
            [] OTHER -> (Calls(m, f, c) \/ NotifyCalls(m, f, c)) /\ UNCHANGED found
  /\ log' = LogAfter(fib[f])
  /\ sent_log' = IF fib[f].fn = "getlog" /\ fib[f].pc = 1 THEN log ELSE sent_log
  /\ tally' = TallyAfter(m, fib[f])
  /\ client_id' = IF fib[f].reg \in ClientId THEN fib[f].reg ELSE client_id

\* sched_loop logs an error for a sequence that does not exist.
SchedulerStep(m) ==
  /\ \/ StartRefused(m) /\ tally' = [tally EXCEPT !.errors = @ + 1]
     \/ Sched(m) /\ ~StartRefused(m) /\ UNCHANGED tally
  /\ UNCHANGED <<log, sent_log, client_id, found>>

\* wait_reply has returned with one more reply; a new fan-out starts from none.
CollectedAfter ==
  LET fans == {f \in Fibers : fib'[f].fn \in {"fanout", "gather"}} IN
  IF \E f \in fans : fib[f].pc = 1 /\ fib'[f].pc = 2 THEN {}
  ELSE collected \cup
         {[req_id |-> fib'[f].src.req_id, result |-> fib'[f].src.result] :
            f \in {g \in fans : fib'[g].async_outstanding = fib[g].async_outstanding - 1}}

LeftAfter(f) ==
  IF "timer" \notin fib'[f].waits THEN 0
  ELSE IF "timer" \in fib[f].waits THEN left[f] ELSE Delay(fib'[f].fn)

ModuleStep(m) ==
  /\ SchedulerStep(m) \/ SequenceStep(m)
  /\ FirstFree
  /\ collected' = CollectedAfter
  /\ left' = [f \in Fibers |-> LeftAfter(f)]
  /\ UNCHANGED <<main, nap, before>>

-----------------------------------------------------------------------------
(* Time *)

Ticking(f) == "timer" \in fib[f].waits /\ left[f] > 0
Expires(f) ==
  /\ "timer" \in fib[f].waits /\ left[f] = 0
  /\ TimePasses(f)
  /\ UNCHANGED <<main, clockVars, dataVars, before>>

\* Nobody can do anything now.
Quiet ==
  /\ \A m \in Modules : loop[m] = "wait" /\ ~Awake(m)
  /\ \A f \in Fibers : "timer" \in fib[f].waits => left[f] > 0 \/ f \in expired
  /\ nap > 0 \/ (client[MainThread].waiting /\ ~ext.ready)

Pauses == {left[f] : f \in {g \in Fibers : Ticking(g)}} \cup ({nap} \ {0})
TimeGoesOn ==
  /\ Quiet
  /\ \E d \in Pauses :
       /\ \A e \in Pauses : d <= e
       /\ nap' = IF nap > 0 THEN nap - d ELSE 0
       /\ left' = [f \in Fibers |-> IF Ticking(f) THEN left[f] - d ELSE left[f]]
  /\ UNCHANGED <<vars, main, dataVars, before>>

TestNext ==
  \/ MainStep \/ TimeGoesOn
  \/ \E m \in Modules : ModuleStep(m)
  \/ \E f \in Fibers : Expires(f)

\* Every thread runs, and the clock goes on once they all wait.
TestSpec ==
  /\ TestInit /\ [][TestNext]_testVars
  /\ WF_testVars(MainStep) /\ WF_testVars(TimeGoesOn)
  /\ \A m \in Modules : WF_testVars(ModuleStep(m))
  /\ \A f \in Fibers : WF_testVars(Expires(f))

-----------------------------------------------------------------------------
(* Properties *)

\* The CHECKs of main.cpp: the order the lock imposes, the notifications before and
\* after the registration ends, the sends that arrived, the errors logged.
ChecksHold ==
  /\ Executes("log") => sent_log = Head(main).want
  /\ Executes("notified") => tally.notified = Head(main).want
  /\ Executes("sunk") => tally.sunk = before.sunk + Head(main).want
  /\ Executes("no_errors") => tally.errors = 0
  /\ Executes("errors") => tally.errors = before.errors + Head(main).want

\* CHECK (r.get_result() == ...): what each request_sync returns.
ResultsHold ==
  [][Executes("sync") /\ client[MainThread].waiting /\ ~client'[MainThread].waiting =>
       ext.result = Head(main).want]_testVars

FanOut(m) == {next_req_id[m] - 2, next_req_id[m] - 1}      \* id_b, id_c
CollectedIds == {r.req_id : r \in collected}

\* The asserts in the sequences: request_timeout timed out, the other requests did
\* not, B::echo knows who asked, a fan-out has collected its own replies once each and
\* they are good.  The name and number a sequence has of itself are the fn of its fiber.
AssertsHold ==
  \A m \in Modules : current[m] # NoFiber =>
    LET f == current[m]
        at(fn, pc) == fib[f].fn = fn /\ fib[f].pc = pc
    IN /\ at("chain", 2) \/ at("subscribe", 2) \/ at("reqmsg", 2) => get_result(f) = "SUCCESS"
       /\ at("reqto", 2) => get_result(f) = "REQ_TIMEOUT"
       /\ at("fanout", 4) \/ at("fanout", 5) =>
            get_result(f) = "SUCCESS" /\ get_request_id(f) \in FanOut(m)
       /\ at("fanout", 5) => CollectedIds = FanOut(m)
       /\ at("gather", 5) =>
            Cardinality(CollectedIds) = 3 /\ \A r \in collected : r.result = "SUCCESS"
       /\ m = MOD_B /\ at("echo", 1) => get_thread_idx(f) = MOD_A

\* main returns: no request_sync hangs, teardown joins every thread.
MainReturns == <>(main = <<>> /\ \A m \in Modules : loop[m] = "stopped")
=============================================================================
