------------------------------ MODULE MCCoseq ------------------------------
(***************************************************************************)
(* Programs for TLC.  Each is a small set of modules whose sequences do    *)
(* what testpp/main.cpp and samples/sample.c do with the API, cut down to  *)
(* what the run is about, and the requests external threads may make.      *)
(***************************************************************************)
EXTENDS Coseq, CoseqPrograms

CallOf(op, to, seq, arg) == [op |-> op, to |-> to, seq |-> seq, arg |-> arg]
Only(op) == {CallOf(op, 0, "", "")}
On(op, category) == {CallOf(op, 0, "", category)}
Ask(op, to, seq) == {CallOf(op, to, seq, "")}
Answer == On("reply", "SUCCESS")
To(to, seq) == [to |-> to, seq |-> seq]

Body(name, calls) == [s \in {name} |-> calls]

Names == {"lock", "nolock", "probe", "collect", "slow", "noise", "fan", "quick", "late", "nosuch",
          "inner", "ask", "hog", "mute", "sub", "unsub", "publish", "join", "leave",
          "recv_notify", "work", "fire", "joinA", "joinB", "echo"}

FiberSymmetry == Permutations(Fibers)

-----------------------------------------------------------------------------
\* A sequence locks its module and waits for a reply; another only probes, and sends
\* to one that replies all the same; a third is parked in a timer, then in a request,
\* when the lock is taken.  "collect" fans out with the lock.
LockScript ==
  [m \in 0..1 |->
     IF m = 0
     THEN Body("lock", <<Only("lock"), Ask("request", 1, "slow") \cup Only("wait_timeout"),
                         Only("unlock") \cup Only("return"), Answer>>)
          @@ Body("nolock", <<Only("wait_timeout"), Ask("request", 1, "slow"), Answer>>)
          @@ Body("probe", <<Ask("send", 1, "noise"), Answer \cup Only("return")>>)
          @@ Body("collect", <<Only("lock"), Ask("request_async", 1, "noise"),
                               Ask("request_async", 1, "noise"), Only("wait_timeout"),
                               Only("gather"), Only("unlock"), Answer>>)
     ELSE Body("slow", <<Only("wait_timeout"), Answer>>)
          @@ Body("noise", <<On("reply", "ERROR")>>)]
LockRequests == {To(0, "lock"), To(0, "nolock"), To(0, "probe"), To(0, "collect")}

-----------------------------------------------------------------------------
\* Fan-out and gather, with a timed request in between, so that async replies
\* arrive while the sequence waits for something else and timed replies late.  Nobody
\* locks the module it runs on.
\* "late" may reply twice.
FanoutScript ==
  [m \in 0..1 |->
     IF m = 1
     THEN Body("fan", <<Ask("request_async", 0, "quick"), Ask("request_async", 0, "late"),
                        Ask("request_timeout", 0, "late") \cup Only("wait_timeout"),
                        Only("wait_reply"), Only("gather"), Answer>>)
     ELSE Body("quick", <<Answer>>)
          @@ Body("late", <<Only("wait_timeout"), Answer, Answer \cup Only("return")>>)]
FanoutRequests == {To(1, "fan")}

-----------------------------------------------------------------------------
\* These programs as one, of which a behaviour runs one: the lock, or "collect" beside
\* "nolock", with two external requests, the fan-out with one.
CallsScript == [m \in 0..1 |-> FanoutScript[m] @@ LockScript[m]]
CallsRequests == LockRequests \cup FanoutRequests

\* Whether one of the sequences has been asked for; the record of the last fiber launched
\* remembers which program it was.
Asked(names) ==
  \/ \E f \in Fibers : fib[f].fn \in names
  \/ \E m \in Modules : \E e \in ToSet(inbox[m] \o evs[m]) : e.seq \in names
OneProgram ==
  /\ Asked({"fan", "quick", "late"}) =>
       ext_id <= 2 /\ ~Asked({"lock", "nolock", "probe", "collect"})
  /\ Asked({"collect"}) => ~Asked({"lock", "probe"})

-----------------------------------------------------------------------------
\* Module 1 subscribes to module 0 and unsubscribes; module 0 publishes.  Called
\* from outside, "sub" has no module to register.
NotifyScript ==
  [m \in 0..1 |->
     IF m = 0
     THEN Body("sub", <<On("reg_notify", "news"), Answer>>)
          @@ Body("unsub", <<On("unreg_notify", "news"), Answer>>)
          @@ Body("publish", <<On("notify", "news")>>)
     ELSE Body("join", <<Ask("request", 0, "sub"), Answer>>)
          @@ Body("leave", <<Ask("request", 0, "unsub"), Answer>>)
          @@ Body("recv_notify", <<Only("return") \cup Answer>>)]
NotifyRequests == {To(0, "sub"), To(1, "join"), To(1, "leave"), To(0, "publish")}

-----------------------------------------------------------------------------
\* "ask" makes a timed request that may never be answered; over its deadline "hog"
\* locks the module, for a time of its own or until another module has replied.
\* "work" sends, and gathers; what it sent may be answered all the same.  The owner may
\* tear the instance down at any moment.
ProgressScript ==
  [m \in 0..1 |->
     IF m = 0
     THEN Body("ask", <<Ask("send", 0, "hog"), Ask("request_timeout", 0, "mute"), Answer>>)
          @@ Body("hog", <<Only("lock"), Ask("request", 1, "inner") \cup Only("wait_timeout"),
                           Only("unlock") \cup Only("return")>>)
          @@ Body("mute", <<Only("return") \cup Answer>>)
          @@ Body("work", <<Ask("send", 0, "mute"), Ask("request_async", 1, "inner"),
                            Only("gather"), Answer>>)
     ELSE Body("inner", <<Only("wait_timeout"), Answer>>)]
ProgressRequests == {To(0, "ask"), To(0, "work")}

-----------------------------------------------------------------------------
(* Programs that meet what the documentation does not say *)

\* A fan-out that is never gathered.
AbandonScript ==
  [m \in 0..1 |->
     IF m = 0 THEN Body("fire", <<Ask("request_async", 1, "slow"), Answer>>)
     ELSE Body("slow", <<Only("wait_timeout"), Answer>>)]
AbandonRequests == {To(0, "fire")}

\* A recv_notify handler that locks, like any sequence may.
HandlerLockScript ==
  [m \in 0..1 |->
     IF m = 0
     THEN Body("sub", <<On("reg_notify", "news"), Answer, On("notify", "news")>>)
     ELSE Body("join", <<Ask("request", 0, "sub"), Only("lock"), Only("wait_timeout"),
                         Only("unlock"), Answer>>)
          @@ Body("probe", <<Answer>>)
          @@ Body("recv_notify", <<Only("lock"), Only("unlock")>>)]
HandlerLockRequests == {To(1, "join"), To(1, "probe")}

\* A gathering sequence, and one that locks the module for a while.
OrderScript ==
  [m \in 0..1 |->
     IF m = 0
     THEN Body("fan", <<Ask("request_async", 1, "quick"), Ask("request_async", 1, "slow"),
                        Only("gather"), Answer>>)
          @@ Body("hog", <<Only("lock"), Ask("request", 1, "quick"), Only("unlock")>>)
     ELSE Body("quick", <<Answer>>) @@ Body("slow", <<Only("wait_timeout"), Answer>>)]
OrderRequests == {To(0, "fan"), To(0, "hog")}

\* A fan-out to module 1 only, collected after a delay.
SourceScript ==
  [m \in 0..1 |->
     IF m = 0
     THEN Body("fan", <<Ask("request_async", 1, "quick"), Only("wait_timeout"),
                        Only("wait_reply"), Answer>>)
     ELSE Body("quick", <<Answer>>)]
SourceRequests == {To(0, "fan")}

\* coseq_wait_reply: the source of a reply names the module that sent it, here
\* always module 1.
AsyncSourceIsSender ==
  \A f \in Fibers :
    fib[f].fn = "fan" /\ fib[f].src.result = "SUCCESS" => fib[f].src.thread_idx = 1

\* Registrations with two publishing modules.
TwoPublishersScript ==
  [m \in 0..2 |->
     IF m = 2
     THEN Body("joinA", <<Ask("request", 0, "sub"), Answer>>)
          @@ Body("joinB", <<Ask("request", 1, "sub"), Answer>>)
     ELSE Body("sub", <<On("reg_notify", "news"), Answer>>)]
TwoPublishersRequests == {To(2, "joinA"), To(2, "joinB")}

\* Two external threads ask for the same sequence.
EchoScript == [m \in 0..0 |-> Body("echo", <<Answer>>)]
EchoRequests == {To(0, "echo")}

-----------------------------------------------------------------------------
\* The programs meet what the theorems ask, but for those that are there to show what
\* happens without it.
ASSUME ProgramsAssumption ==
  /\ Script # AbandonScript => HasLargestLedgers
  /\ Script # HandlerLockScript => HandlersDoNotLock
  /\ Script # TwoPublishersScript => OnePublisher
  /\ Script \notin {ProgressScript, OrderScript} => FansOutLocked
  /\ UnregThenReplies
=============================================================================
