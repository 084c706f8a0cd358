------------------------------- MODULE Inbox -------------------------------
(***************************************************************************)
(* What is under the inbox of one module: the mutex and the condition      *)
(* variable, the linked lists of events, the timers of its fibers and the  *)
(* sleep at the top of sched_loop.  It refines EventQueue, the queue that  *)
(* Coseq takes the inbox to be.                                            *)
(*                                                                         *)
(* Threads that post are those of other modules, external threads, and the *)
(* scheduler's own thread while a sequence runs on it.  The owner stops    *)
(* the module.  What a resumed sequence does between two waits is reduced  *)
(* to what matters here: it may arm its timer, lock, unlock and post.      *)
(*                                                                         *)
(* Events are the records the heap can hold; one that was freed may be     *)
(* handed out again.  What nobody reads any more is reset: the next        *)
(* pointer of a free event, the deadline of a fiber that does not wait,    *)
(* what the last timed wait was given.                                     *)
(***************************************************************************)
EXTENDS TimeSpec, Sequences, SequencesExt

CONSTANTS
  Posters,       \* threads that post, the scheduler's own apart
  Sched, Owner,  \* the module's thread, and the one in stop_modules
  NoThread,
  Events,        \* event records
  NULL,
  Fibers, NoFiber,
  Timeouts,      \* milliseconds a sequence may wait
  MaxClock       \* bound: a time no deadline is set beyond

Threads == Posters \cup {Sched, Owner}

ASSUME InboxAssumption ==
  /\ Sched \notin Posters /\ Owner \notin Posters /\ Sched # Owner /\ NoThread \notin Threads
  /\ NULL \notin Events /\ NoFiber \notin Fibers
  /\ Timeouts \subseteq Nat /\ MaxClock \in Timespec

VARIABLES
  mtx,                           \* the thread that holds m->mtx
  cv,                            \* the scheduler at m->cv: "awake", "waiting", "signalled"
  stop,
  inbox_head, inbox_tail, deferred_head, deferred_tail,
  next,                          \* the next pointer of each event
  heap,                          \* the events that are free
  hand,                          \* the event each thread is posting
  evs,                           \* the rest of the batch
  loop,                          \* "top", "wait", "timers", "run", "stopped"
  locked_by,
  waiting_timer, deadline,       \* of the fibers
  has_timer, nearest,            \* what the timed wait was given
  clock,                         \* CLOCK_REALTIME
  ripe,                          \* the fibers of this pass whose deadline has passed
  queue, batch, aside,           \* history: the events in the three lists, in order
  due                            \* history: when each timer may fire, in nanoseconds

lists  == <<inbox_head, inbox_tail, deferred_head, deferred_tail, next, evs>>
memory == <<heap, hand>>
timers == <<waiting_timer, deadline, due>>
sleepVars == <<has_timer, nearest>>
contents == <<queue, batch, aside>>
vars == <<mtx, cv, stop, lists, memory, loop, locked_by, timers, sleepVars, clock, ripe,
          contents>>

Init ==
  /\ mtx = NoThread /\ cv = "awake" /\ stop = FALSE
  /\ inbox_head = NULL /\ inbox_tail = NULL /\ deferred_head = NULL /\ deferred_tail = NULL
  /\ next = [e \in Events |-> NULL]
  /\ heap = Events /\ hand = [t \in Threads |-> NULL] /\ evs = NULL
  /\ loop = "top" /\ locked_by = NoFiber
  /\ waiting_timer = {} /\ deadline = [f \in Fibers |-> Epoch]
  /\ has_timer = FALSE /\ nearest = Epoch
  /\ clock = Epoch /\ ripe = {}
  /\ queue = <<>> /\ batch = <<>> /\ aside = <<>>
  /\ due = [f \in Fibers |-> 0]

-----------------------------------------------------------------------------
(* post.  calloc gives an event whose next is NULL. *)

\* A sequence of the module posts while its scheduler is in a pass.
MayPost(t) == t \in Posters \/ (t = Sched /\ loop \in {"timers", "run"})

MakeEv(t, e) ==
  /\ MayPost(t) /\ hand[t] = NULL /\ e \in heap
  /\ heap' = heap \ {e}
  /\ hand' = [hand EXCEPT ![t] = e]
  /\ UNCHANGED <<mtx, cv, stop, lists, loop, locked_by, timers, sleepVars, clock, ripe, contents>>

LockToPost(t) ==
  /\ hand[t] # NULL /\ mtx = NoThread
  /\ mtx' = t
  /\ UNCHANGED <<cv, stop, lists, memory, loop, locked_by, timers, sleepVars, clock,
                 ripe, contents>>

\* mutant of Signalled: the signal forgotten
NotSignalled == cv

\* pthread_cond_signal: nothing is kept for a thread that does not wait.
Signalled == IF cv = "waiting" THEN "signalled" ELSE cv

\* e at the end of the list
Linked(e) == IF inbox_tail # NULL THEN [next EXCEPT ![inbox_tail] = e] ELSE next

LinkAndSignal(t) ==
  LET e == hand[t] IN
  /\ mtx = t /\ e # NULL
  /\ next' = Linked(e)
  /\ inbox_head' = IF inbox_tail # NULL THEN inbox_head ELSE e
  /\ inbox_tail' = e
  /\ cv' = Signalled
  /\ mtx' = NoThread
  /\ hand' = [hand EXCEPT ![t] = NULL]
  /\ queue' = Append(queue, e)
  /\ UNCHANGED <<stop, deferred_head, deferred_tail, heap, evs, loop, locked_by, timers,
                 sleepVars, clock, ripe, batch, aside>>

-----------------------------------------------------------------------------
(* stop_modules, as far as one module is concerned *)

LockToStop ==
  /\ ~stop /\ mtx = NoThread
  /\ mtx' = Owner
  /\ UNCHANGED <<cv, stop, lists, memory, loop, locked_by, timers, sleepVars, clock,
                 ripe, contents>>

StopAndSignal ==
  /\ mtx = Owner
  /\ stop' = TRUE /\ cv' = Signalled /\ mtx' = NoThread
  /\ UNCHANGED <<lists, memory, loop, locked_by, timers, sleepVars, clock, ripe, contents>>

-----------------------------------------------------------------------------
(* The top of sched_loop *)

LockTop ==
  /\ loop = "top" /\ mtx = NoThread
  /\ mtx' = Sched
  /\ UNCHANGED <<cv, stop, lists, memory, loop, locked_by, timers, sleepVars, clock,
                 ripe, contents>>

\* The deferred events go in front of the inbox once the module is unlocked.
PutsBack == locked_by = NoFiber /\ deferred_head # NULL
HeadNow == IF PutsBack THEN deferred_head ELSE inbox_head

\* mutant of TailNow: the tail is left as it was
TailKept == inbox_tail
TailNow == IF PutsBack /\ inbox_tail = NULL THEN deferred_tail ELSE inbox_tail
NextNow == IF PutsBack THEN [next EXCEPT ![deferred_tail] = inbox_head] ELSE next
Spliced ==
  /\ next' = NextNow
  /\ deferred_head' = IF PutsBack THEN NULL ELSE deferred_head
  /\ deferred_tail' = IF PutsBack THEN NULL ELSE deferred_tail
QueueNow == IF locked_by = NoFiber THEN aside \o queue ELSE queue
AsideNow == IF locked_by = NoFiber THEN <<>> ELSE aside

LockedOut(f) == locked_by # NoFiber /\ f # locked_by

\* The timers the loop may have to wake up for; those the lock holds back are not.
Runnable == {f \in waiting_timer : ~LockedOut(f)}

\* mutant of Earliest: the first one found
AnyOf(f) == f \in Runnable
Earliest(f) == f \in Runnable /\ \A g \in Runnable : ~ts_lt(deadline[g], deadline[f])

\* pthread_cond_wait or pthread_cond_timedwait, which let go of the mutex
Sleep ==
  /\ loop = "top" /\ mtx = Sched
  /\ HeadNow = NULL /\ ~stop
  /\ Spliced /\ inbox_head' = HeadNow /\ inbox_tail' = TailNow
  /\ has_timer' = (Runnable # {})
  /\ \/ Runnable = {} /\ nearest' = Epoch
     \/ \E f \in Fibers : Earliest(f) /\ nearest' = deadline[f]
  /\ loop' = "wait" /\ cv' = "waiting" /\ mtx' = NoThread
  /\ queue' = QueueNow /\ aside' = AsideNow
  /\ UNCHANGED <<stop, memory, evs, locked_by, timers, clock, ripe, batch>>

\* The inbox is emptied, the mutex released, the clock read.
TakeInbox ==
  /\ evs' = HeadNow
  /\ inbox_head' = NULL /\ inbox_tail' = NULL
  /\ Spliced
  /\ ripe' = {f \in waiting_timer : ~ts_lt(clock, deadline[f])}
  /\ has_timer' = FALSE /\ nearest' = Epoch
  /\ loop' = "timers" /\ mtx' = NoThread /\ cv' = "awake"
  /\ batch' = QueueNow /\ queue' = <<>> /\ aside' = AsideNow
  /\ UNCHANGED <<stop, memory, locked_by, timers, clock>>

TakeAtOnce ==
  /\ loop = "top" /\ mtx = Sched
  /\ HeadNow # NULL /\ ~stop
  /\ TakeInbox

\* The wait returns: signalled, at its deadline or for no reason.  Either way the
\* mutex is taken first.
SignalOnly == cv = "signalled"      \* mutant of Wakes: a wait without a timeout
TimeIsUp == has_timer /\ ~ts_lt(clock, nearest)
Wakes == cv = "signalled" \/ TimeIsUp
TakeAfterWait ==
  /\ loop = "wait" /\ mtx = NoThread /\ ~stop
  /\ Wakes
  /\ TakeInbox

TakeSpuriously ==
  /\ loop = "wait" /\ mtx = NoThread /\ ~stop
  /\ ~Wakes
  /\ TakeInbox

\* mutant of SeesStop: stop is looked at when the loop has something to do
SeesStopWithWork == stop /\ loop = "top" /\ mtx = Sched /\ HeadNow # NULL
SeesStop ==
  /\ stop
  /\ \/ loop = "top" /\ mtx = Sched
     \/ loop = "wait" /\ mtx = NoThread

Stops ==
  /\ SeesStop
  /\ Spliced /\ inbox_head' = HeadNow /\ inbox_tail' = TailNow
  /\ loop' = "stopped" /\ mtx' = NoThread /\ cv' = "awake"
  /\ queue' = QueueNow /\ aside' = AsideNow
  /\ UNCHANGED <<stop, memory, evs, locked_by, timers, sleepVars, clock, ripe, batch>>

-----------------------------------------------------------------------------
(* The pass: expired timers, then the batch *)

\* No sequence is in the middle of a post.
AtSched(where) == loop = where /\ hand[Sched] = NULL

\* f runs until it waits again: for its timer, or for something else.
Arms(f, ms) ==
  LET d == ts_add_ms(clock, ms) IN
  /\ ~ts_lt(MaxClock, d)
  /\ waiting_timer' = waiting_timer \cup {f}
  /\ deadline' = [deadline EXCEPT ![f] = d]
  /\ due' = [due EXCEPT ![f] = Nanoseconds(clock) + ms * NsPerMs]
Resumed(f) ==
  /\ \/ /\ waiting_timer' = waiting_timer \ {f}
        /\ deadline' = [deadline EXCEPT ![f] = Epoch] /\ due' = [due EXCEPT ![f] = 0]
     \/ \E ms \in Timeouts : Arms(f, ms)
  /\ locked_by' \in {locked_by, f} \cup (IF locked_by = f THEN {NoFiber} ELSE {})

TimerFires(f) ==
  /\ AtSched("timers") /\ f \in ripe /\ ~LockedOut(f)
  /\ ripe' = ripe \ {f}
  /\ Resumed(f)
  /\ UNCHANGED <<mtx, cv, stop, lists, memory, loop, sleepVars, clock, contents>>

TimerHeldBack(f) ==
  /\ AtSched("timers") /\ f \in ripe /\ LockedOut(f)
  /\ ripe' = ripe \ {f}
  /\ UNCHANGED <<mtx, cv, stop, lists, memory, loop, locked_by, timers, sleepVars, clock,
                 contents>>

TimersDone ==
  /\ AtSched("timers") /\ ripe = {}
  /\ loop' = "run"
  /\ UNCHANGED <<mtx, cv, stop, lists, memory, locked_by, timers, sleepVars, clock, ripe,
                 contents>>

\* mutant of Following: the pointer is read after the event was put aside
FollowingLate(e) == IF locked_by # NoFiber THEN NULL ELSE next[e]

\* The next event of the batch, read before e is freed or put aside.
Following(e) == next[e]
After(s, e) == LET i == CHOOSE i \in DOMAIN s : s[i] = e IN SubSeq(s, i + 1, Len(s))

\* A reply or a notification may come to a locked module; it resumes the holder or
\* a new fiber.  An event that names nothing resumes nobody.
Handle ==
  /\ AtSched("run") /\ evs # NULL
  /\ evs' = Following(evs)
  /\ heap' = heap \cup {evs} /\ next' = [next EXCEPT ![evs] = NULL]
  /\ batch' = After(batch, evs)
  /\ \/ \E f \in Fibers : (~LockedOut(f) \/ f \notin waiting_timer) /\ Resumed(f)
     \/ UNCHANGED <<timers, locked_by>>
  /\ UNCHANGED <<mtx, cv, stop, inbox_head, inbox_tail, deferred_head, deferred_tail,
                 hand, loop, sleepVars, clock, ripe, queue, aside>>

\* defer_ev
Deferred(e) ==
  IF deferred_tail # NULL THEN [next EXCEPT ![e] = NULL, ![deferred_tail] = e]
                          ELSE [next EXCEPT ![e] = NULL]

\* mutant of Kept: consumed stays set
FreedToo(e) == heap \cup {e}
Kept(e) == heap

DeferEv ==
  /\ AtSched("run") /\ evs # NULL /\ locked_by # NoFiber
  /\ evs' = Following(evs)
  /\ next' = Deferred(evs)
  /\ deferred_head' = IF deferred_tail # NULL THEN deferred_head ELSE evs
  /\ deferred_tail' = evs
  /\ heap' = Kept(evs)
  /\ batch' = After(batch, evs) /\ aside' = Append(aside, evs)
  /\ UNCHANGED <<mtx, cv, stop, inbox_head, inbox_tail, hand, loop, locked_by, timers,
                 sleepVars, clock, ripe, queue>>

\* reap_done: a sequence that is over lets go of the lock.  One that waits for its
\* timer is not; of the others Inbox cannot tell.
ReapDone ==
  /\ AtSched("run") /\ evs = NULL
  /\ locked_by # NoFiber /\ locked_by \notin waiting_timer
  /\ locked_by' = NoFiber
  /\ UNCHANGED <<mtx, cv, stop, lists, memory, loop, timers, sleepVars, clock, ripe,
                 contents>>

EndPass ==
  /\ AtSched("run") /\ evs = NULL
  /\ loop' = "top"
  /\ UNCHANGED <<mtx, cv, stop, lists, memory, locked_by, timers, sleepVars, clock, ripe,
                 contents>>

-----------------------------------------------------------------------------
Tick ==
  /\ ts_lt(clock, MaxClock)
  /\ clock' = IF clock.tv_nsec + 1 = NsPerSec
              THEN [tv_sec |-> clock.tv_sec + 1, tv_nsec |-> 0]
              ELSE [clock EXCEPT !.tv_nsec = @ + 1]
  /\ UNCHANGED <<mtx, cv, stop, lists, memory, loop, locked_by, timers, sleepVars, ripe,
                 contents>>

Poster(t) == (\E e \in Events : MakeEv(t, e)) \/ LockToPost(t) \/ LinkAndSignal(t)

\* Everything the loop does when it can, a wake-up for no reason apart.
SchedLoop ==
  \/ LockTop \/ Sleep \/ TakeAtOnce \/ TakeAfterWait \/ Stops
  \/ \E f \in Fibers : TimerFires(f) \/ TimerHeldBack(f)
  \/ TimersDone \/ Handle \/ DeferEv \/ ReapDone \/ EndPass

Next ==
  \/ SchedLoop \/ TakeSpuriously
  \/ \E t \in Posters \cup {Sched} : Poster(t)
  \/ LockToStop \/ StopAndSignal
  \/ Tick

Spec == Init /\ [][Next]_vars

(***************************************************************************)
(* Fairness: a thread that can go on does, one that is in post gets the    *)
(* mutex and finishes, the clock goes on.  Nothing makes a thread post or  *)
(* the owner stop the module.                                              *)
(***************************************************************************)
Fairness ==
  /\ WF_vars(SchedLoop)
  /\ \A t \in Posters \cup {Sched} : WF_vars(LockToPost(t)) /\ WF_vars(LinkAndSignal(t))
  /\ WF_vars(StopAndSignal)
  /\ WF_vars(Tick)

FairSpec == Spec /\ Fairness

-----------------------------------------------------------------------------
(* Properties *)

Pointer == Events \cup {NULL}
Lists == {inbox_head, inbox_tail, deferred_head, deferred_tail, evs}
TypeOK ==
  /\ mtx \in Threads \cup {NoThread} /\ cv \in {"awake", "waiting", "signalled"}
  /\ stop \in BOOLEAN /\ Lists \subseteq Pointer
  /\ next \in [Events -> Pointer] /\ heap \subseteq Events /\ hand \in [Threads -> Pointer]
  /\ loop \in {"top", "wait", "timers", "run", "stopped"}
  /\ locked_by \in Fibers \cup {NoFiber}
  /\ waiting_timer \subseteq Fibers /\ deadline \in [Fibers -> Timespec]
  /\ has_timer \in BOOLEAN /\ nearest \in Timespec /\ clock \in Timespec
  /\ ripe \subseteq Fibers /\ due \in [Fibers -> Nat]
  /\ {queue, batch, aside} \subseteq Seq(Events)

\* s is what a reader finds who follows next from head.
IsChain(s, head) ==
  /\ head = IF s = <<>> THEN NULL ELSE s[1]
  /\ \A i \in DOMAIN s : next[s[i]] = IF i = Len(s) THEN NULL ELSE s[i + 1]
IsList(s, head, tail) ==
  /\ IsChain(s, head)
  /\ tail = IF s = <<>> THEN NULL ELSE s[Len(s)]

\* post, defer_ev and the splice of sched_loop: whatever the threads do, the lists
\* hold exactly the events posted and not yet handled, in their order.
ListsHoldWhatWasPosted ==
  /\ IsList(queue, inbox_head, inbox_tail)
  /\ IsList(aside, deferred_head, deferred_tail)
  /\ IsChain(batch, evs)

\* ... and every event is in one place only: free, in the hand of one thread, or
\* once in one list.  None leaks, none is freed while a list still leads to it.
InHand == {hand[t] : t \in Threads} \ {NULL}
Places == <<heap, InHand, ToSet(queue), ToSet(batch), ToSet(aside)>>
EventsInOnePlace ==
  /\ IsInjective(queue) /\ IsInjective(batch) /\ IsInjective(aside)
  /\ \A t, u \in Threads : hand[t] = hand[u] /\ hand[t] # NULL => t = u
  /\ \A i, j \in 1..5 : i # j => Places[i] \cap Places[j] = {}
  /\ UNION {Places[i] : i \in 1..5} = Events

\* pthread_cond_wait: the scheduler does not sleep, unsignalled, on an event or a stop.
NoLostWakeup == cv = "waiting" => inbox_head = NULL /\ ~stop

\* pthread_cond_timedwait: nor past the deadline of a timer it may run.
NoTimerOverslept ==
  loop = "wait" => \A f \in Runnable : has_timer /\ Nanoseconds(nearest) <= due[f]

\* A timer never fires before its time.
NoTimerEarly == \A f \in ripe : due[f] <= Nanoseconds(clock)

\* The queue Coseq takes the inbox to be.
AtLoop == IF loop = "timers" THEN "run" ELSE loop
Queue == INSTANCE EventQueue WITH
  Readers <- {Sched}, Item <- Events,
  inbox <- [r \in {Sched} |-> queue], evs <- [r \in {Sched} |-> batch],
  deferred <- [r \in {Sched} |-> aside], loop <- [r \in {Sched} |-> AtLoop],
  locked <- {r \in {Sched} : locked_by # NoFiber}
ImplementsEventQueue == Queue!Spec

\* sched_loop: a posted event is taken, unless the module stops first.
PostedIsTaken ==
  \A e \in Events : (\E i \in DOMAIN queue : queue[i] = e) ~>
                      (stop \/ \A i \in DOMAIN queue : queue[i] # e)

\* An expired timer fires, unless the lock or the end of the module keeps it.
ExpiredFires ==
  \A f \in Fibers :
    (f \in waiting_timer /\ due[f] <= Nanoseconds(clock)) ~>
      (f \notin waiting_timer \/ due[f] > Nanoseconds(clock) \/ LockedOut(f) \/ stop)

\* stop_modules: a module told to stop does.
StopIsSeen == stop ~> (loop = "stopped")
=============================================================================
