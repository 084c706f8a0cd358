# A TLA+ verification of coseq

coseq lets each of up to 32 *modules* run *sequences*: straight-line functions that ask other
modules for things, sleep, publish, and wait, without callbacks. A module is one pthread that
schedules its sequences as fibers (`ucontext`); modules only exchange events through one
mutex-protected inbox each. This directory models that runtime (`coseq/coseq.c`), model-checks it
with TLC on small programs and proves facts about it with TLAPS.

## The system

| Part | State | Operations | Where |
|---|---|---|---|
| Scheduler of a module | the batch taken from the inbox, deferred events, list of fibers, running fiber, lock holder, pending requests | `sched_loop`, `handle_reply`, `defer_ev`, `new_fiber`, `resume`, `reap_done` | `coseq.c:281-623` |
| In-sequence API | fields of the running fiber, `pending`, `next_req_id`, `locked_by` | request, request_timeout, request_async, wait_reply, gather, send, reply, wait_timeout, lock, unlock | `coseq.c:625-767, 841-853` |
| Publish/subscribe | list of listeners of each module, `next_client_id` of the instance | reg_notify, unreg_notify, notify | `coseq.c:769-839` |
| Inbox | queue and `stop`, under the module's mutex | `post`, taking the batch | `coseq.c:231-254, 505-545` |
| External requests | one mailbox per instance under `ext_mtx` | `request_sync`, `request_async`, `ext_deliver` | `coseq.c:352-374, 985-1037` |
| Lifecycle | `nr_module`, threads, mutexes | create, setup, teardown, destroy | `coseq.c:863-983, 1039-1084` |
| Time helpers | - | `ts_add_ms`, `ts_lt` | `coseq.c:209-229` |
| C++ wrapper | registration tables, `source` views | `manager`, `iface`, `module_base` | `coseqpp/` |
| Logging | callback pointer | `coseq_set_log_cb` | `coseq.c:34-78` |

Interactions. A sequence's call posts an event to another module's inbox (START, REPLY, NOTIFY), or
delivers a reply to the external mailbox. The scheduler takes the whole inbox at once, first resumes
the fibers whose timers expired, then handles the batch in order, then frees finished fibers. While a
sequence runs, its scheduler does not: control comes back when the sequence waits or returns. While
a sequence holds the module's lock, the scheduler handles only notifications and the replies that
this sequence awaits; other events go to `deferred` and come back when the module is found unlocked
at the top of the loop.

What is hard here. Replies that arrive late, twice, or in an unexpected wait; timeouts that race
replies already in the batch or deferred; the lock's deferral changing what is handled when; fibers
freed while something still names them; sleeping on a condition variable with work to do; threads
sharing the mailbox and `next_client_id`; teardown at any moment. `PROJECT.json` lists each hazard at
its line, with the property that covers it or the reason none does.

What makes each part correct:

- scheduler: a parked fiber can always be resumed by something, a deferred event is always taken
  back, a lock never stays with a freed fiber, a `pending` entry never names a freed one;
- in-sequence API: a request returns with its own reply or timeout; `wait_reply` knows exactly how
  many replies are to come and hands them out as they came; a lock keeps other sequences out;
- publish/subscribe: registrations have distinct ids, none is the sentinel, and nothing comes after
  a confirmed unregistration;
- external requests: a thread gets the reply to its own request;
- inbox: its lists hold what was posted, once and in order, and its reader misses neither a post nor a
  timer nor a stop;
- lifecycle: setup is all or nothing, no thread meets a mutex that is not there, nothing is joined or
  destroyed twice, teardown ends, whatever is going on;
- time helpers: a deadline is never early.

## Modules

| Module | Models | Notes |
|---|---|---|
| `CoseqBase` | constants, variables, records, `post`, `pending_*`, `resume`, `set_src`, `ext_deliver` | the data model every layer extends |
| `CoseqSched` | `sched_loop` and what it calls | one action per branch of the loop |
| `CoseqCalls` | the API calls of the running sequence | one action per call, or per case of it |
| `CoseqNotify` | publish/subscribe | `reg_notify` in three or four steps (test of the shared counter, its reset when it is the sentinel, read, write), `notify` one listener per step |
| `CoseqInstance` | external requests, teardown of a running program | `request_sync` is two steps around its wait |
| `Coseq` | an instance: the composition of all the above, its fairness, types and properties | uses `EventQueue`, implements `RequestReply` |
| `CoseqPrograms` | no code: what the theorems ask of the programs that run on coseq | conditions on `Script` that TLC evaluates |
| `EventQueue` | the abstract queue of a module, with its sleeping reader | what an inbox promises |
| `RequestReply` | the numbers of a module's requests, who is inside one, who is owed answers, what was handed over | what the request calls promise, without messages |
| `Inbox` | the mutex, condition variable, linked lists and timed wait under one inbox | implements `EventQueue` |
| `TimeSpec` | `now_ts`, `ts_add_ms`, `ts_lt` | used by `Inbox` |
| `Lifecycle` | create, setup and its rollback, teardown, destroy, one pthread call at a time | on its own |
| `CoseqPP` | the C++ wrapper: each method of `iface` as the C call it makes, the table of `manager::setup` | extends `Coseq` |
| `TestProgram` | `testpp/main.cpp`, `samples/sample.c` and `samplespp/sample.cpp`: their modules and main threads | runs on `CoseqPP` |
| `MCCoseq`, `MCInbox`, `MCLifecycle`, `MCTestProgram` | instances and programs for TLC | |
| `CoseqProofs`, `CoseqFiberProofs`, `CoseqLockProofs`, `CoseqNotifyProofs`, `CoseqRequestProofs`, `TestProgramProofs`, `InboxProofs`, `LifecycleProofs` | | proofs |

Definitions marked `mutant of` are variants of the definition next to them, one for each property: a
plausible mistake that the property must notice. No specification uses them.

How state corresponds, in `Coseq`. The variables are the fields of `module_t`, `coseq_ctx_private` and,
in `fib`, of `fiber_t`, indexed by module and fiber. What differs:

- `loop[m]` is the place of the thread in `sched_loop` (`top`, `wait`, `run`, `stopped`), `evs[m]` and
  `due[m]` its locals: the rest of the batch and the timers of the pass not yet looked at.
- `Fibers` is a finite heap of fiber records. A freed record keeps its contents until it is handed out
  again, so that a use after free shows stale or foreign contents. No free record means calloc failed.
- The flags `waiting_reply`, `waiting_timer`, `waiting_any` are the set `waits` of a fiber.
- `expired` is all that is left of time: the set of fibers whose deadline the clock has passed.
- `pending[m]` is a set: ids are distinct while `next_req_id` has not wrapped.
- `ext.msg` and `client[c].got` stand for the payload of a reply: the request it answers.
- `holding` is a history variable: the fibers between their `coseq_lock` and their unlock or return.

Sequences are user code. `Script[m][s]` is the body of sequence `s` of module `m`: for each position
the set of API calls it may make there; `fib[f].pc` is the position. The proofs hold for every script;
TLC runs the programs of `TestProgram` as they are, and those in `MCCoseq` that are cut from them and
leave more open.

Atomicity. One step is one API call or one branch of the loop. Everything such a step touches besides
one post belongs to the module's own thread, except `next_client_id` (hence a step for each read and write
of it), `nr_module`
(read by `post` without a lock: a post after teardown began is dropped or not) and the mailbox
(changed under `ext_mtx`). An external request takes its id and posts in one step: `request_sync` holds
`ext_mtx` over both, `request_async` does not, but all that could come in between is another thread
taking another number. `notify` posts once per listener, so it is one step per listener. That a post
and the taking of a batch may each be one step, on a plain queue, is what `EventQueue` is for: `Coseq` is
shown to use its inboxes only as `EventQueue` says, and `Inbox` is shown to implement it.

`Inbox` takes one module apart. `inbox_head`, `inbox_tail`, `deferred_head`, `deferred_tail`, `evs` and
`next` are the pointers of the code; an event is allocated, held in a thread's hand, linked under the
mutex, taken, freed or put aside, and its record may be used again. `mtx`, `cv` and `loop` say who is where
in the mutex and the wait; the wait lets go of the mutex and takes it again. `deadline` and `nearest` are
timespecs against a clock that counts nanoseconds. `queue`, `batch` and `aside` are history: what the three
lists should hold. What a resumed sequence does is cut down to arming its timer, locking, unlocking and
posting; a holder that is reaped lets go of the lock (`ReapDone`: `Inbox` cannot tell who has finished, but
who waits for a timer has not). The whole of a locked region is one step when no other thread can see it half done.

`Lifecycle` keeps the owner's position in its call (`call`: which call, which loop of it, how far) and, for
each slot of `modules[]`, whether its mutex and condition variable are initialised, its `th_started` and
`stop`, and what its thread is doing. A thread that posts picks a target below `nr_module` in one step and
locks it in the next, so that everything can happen in between.

`TestProgram` adds to `Coseq` the test's own variables (its log, its counters, the client id it passes
round, what `reg_notify` or `unreg_notify` last returned, what a fan-out has collected) and delays: a timer
has a length in milliseconds, main sleeps, and time goes on only when no thread
can do anything. It is the test's own assumption that the machine is that fast. Bodies are lists of the
methods of `iface`; the two mains are lists of statements.

## Fairness

`Coseq!FairSpec` gives weak fairness to each module's thread (the kernel runs it; a signalled or timed-out
wait returns), to the clock for each timer, to an external thread whose reply is ready, and to a
teardown that was begun. It assumes nothing of external threads starting requests, of the owner
starting a teardown, or of spurious wakeups; these may never happen.

`Inbox` asks the same: the loop goes on when it can, a thread that is inside `post` gets the mutex and
finishes, an owner that has the mutex sets `stop`, the clock goes on. Weak fairness of the loop covers its
wait for the mutex because every holder lets go of it and nobody posts for ever: a poster needs an event, and
only the loop frees them.

`Lifecycle` asks that a call that was begun goes on, that a thread at the top of its loop, woken to stop, or
inside a post takes its step, and, with strong fairness, that a pass ends (`PassOver`): a thread may post any
number of times in a pass, but a pass has a finite batch. `TestProgram` asks weak fairness of main, of every
module's thread and of time.

A spurious wakeup is possible whenever a module of `Coseq` sleeps, so TLC's deadlock check cannot report a
module that sleeps for ever: `NoFiberForgotten`, `NothingStranded` and the liveness runs say so instead.
`CHECK_DEADLOCK FALSE` is given where the system may rightly stop: `progress` and `inbox` (torn down, or
stopped and out of events), `programs` (main has returned).

## Runs

| Run | Module | What runs | Shows |
|---|---|---|---|
| `calls` | `MCCoseq` | either a sequence that locks and parks in a request or a timer, and may return without unlocking, another parked when the lock is taken, a probe that sends to a sequence which replies all the same; or a sequence that fans out and gathers with the lock, and one parked when it does; or two async requests, a timed request or a timer, a wait_reply and a gather, with a callee that may reply twice | `TypeOK`, the lock (`LockHolderLive`, `NothingStranded`, `LockExclusion`), requests (`PendingFibersLive`, `AsyncAccounting`, `NoFiberForgotten`, `RequestGetsItsReply`, and `AnswersRequests`, the refinement of `RequestReply`), who answers (`AnswersComeFromCallee`), the order of arrival (`CollectsInArrivalOrder`), the mailbox (`ClientGetsOwnReply`) |
| `progress` | `MCCoseq` | a timed request that may not be answered, a sequence that locks over its deadline, one that sends and then gathers, and a teardown at any moment | `SyncRequestsReturn`, `DeferredAreHandled`, `TimedRequestsReturn`, `TeardownEnds` under fairness; `UsesEventQueues` |
| `notify` | `MCCoseq` | subscribe, unsubscribe, publish, with a client id space of 3 so that it wraps | `NotifyStopsAfterUnregister`, `SentinelNeverGiven` |
| `inbox` | `MCInbox` | a posting thread, the module's own, the owner; two timers, three events | the lists (`ListsHoldWhatWasPosted`, `EventsInOnePlace`), the sleep (`NoLostWakeup`, `NoTimerOverslept`, `NoTimerEarly`), `ImplementsEventQueue`, and under fairness `PostedIsTaken`, `ExpiredFires`, `StopIsSeen` |
| `lifecycle` | `MCLifecycle` | tables of 0, 2, 3 and 4 modules where 3 fit, set up and torn down again and again, any pthread call failing | `MutexesOutliveThreads`, `StopsOnlyWhatWasStarted`, `AllOrNothing`, `NothingLeft`, and `CallsReturn` under fairness |
| `programs` | `MCTestProgram` | `testpp/main.cpp` and the sample from main to return | `ChecksHold`, `ResultsHold`, `AssertsHold`, `MainReturns` |

Bounds. Two modules in the runs of `MCCoseq` (one asks, one answers; a third only adds a longer chain of the
same steps), three where two publishers matter and in `programs`. Three or four fiber records, so that in
the smaller runs calloc fails and records are reused; six in `programs`, where it must not. `MaxExt` external
requests per behaviour: two in `calls` (two sequences in flight), three in `notify`, one in `progress`, where
the sequence asked for starts the others. A client id modulus of 3 or 4 in place of 256 where the counter
must wrap. The constraint `OneProgram` of `calls` keeps its three programs apart: a behaviour asks for sequences
of one of them, and for the largest one once. Fiber records are interchangeable, hence the symmetry in the
safety runs; in `progress`, where TLC must not use symmetry, the action constraint `FirstFree` hands out the
first free record instead. It only renames records and leaves every action a step it can take, so that it
takes nothing from the liveness it is used with.

In `inbox` a second has two milliseconds of one nanosecond and the clock runs to one second: deadlines carry,
timers are set with others running, and expire in either order. Three events are enough for a list to have a
head, a middle and a tail, or for each of the three lists to have one. `Ticks` bounds the endless loop of the
sample's `c_loop` to six rounds; main tears the instance down before the sixth.

## Where code and documentation part

Each of these is a run of its own that TLC finds violated; `PROJECT.json` quotes the lines.

- `abandoned` - a sequence that returns without collecting an async reply leaves a `pending` entry
  naming its freed fiber; the late reply is written through it (`coseq.c:441, 483`). The documents do
  not ask a sequence to collect, and a comment calls unknown and late replies harmless.
- `handler_lock` - `recv_notify` handlers run while the module is locked, and `coseq_lock` does not
  look for a holder: a handler that locks and unlocks ends the lock of the parked sequence.
- `arrival_order` - a reply deferred by somebody else's lock is overtaken by a later one of the same
  gather; the API promises arrival order.
- `reply_source` - a reply that waited in the fiber's queue is handed out with `thread_idx` 0.
- `id_race` - `next_client_id` is shared by all modules' threads with no lock: two registrations made
  at once can get one id, where the comments say ids are unique in the instance. (The counter also
  wraps past 0xff onto ids still in use.)
- `two_clients` - two external threads in `request_sync` share one mailbox; one returns with the
  other's reply.

For `abandoned`, `handler_lock`, `arrival_order`, `id_race` and `two_clients` a theorem below says under which
condition on the programs the documented behaviour is what the code does.

## Proofs

Checked by TLAPS for every value of the constants: any number of modules up to 32, any set of fiber
records, clients and categories, any script, any modulus of the client ids; any number of posting threads,
events, timers and timeouts, any units of time; any `MAX_MODULE` and any tables.

| Theorem | Module | Condition | Says |
|---|---|---|---|
| `TypeCorrect` | `CoseqProofs` | - | `[]TypeOK` |
| `LockHolderIsLive`, `NothingIsStranded` | `CoseqFiberProofs` | `CollectsBeforeReturn` | `[]LockHolderLive`, `[]NothingStranded` |
| `PendingFibersAreLive`, `AccountsBalance`, `NoFiberIsForgotten` | `CoseqFiberProofs` | `CollectsBeforeReturn` | `[]PendingFibersLive`, `[]AsyncAccounting`, `[]NoFiberForgotten` |
| `RequestIsAnswered` | `CoseqFiberProofs` | `CollectsBeforeReturn` | `RequestGetsItsReply` |
| `RequestsAreAnswered` | `CoseqRequestProofs` | `CollectsBeforeReturn` | `AnswersRequests` |
| `CalleesAnswer` | `CoseqRequestProofs` | `CollectsBeforeReturn` | `AnswersComeFromCallee` |
| `LockExcludes` | `CoseqLockProofs` | `CollectsBeforeReturn`, `HandlersDoNotLock` | `[]LockExclusion` |
| `ArrivalOrderIsKept` | `CoseqLockProofs` | `CollectsBeforeReturn`, `HandlersDoNotLock`, `FansOutLocked` | `CollectsInArrivalOrder` |
| `OneClient` | `CoseqProofs` | `AtMostOneClient` | `[]ClientGetsOwnReply` |
| `SentinelIsNeverGiven` | `CoseqNotifyProofs` | `OnePublisher`, `CollectsBeforeReturn` | `[]SentinelNeverGiven` |
| `NotifyEndsWithReply` | `CoseqNotifyProofs` | `CollectsBeforeReturn`, `UnregThenReplies`, `[][OwnUnregister]_vars` | `[]NotifyStopsAfterUnregister` |
| `ClientIdsAreUnique` | `CoseqNotifyProofs` | `OnePublisher`, `CollectsBeforeReturn`, `[][CountsUp]_vars` | `[]UniqueClientIds` |
| `QueuesAreUsedInOrder` | `CoseqProofs` | - | `UsesEventQueues` |
| `ProgramsRunOnCoseq` | `TestProgramProofs` | - | `TestSpec => Spec` |
| `ProgramsLock`, `ProgramsRequests`, `ProgramsOutside` | `TestProgramProofs` | - | of `TestSpec`: the lock, the requests, the mailbox and the client ids, as above |
| `InboxIsAQueue` | `InboxProofs` | - | `ImplementsEventQueue` |
| `ListsAreSound`, `NoEventIsLost` | `InboxProofs` | - | `[]ListsHoldWhatWasPosted`, `[]EventsInOnePlace` |
| `NoWakeupIsLost`, `NoTimerIsOverslept`, `NoTimerIsEarly`, `TypeCorrect` | `InboxProofs` | - | the properties of the sleep, `[]TypeOK` |
| `AddMsIsLater`, `LtIsEarlier` | `InboxProofs` | - | `ts_add_ms` adds, `ts_lt` compares |
| `MutexesAreThere`, `StopsWhatRuns`, `SetupIsAllOrNothing`, `NothingIsLeft`, `TypeCorrect` | `LifecycleProofs` | - | every invariant of `Lifecycle` |

The assumptions are the named `ASSUME`s of `CoseqBase`, `TimeSpec`, `Inbox` and `Lifecycle`, which TLC evaluates
on every run: sizes are natural numbers, units are not zero, special values are not members of the sets
they stand beside. `TestProgram` has two of its own: the instance it runs on is the one with its programs, and
those meet the conditions of the theorems it uses.

**Conditions.** Those of the table are operators of `CoseqPrograms` on the text of the programs. TLC evaluates
them: `TestProgram` assumes them of the programs of the repository, `MCCoseq` of its own, except in the runs
that are there to break one. `CollectsBeforeReturn` asks that a body has some ledger (below), a set too large to
enumerate; `HasLargestLedgers` computes the one ledger that is there if any is, from the end of the body
backwards, and the other condition follows from it.

**Types.** The invariant is `TypeInv`: the types, and that every fiber the thread can come to run has a
registered body (`KnownFibers`), without which the next call of a sequence has no type. One lemma per
family of actions; `CallStep` states what all calls share.

**Fibers.** The properties of the lock and of requests are not inductive one by one: that a late reply
finds a live fiber needs the waits of that fiber, those need the timers of the pass, those need the
place of the thread in its loop. `FiberInv` puts them together:

- `RecordOk`, for each live fiber, as a predicate on its record and on the pending entries that name it:
  the running fiber waits for nothing, a parked one waits for something, a wait for a reply has its
  entry, a `wait_reply` has one to wait for, and `async_outstanding` is the number of entries it did not
  ask for with a plain request plus the length of its reply queue;
- `PendingOk`: entries lead to live fibers and have distinct ids below `next_req_id`;
- `SchedulerOk`: the running fiber, the due timers and the lock holder are in the module's list, and a
  module sleeps with deferred events only while it is locked;
- `HeapOk`: the lists of two modules share no record, and a free record waits for nothing.

All but `HeapOk` is local to a thread: a step of one module writes nothing that another's part reads
(`ThreadKept`), so each action needs only its own module's part. Because `RecordOk` speaks of values, what
a branch does to a record is a lemma without primes (`AskAndWait`, `HandedOver`, ...), and
`OneFiber` turns it into a step of the specification.

The condition is a static one on the programs. `Ledgers(body)` are the ways a body can be shown to collect:
numbers, one for each position, each a bound on what may be outstanding there. An asynchronous request adds one, a
`wait_reply` takes one, a `gather` leaves none, and wherever a return is possible the number is 0.
`CollectsBeforeReturn` says that each body has a ledger: those that ask nothing asynchronously, those that
gather, and those that call `wait_reply` as often as they asked. It is needed: the run `abandoned` breaks it,
and the code then frees a fiber that `pending` still names. `CollectInv` carries it along: what a fiber has
outstanding is at most what every ledger of its body allows at its position, and a finished fiber has nothing.
The programs of `calls`, `progress`, `notify` and `programs` satisfy the condition, most with asynchronous
requests; `FiberInv` and `CollectInv` were checked on the first three with TLC before they were proved.

**Requests.** `AnswersRequests` says of `pending`, the wait flags and the reply queues together what `RequestReply`
says without them: a request comes back once, with the answer to its own number or word that time ran out;
an asynchronous answer is handed over once, to the fiber that asked; no fiber is reaped that is owed one.
The refinement mapping takes what a fiber is owed from its pending entries and its queue, so a reply that
moves from one to the other, is deferred, or is dropped as late, is a stutter. Counting is not enough for
that: `AsyncAccounting` says how many answers a
fiber is owed, not which. `RepliesInv` adds which: a queued answer answers a request that no other queued
answer and no pending entry stands for, with a number already given. Every step of `Coseq` is then one step of
`RequestReply` or a stutter. `calls` has no teardown, so the step that discards all sequences, with the fibers
that `FreeModules` frees, is covered by the proof alone.

**Who answers.** `AnswersComeFromCallee` relates an answer to the program: its source is a module that the
sequence asked, by the blocking call it is in or by an asynchronous one before it, and its result is one that
the sequence asked for replies with. A reply carries only a number, taken by the callee from the START it
works on, so the proof follows the number. `CalleeInv` says that whatever serves a number of `m` with a result
(`Serves`: a START in an inbox, batch or deferred list, a fiber with that address for replies, a REPLY on its
way back) is at, or comes from, a module that the fiber with the pending entry asked, for a sequence with that
result, if there is still such an entry, and that the number has been given; and that a result in a fiber's
queue is one it asked for (`QueueAsked`). What keeps it inductive is that `coseq_send` takes a number of its
own too; without that (the property's mutant) a reply to a send is taken for the answer to a request.
`CalleeInv` was checked on the programs of `calls` and `progress` first. A queued answer is handed out with
source 0, which is the run `reply_source`; of it the property says only that some module was asked for such
a result.

**Lock.** `LockInv` adds to `FiberInv` that a fiber between its lock and its unlock is the one its module
records as the holder (`HolderOk`), that what else runs on a locked module is a handler, and that a free
record holds nothing. `coseq_lock` would break it from inside a handler; `HandlersDoNotLock` excludes that,
and the run `handler_lock` shows what happens without it.

**Order of arrival.** What the run `arrival_order` finds violated is true of programs that go about it in one
way: `FansOutLocked` says that in a module that is locked by any of its sequences, one that asks asynchronously
takes the lock before its first request and keeps it until the last reply is collected. `HeldPlaces(body)` are
the positions that a body reaches only with the lock, and the ledger must be zero everywhere else. `OrderInv`
says what follows: a fiber that is owed answers holds the lock (`FanHolds`), and a REPLY is deferred only for a
fiber that does not, asleep in the request which that reply answers (`DeferredOk`), so that no later answer of
the same fiber can overtake it. If that request times out first, the fiber may go on to lock and ask again;
nobody waits for the deferred reply any more, and `CalleeInv` says that no reply on its way carries a number not
yet given, so that it cannot turn into the answer to a later request. This is why `CoseqLockProofs` builds on
`CoseqRequestProofs`. `OrderInv` was checked with TLC, as far as 4.3 million states, on the program of
`arrival_order` with its fan-out between a lock and an unlock, before it was proved. In a module that nobody
locks the condition asks nothing. The programs of `calls` meet it, by the lock in one module and without one in
the other. Those of `progress` and `arrival_order`, and module A of the test program, do not: they lock in one
sequence and fan out in another, and of those programs nothing is claimed about the order.

**Mailbox.** `MailboxInv` says of a waiting external thread that the mailbox's `wait_rid` is its own and a
reply in it answers it. With two threads that is false: run `two_clients`.

**Notifications.** `RegInv` adds to `SentinelNeverGiven` where `coseq_reg_notify` is between its two reads
of `next_client_id`: only the fiber its module is in can be there, and after the test, and the reset it may
ask for, the counter is not the
sentinel. The test is worth that much only while nobody else moves the counter, which is `OnePublisher`: one
module at most takes registrations. With two, the run `id_race` shows what the reads do to each other.

`UniqueClientIds` follows from the same invariant and `IdsInv`: every id on a list is below the counter, which
the next listener gets. That ends when the 8-bit counter comes round, after 255 registrations, and the code then
gives ids that are still in use; `[][CountsUp]_vars`, that the counter only goes up, says that it has not. One
publisher is what the proof needs between the two reads: the value that a listener gets is the one the counter
has when it is moved on.

`NotifyStopsAfterUnregister` looks at everything that is on its way to a module `m`, in the order in which
`m` will handle it (`Stream(m)`: the rest of the batch, then the inbox; a NOTIFY is never deferred).
`NotifyInv` says that each
NOTIFY in it is covered: its publisher still has the listener, or has a fiber that will still reply to `m`
(`WillReply`), or the publisher's REPLY is behind it. An unregistration moves the cover from the first to the
second, the reply from the second to the third, and a queue never lets a NOTIFY pass a REPLY. That
`WillReply` is not an empty promise takes two conditions: `UnregThenReplies`, a body that takes a listener off
the list comes to a reply before it returns, and `OwnUnregister`, an action formula: what it takes off is the
module it serves. The ids are handed round by the programs, so the second cannot be read off their bodies;
the program of `notify` satisfies both, and TLC checked `RegInv`, `NotifyInv` and `[][OwnUnregister]_vars`
on it before they were proved. The property says nothing after teardown began, because `post` then drops
events: the reply may be one of them. A first proof without `nr_module > 0` failed for that reason, and the
guard was added to the property.

**Queues.** `UsesEventQueues` is a step-by-step simulation. All it needs beside the types is `InPass`: a thread
that is inside a sequence is in a pass of its loop, which is where `EventQueue` lets a lock change hands.

**Programs.** `ProgramsRunOnCoseq` says that main, the clock and the modules' threads of `TestProgram` do to the
instance only what `Coseq!Next` allows. Its invariant `MainInv` is small: what main has left consists of
statements of its program, so that its requests are among `ExtCalls`, and the client id that it was handed is
one, so that the `unreg_notify` that passes it on is a call of `CoseqNotify`. The theorems about `Spec` then hold
of the programs whose conditions TLC has evaluated. `NotifyEndsWithReply` is not carried over: main itself asks C to
take A's listener off, which is not `OwnUnregister`, and gets the reply in A's place; that the notifications end is
there one of the `ChecksHold`.

**Inbox.** `InboxInv` has three parts. `Storage` relates pointers to history: each list holds its sequence, no
event is in two places, an event that is free or in a hand has a null `next`, and the batch is empty outside
a pass; the lemmas under it are about lists as values (`ListFrame`: a list does not depend on the pointers of
events it does not hold). `SleepInv` says that a deadline counts as many nanoseconds as the timer was set
for, that the ripe timers are those of the current pass, and that the scheduler does not wait on a full inbox;
it rests on the theorems about the time helpers. `ThreadTypes` is the rest of the types. The refinement then
follows action by action.

**Lifecycle.** `LifeInv` says what each loop of a call has done so far and has left (`LoopOk`), that a thread
which was started has all it uses, its target included (`ThreadsOk`), which slots still have their objects
(`ObjectsOk`), and which calls are in which loops (`CallOk`).

Only model-checked: liveness (`SyncRequestsReturn`, `DeferredAreHandled`, `TimedRequestsReturn`, `TeardownEnds`,
`PostedIsTaken`, `ExpiredFires`, `StopIsSeen`, `CallsReturn`, `MainReturns`), which is out of the prover's reach,
and the properties of `TestProgram` (`ChecksHold`, `ResultsHold`, `AssertsHold`): they are about the order in which
the timers of two particular programs expire, and a proof would be a list of all states those pass through.

## Not modelled

- Payload bytes and buffers: `set_src`'s truncation, reply buffers, `source`'s view of them in the C++ wrapper
  and what the test says of message contents and lengths (`g_notify_last_len`).
- What a sequence is told of itself (`get_sequence_name`, `get_sequence_idx`): it is the `fn` of its fiber, and an
  assertion about it would hold by the shape of the model.
- Failures of malloc other than for fibers: the code logs them, drops the event, entry or reply and promises
  nothing. `swapcontext`, `getcontext` and clock failures; a clock that is set back.
- Wrapping of `next_req_id` and `ext_id` after 2^32 requests.
- `nr_que_max`, which the code stores and never reads.
- Setup of an instance that is already set up, and two threads in teardown or destroy at once: the code does
  not guard against them and leaves them to the owner. An external thread that posts while the mutexes are
  destroyed, for the same reason (in `Coseq` it may post, or be dropped, after teardown began).
- The narrowing of table sizes to 8 bits in `manager::setup`; logging; the build.

## Plan

1. Wrapping request ids with a small modulus, as a property of how long a request may stay pending.
2. Two owners, and external threads that race teardown, in `Lifecycle`.
3. Message buffers: what `source` points to and for how long, in C and in the wrapper.
