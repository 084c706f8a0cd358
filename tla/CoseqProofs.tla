---------------------------- MODULE CoseqProofs ----------------------------
(***************************************************************************)
(* Proofs about the specification of module Coseq, for every value of the  *)
(* constants.                                                              *)
(***************************************************************************)
EXTENDS Coseq, CoseqPrograms, SequenceTheorems, TLAPS

-----------------------------------------------------------------------------
(* Values have their types *)

\* co_source_t records: an id of a client is cut to eight bits in them.
LEMMA SrcType ==
  ASSUME NEW result \in Argument, NEW from \in Int, NEW cid \in ClientId, NEW rid \in Int
  PROVE  Src(result, from, cid, rid) \in Source
  BY DEF Src, Source, Uint8

\* 0, the id of no client, is one of the ids.
LEMMA ZeroClient == 0 \in ClientId /\ ClientId \subseteq Nat
  BY ClientIdAssumption DEF ClientId

\* Module indices and EXTERNAL are integers, and module 0 exists.
LEMMA ModuleIndex ==
  /\ 0 \in Modules /\ \A m \in Modules : m \in Nat /\ m \in Int
  /\ \A m \in Modules \cup {EXTERNAL} : m \in Int
<1>1. \A m \in Modules : m \in Nat /\ m \in Int
  BY ModulesAssumption DEF Modules, MAX_MODULE
<1>2. EXTERNAL \in Int
  BY DEF EXTERNAL
<1>3. 0 \in Modules
  BY ModulesAssumption DEF Modules, MAX_MODULE
<1> QED BY <1>1, <1>2, <1>3

\* The events the queues carry are well formed whoever posts them.
LEMMA EvType ==
  ASSUME NEW from \in Modules \cup {EXTERNAL}, NEW rid \in Int
  PROVE  /\ \A seq \in Name : StartEv(seq, rid, from) \in Event
         /\ \A result \in Argument : ReplyEv(rid, from, result) \in Event
         /\ \A cid \in ClientId : NotifyEv(from, cid) \in Event
<1>1. ASSUME NEW seq \in Name PROVE StartEv(seq, rid, from) \in Event
  BY ZeroClient DEF StartEv, Ev, Event, Argument, Result
<1>2. ASSUME NEW result \in Argument PROVE ReplyEv(rid, from, result) \in Event
  BY ZeroClient DEF ReplyEv, Ev, Event, Name
<1>3. ASSUME NEW cid \in ClientId PROVE NotifyEv(from, cid) \in Event
  BY ZeroClient DEF NotifyEv, Ev, Event, Name, Argument, Result
<1> QED BY <1>1, <1>2, <1>3

\* A fiber as fiber_create leaves it is well formed and belongs to its module.
LEMMA FreshType ==
  ASSUME NEW mod \in Modules, NEW fn \in Name, NEW to \in Modules \cup {EXTERNAL},
         NEW rid \in Int, NEW src \in Source
  PROVE  /\ FreshFiber(mod, fn, to, rid, src) \in Fiber
         /\ FreshFiber(mod, fn, to, rid, src).mod = mod
         /\ FreshFiber(mod, fn, to, rid, src).fn = fn
<1>1. <<>> \in Seq([req_id : Int, result : Argument])
  BY EmptySeq
<1>2. {} \in SUBSET {"reply", "timer", "any"}
  OBVIOUS
<1>3. FreshFiber(mod, fn, to, rid, src) \in Fiber
  BY <1>1, <1>2 DEF FreshFiber, Fiber, NotReg, Argument
<1> QED BY <1>3 DEF FreshFiber

\* The state after co_init is well formed.
LEMMA InitType == Init => TypeOK
<1> SUFFICES ASSUME Init PROVE TypeOK
  OBVIOUS
<1>a. "IGNORE" \in Argument /\ "" \in Name
  BY DEF Argument, Result, Name
<1>b. 0 \in Int /\ 0 \in ClientId /\ 0 \in Modules /\ EXTERNAL \in Modules \cup {EXTERNAL}
  BY ZeroClient, ModuleIndex
<1>0. NoSrc \in Source
  BY <1>a, <1>b, SrcType, Zenon DEF NoSrc
<1>1. BlankFiber \in Fiber
  BY <1>0, <1>a, <1>b, FreshType, Zenon DEF BlankFiber
<1>2. <<>> \in Seq(Event) /\ <<>> \in Seq(Fibers) /\ <<>> \in Seq(ListenerEntry)
  BY EmptySeq
<1>3. /\ ext \in [wait_rid : Int, ready : BOOLEAN, result : Argument, msg : Int]
      /\ client \in [Clients -> [rid : Int, waiting : BOOLEAN, got : Int]]
  BY DEF Init, NoRid, Argument, Result
<1>4. next_req_id \in [Modules -> Nat] /\ ext_id \in Nat /\ next_client_id \in ClientId
  BY ZeroClient DEF Init
<1> QED
  BY <1>1, <1>2, <1>3, <1>4 DEF Init, TypeOK

-----------------------------------------------------------------------------
(* Steps keep the types *)

\* The fibers the thread of m can come to run, and the body each of them has:
\* every one was launched, so its body is a registered one.
Refers(m) == Live(m) \cup due[m] \cup {p.f : p \in pending[m]} \cup ({current[m]} \ {NoFiber})
Known(f) == fib[f].fn \in DOMAIN Script[fib[f].mod]
KnownFibers == \A m \in Modules : \A f \in Refers(m) : Known(f)

TypeInv == TypeOK /\ KnownFibers

SameBodies == \A f \in Fibers : fib'[f].mod = fib[f].mod /\ fib'[f].fn = fib[f].fn
NoNewReference == \A m \in Modules : Refers(m)' \subseteq Refers(m)

\* What the thread of a module refers to are fibers.
LEMMA RefersType ==
  ASSUME TypeOK, NEW m \in Modules
  PROVE  Refers(m) \subseteq Fibers
  BY DEF TypeOK, Refers, Live, ToSet, PendingEntry

\* A step that changes no body and adds no reference keeps KnownFibers.
LEMMA KnownKept ==
  ASSUME TypeInv, SameBodies, NoNewReference
  PROVE  KnownFibers'
<1> SUFFICES ASSUME NEW m \in Modules, NEW f \in Refers(m)' PROVE Known(f)'
  BY DEF KnownFibers
<1>1. f \in Refers(m) /\ f \in Fibers
  BY RefersType DEF NoNewReference, TypeInv
<1> QED
  BY <1>1 DEF TypeInv, KnownFibers, Known, SameBodies

\* The call a running fiber is about to make comes from a registered body.
LEMMA CallType ==
  ASSUME TypeInv, NEW m \in Modules, current[m] # NoFiber
  PROVE  /\ current[m] \in Fibers
         /\ \A c \in NextCalls(m) : c \in Call
<1> DEFINE r == fib[current[m]]
<1>1. current[m] \in Fibers
  BY DEF TypeInv, TypeOK
<1>2. r \in Fiber /\ r.mod \in Modules /\ r.fn \in DOMAIN Script[r.mod]
  BY <1>1 DEF TypeInv, TypeOK, KnownFibers, Refers, Known, Fiber
<1>3. Script[r.mod][r.fn] \in Seq(SUBSET Call)
  BY <1>2, ScriptAssumption
<1>4. ReturnCall \in Call
  BY DEF ReturnCall, Call, Ops, Name, Argument
<1>5. ASSUME r.pc \in DOMAIN Script[r.mod][r.fn]
      PROVE  Script[r.mod][r.fn][r.pc] \subseteq Call
  <2> DEFINE body == Script[r.mod][r.fn]
  <2> HIDE DEF body
  <2>1. body \in Seq(SUBSET Call) /\ r.pc \in DOMAIN body
    BY <1>3, <1>5 DEF body
  <2>2. body[r.pc] \in SUBSET Call
    BY <2>1, LenProperties, ElementOfSeq
  <2> QED BY <2>2 DEF body
<1> QED
  BY <1>1, <1>4, <1>5 DEF NextCalls

\* Posting an event keeps the inbox a queue of events.
LEMMA PostType ==
  ASSUME TypeOK, NEW t \in Int, NEW e \in Event, Post(t, e)
  PROVE  inbox' \in [Modules -> Seq(Event)]
<1>1. CASE t \in Modules /\ inbox' = [inbox EXCEPT ![t] = Append(@, e)]
  <2>1. Append(inbox[t], e) \in Seq(Event)
    BY <1>1, AppendProperties DEF TypeOK
  <2> QED BY <1>1, <2>1 DEF TypeOK
<1> QED BY <1>1 DEF Post, TypeOK

\* Switching to a parked fiber changes that fiber's record and no other.
LEMMA ResumeType ==
  ASSUME TypeOK, NEW m \in Modules, NEW f \in Fibers, NEW r \in Fiber, Resume(m, f, r)
  PROVE  /\ fib' \in [Fibers -> Fiber]
         /\ current' \in [Modules -> Fibers \cup {NoFiber}]
         /\ expired' \subseteq Fibers
         /\ fib'[f].mod = r.mod /\ fib'[f].fn = r.fn
         /\ \A g \in Fibers \ {f} : fib'[g] = fib[g]
<1>1. [r EXCEPT !.waits = {}] \in Fiber
  BY DEF Fiber
<1>2. [r EXCEPT !.waits = {}].mod = r.mod /\ [r EXCEPT !.waits = {}].fn = r.fn
  BY DEF Fiber
<1> QED BY <1>1, <1>2 DEF TypeOK, Resume

\* What list_remove leaves of a list: one entry fewer, the others in their
\* order, and nothing that was not there.
LEMMA RemoveAtType ==
  ASSUME NEW S, NEW s \in Seq(S), NEW i \in DOMAIN s
  PROVE  /\ RemoveAt(s, i) \in Seq(S)
         /\ Len(RemoveAt(s, i)) = Len(s) - 1
         /\ \A j \in 1..(Len(s) - 1) : RemoveAt(s, i)[j] = IF j < i THEN s[j] ELSE s[j + 1]
         /\ ToSet(RemoveAt(s, i)) \subseteq ToSet(s)
<1>1. i \in 1..Len(s) /\ Len(s) \in Nat /\ \A j \in 1..Len(s) : s[j] \in S
  BY LenProperties, ElementOfSeq
<1> DEFINE a == SubSeq(s, 1, i - 1)
           b == SubSeq(s, i + 1, Len(s))
<1>2. /\ a \in Seq(S) /\ Len(a) = i - 1
      /\ \A j \in 1..(i - 1) : a[j] = s[j]
  <2>1. \A j \in 1..(i - 1) : s[j] \in S
    BY <1>1
  <2>2. 1 \in Int /\ i - 1 \in Int
    BY <1>1
  <2> QED BY <1>1, <2>1, <2>2, SubSeqProperties
<1>3. /\ b \in Seq(S) /\ Len(b) = Len(s) - i
      /\ \A j \in 1..(Len(s) - i) : b[j] = s[i + j]
  <2>1. \A j \in (i + 1)..Len(s) : s[j] \in S
    BY <1>1
  <2>2. i + 1 \in Int /\ Len(s) \in Int
    BY <1>1
  <2> QED BY <1>1, <2>1, <2>2, SubSeqProperties
<1> HIDE DEF a, b
<1>4. /\ a \o b \in Seq(S) /\ Len(a \o b) = Len(s) - 1
      /\ \A j \in 1..(Len(s) - 1) : (a \o b)[j] = IF j < i THEN s[j] ELSE s[j + 1]
  <2>1. /\ a \o b \in Seq(S) /\ Len(a \o b) = Len(a) + Len(b)
        /\ \A j \in 1..(Len(a) + Len(b)) :
             (a \o b)[j] = IF j <= Len(a) THEN a[j] ELSE b[j - Len(a)]
    BY <1>2, <1>3, ConcatProperties
  <2> DEFINE n == Len(s)
  <2>2. n \in Nat /\ i \in 1..n /\ Len(a) = i - 1 /\ Len(b) = n - i
    BY <1>1, <1>2, <1>3
  <2> HIDE DEF n
  <2>3. Len(a) + Len(b) = n - 1
    BY <2>2
  <2>4. ASSUME NEW j \in 1..(n - 1)
        PROVE  (a \o b)[j] = IF j < i THEN s[j] ELSE s[j + 1]
    <3>1. CASE j < i
      <4>0. j \in Int /\ 1 <= j /\ i \in Int /\ j <= n - 1
        BY <2>2
      <4>a. j <= i - 1
        BY <3>1, <4>0
      <4>b. j \in 1..(i - 1)
        BY <4>0, <4>a
      <4>c. j <= Len(a)
        BY <2>2, <4>a
      <4>d. j \in 1..(Len(a) + Len(b))
        BY <2>3
      <4>1. j \in 1..(i - 1) /\ j <= Len(a) /\ j \in 1..(Len(a) + Len(b))
        BY <4>b, <4>c, <4>d
      <4>2. (a \o b)[j] = a[j]
        BY <2>1, <4>1
      <4>3. a[j] = s[j]
        BY <1>2, <4>1
      <4> QED BY <3>1, <4>2, <4>3
    <3>2. CASE ~(j < i)
      <4> DEFINE k == j - (i - 1)
      <4>1. k \in 1..(n - i) /\ i + k = j + 1 /\ ~(j <= i - 1)
        BY <2>2, <3>2
      <4>2. j \in 1..(Len(a) + Len(b)) /\ ~(j <= Len(a)) /\ j - Len(a) = k
        BY <2>2, <2>3, <4>1
      <4>3. (a \o b)[j] = b[k] /\ b[k] = s[i + k]
        BY <1>3, <2>1, <4>1, <4>2 DEF n
      <4> QED BY <3>2, <4>1, <4>3
    <3> QED BY <3>1, <3>2
  <2> QED BY <2>1, <2>3, <2>4 DEF n
<1>5. RemoveAt(s, i) = a \o b
  BY DEF RemoveAt, a, b
<1>6. ToSet(a \o b) \subseteq ToSet(s)
  <2>1. DOMAIN (a \o b) = 1..(Len(s) - 1) /\ DOMAIN s = 1..Len(s)
    BY <1>1, <1>4, LenProperties
  <2>2. ASSUME NEW j \in 1..(Len(s) - 1) PROVE (a \o b)[j] \in ToSet(s)
    <3>1. j \in 1..Len(s) /\ j + 1 \in 1..Len(s)
      BY <1>1
    <3> QED BY <1>4, <2>1, <3>1 DEF ToSet
  <2> QED BY <2>1, <2>2 DEF ToSet
<1> QED BY <1>4, <1>5, <1>6

\* The steps of a pass that resume no fiber: sleeping, waking, deferring,
\* refusing, removing finished fibers.
LEMMA QuietSchedType ==
  ASSUME TypeInv, NEW m \in Modules,
         \/ Sleep(m) \/ StartPass(m) \/ SpuriousWake(m) \/ Stopped(m)
         \/ (\E f \in Fibers : TimerHeldBack(m, f))
         \/ Defer(m) \/ StartRefused(m) \/ NotifyRefused(m) \/ ReplyUnknown(m)
         \/ (\E i \in DOMAIN fibers[m] : Reap(m, i)) \/ EndPass(m)
  PROVE  TypeInv'
<1> SUFFICES TypeOK' /\ SameBodies /\ NoNewReference
  BY KnownKept DEF TypeInv
<1> USE DEF TypeInv, SameBodies, NoNewReference, Refers, Live,
            instVars, schedVars, lockVars, notifyVars, extVars
<1>0. /\ Refilled(m) \in Seq(Event) /\ StillDeferred(m) \in Seq(Event)
      /\ <<>> \in Seq(Event)
  BY EmptySeq, ConcatProperties DEF TypeOK, Refilled, StillDeferred
<1>1. CASE Sleep(m) \/ EndPass(m)
  BY <1>1 DEF Sleep, EndPass, TypeOK
<1>2. CASE StartPass(m) \/ SpuriousWake(m)
  <2>1. TakeInbox(m)
    BY <1>2 DEF StartPass, SpuriousWake
  <2>2. due' = [due EXCEPT ![m] = {f \in Live(m) : TimerExpired(m, f)}]
    BY <2>1 DEF TakeInbox
  <2>3. due'[m] \subseteq Live(m) /\ \A k \in Modules \ {m} : due'[k] = due[k]
    BY <2>2 DEF TypeOK
  <2>4. Live(m) \subseteq Fibers
    BY RefersType
  <2>5. TypeOK'
    BY <1>0, <2>1, <2>2, <2>4 DEF TakeInbox, TypeOK
  <2> QED BY <2>1, <2>3, <2>5 DEF TakeInbox
<1>3. CASE Stopped(m)
  BY <1>0, <1>3 DEF Stopped, TypeOK
<1>4. CASE \E f \in Fibers : TimerHeldBack(m, f)
  BY <1>4 DEF TimerHeldBack, TypeOK
<1>5. CASE Defer(m)
  <2>1. evs[m] # <<>> /\ evs[m] \in Seq(Event) /\ deferred[m] \in Seq(Event)
    BY <1>5 DEF Defer, Handles, TypeOK
  <2>2. Tail(evs[m]) \in Seq(Event) /\ Append(deferred[m], Head(evs[m])) \in Seq(Event)
    BY <2>1, HeadTailProperties, AppendProperties
  <2>3. evs' \in [Modules -> Seq(Event)] /\ deferred' \in [Modules -> Seq(Event)]
    BY <1>5, <2>2 DEF Defer, Handles, TypeOK
  <2>4. UNCHANGED <<instVars, inbox, loop, due, fibers, lockVars, notifyVars,
                    extVars, current, pending, next_req_id, fib, expired>>
    BY <1>5 DEF Defer
  <2> QED BY <2>3, <2>4 DEF TypeOK
<1>6. CASE StartRefused(m) \/ NotifyRefused(m) \/ ReplyUnknown(m)
  <2>1. Dropped /\ evs[m] # <<>> /\ evs' = [evs EXCEPT ![m] = Tail(@)]
    BY <1>6 DEF StartRefused, NotifyRefused, ReplyUnknown, Handles
  <2>2. Tail(evs[m]) \in Seq(Event)
    BY <2>1, HeadTailProperties DEF TypeOK
  <2> QED BY <2>1, <2>2 DEF Dropped, TypeOK
<1>7. CASE \E i \in DOMAIN fibers[m] : Reap(m, i)
  <2>1. PICK i \in DOMAIN fibers[m] : Reap(m, i)
    BY <1>7
  <2>2. /\ fibers \in [Modules -> Seq(Fibers)]
        /\ locked_by \in [Modules -> Fibers \cup {NoFiber}]
    BY DEF TypeOK
  <2>3. /\ RemoveAt(fibers[m], i) \in Seq(Fibers)
        /\ ToSet(RemoveAt(fibers[m], i)) \subseteq ToSet(fibers[m])
    BY <2>2, RemoveAtType
  <2>4. fibers' = [fibers EXCEPT ![m] = RemoveAt(fibers[m], i)]
    BY <2>1, <2>2 DEF Reap
  <2>5. /\ fibers' \in [Modules -> Seq(Fibers)]
        /\ \A k \in Modules : ToSet(fibers'[k]) \subseteq ToSet(fibers[k])
    BY <2>2, <2>3, <2>4
  <2>6. locked_by' \in [Modules -> Fibers \cup {NoFiber}]
    BY <2>1, <2>2 DEF Reap, LockAfterReap
  <2>7. UNCHANGED <<instVars, inbox, loop, evs, due, deferred, holding, notifyVars,
                    extVars, current, pending, next_req_id, fib, expired>>
    BY <2>1 DEF Reap
  <2>8. TypeOK'
    BY <2>5, <2>6, <2>7 DEF TypeOK
  <2> QED BY <2>5, <2>7, <2>8
<1> QED BY <1>1, <1>2, <1>3, <1>4, <1>5, <1>6, <1>7

\* The event a pass takes is well formed, and so are those it leaves.
LEMMA HeadEvent ==
  ASSUME TypeOK, NEW m \in Modules, evs[m] # <<>>
  PROVE  /\ Head(evs[m]) \in Event
         /\ [evs EXCEPT ![m] = Tail(@)] \in [Modules -> Seq(Event)]
<1>1. evs[m] \in Seq(Event)
  BY DEF TypeOK
<1>2. Head(evs[m]) \in Event /\ Tail(evs[m]) \in Seq(Event)
  BY <1>1, HeadTailProperties
<1> QED BY <1>2 DEF TypeOK

\* What list_push at the front does to a list.
LEMMA ConsSeq ==
  ASSUME NEW S, NEW x \in S, NEW s \in Seq(S)
  PROVE  /\ <<x>> \o s \in Seq(S)
         /\ Len(<<x>> \o s) = Len(s) + 1
         /\ (<<x>> \o s)[1] = x
         /\ \A i \in 1..Len(s) : (<<x>> \o s)[i + 1] = s[i]
         /\ ToSet(<<x>> \o s) = {x} \cup ToSet(s)
<1>1. <<x>> \in Seq(S) /\ Len(<<x>>) = 1 /\ <<x>>[1] = x /\ Len(s) \in Nat
  BY LenProperties
<1> DEFINE t == <<x>> \o s
<1>2. /\ t \in Seq(S) /\ Len(t) = Len(s) + 1
      /\ \A i \in 1..(Len(s) + 1) : t[i] = IF i <= 1 THEN <<x>>[i] ELSE s[i - 1]
  BY <1>1, ConcatProperties
<1> HIDE DEF t
<1>3. t[1] = x /\ \A i \in 1..Len(s) : t[i + 1] = s[i]
  BY <1>1, <1>2
<1>4. DOMAIN t = 1..(Len(s) + 1) /\ DOMAIN s = 1..Len(s)
  BY <1>2, LenProperties
<1>5. ToSet(t) \subseteq {x} \cup ToSet(s)
  <2> SUFFICES ASSUME NEW i \in 1..(Len(s) + 1) PROVE t[i] \in {x} \cup ToSet(s)
    BY <1>4 DEF ToSet
  <2>1. CASE i = 1
    BY <1>3, <2>1
  <2>2. CASE i # 1
    <3>1. i - 1 \in 1..Len(s) /\ t[i] = s[i - 1]
      BY <1>1, <1>2, <2>2
    <3> QED BY <1>4, <3>1 DEF ToSet
  <2> QED BY <2>1, <2>2
<1>6. {x} \cup ToSet(s) \subseteq ToSet(t)
  <2>1. x \in ToSet(t)
    BY <1>1, <1>3, <1>4 DEF ToSet
  <2>2. ASSUME NEW i \in 1..Len(s) PROVE s[i] \in ToSet(t)
    <3>1. i + 1 \in 1..(Len(s) + 1) /\ t[i + 1] = s[i]
      BY <1>1, <1>3
    <3> QED BY <1>4, <3>1 DEF ToSet
  <2> QED BY <1>4, <2>1, <2>2 DEF ToSet
<1> QED BY <1>2, <1>3, <1>5, <1>6 DEF t

\* A new fiber enters the list of its module and becomes the current one.
LEMMA LaunchType ==
  ASSUME TypeInv, NEW m \in Modules, NEW f \in Unused, NEW r \in Fiber, Launch(m, f, r),
         r.mod = m, r.fn \in DOMAIN Script[m],
         UNCHANGED <<due, pending>>
  PROVE  /\ fib' \in [Fibers -> Fiber]
         /\ fibers' \in [Modules -> Seq(Fibers)]
         /\ current' \in [Modules -> Fibers \cup {NoFiber}]
         /\ expired' \subseteq Fibers
         /\ KnownFibers'
<1>1. f \in Fibers /\ fibers[m] \in Seq(Fibers) /\ Resume(m, f, r)
  BY DEF Unused, TypeInv, TypeOK, Launch
<1>2. /\ fib' \in [Fibers -> Fiber]
      /\ current' \in [Modules -> Fibers \cup {NoFiber}]
      /\ expired' \subseteq Fibers
      /\ fib'[f].mod = m /\ fib'[f].fn \in DOMAIN Script[m]
      /\ \A g \in Fibers \ {f} : fib'[g] = fib[g]
  BY <1>1, ResumeType DEF TypeInv
<1>3. <<f>> \o fibers[m] \in Seq(Fibers) /\ ToSet(<<f>> \o fibers[m]) = {f} \cup Live(m)
  BY <1>1, ConsSeq DEF Live
<1>4. fibers' = [fibers EXCEPT ![m] = <<f>> \o @]
  BY DEF Launch
<1>5. fibers' \in [Modules -> Seq(Fibers)]
  BY <1>3, <1>4 DEF TypeInv, TypeOK
<1>6. \A k \in Modules : Live(k)' \subseteq Live(k) \cup {f}
  BY <1>3, <1>4 DEF TypeInv, TypeOK, Live
<1>7. \A k \in Modules : current'[k] \in {current[k], f}
  BY DEF Launch, Resume, TypeInv, TypeOK
<1>8. \A k \in Modules : Refers(k)' \subseteq Refers(k) \cup {f}
  BY <1>6, <1>7 DEF Refers
<1>9. KnownFibers'
  <2> SUFFICES ASSUME NEW k \in Modules, NEW g \in Refers(k)' PROVE Known(g)'
    BY DEF KnownFibers
  <2>1. CASE g = f
    BY <1>2, <2>1 DEF Known
  <2>2. CASE g # f
    <3>1. g \in Refers(k) /\ g \in Fibers
      BY <1>8, <2>2, RefersType DEF TypeInv
    <3> QED BY <1>2, <2>2, <3>1 DEF Known, TypeInv, KnownFibers
  <2> QED BY <2>1, <2>2
<1> QED BY <1>2, <1>5, <1>9

\* Starting a sequence or a notification handler for an event.
LEMMA StartType ==
  ASSUME TypeInv, NEW m \in Modules, NEW f \in Fibers,
         StartSequence(m, f) \/ StartHandler(m, f)
  PROVE  TypeInv'
<1> DEFINE e == Head(evs[m])
<1>1. e \in Event /\ [evs EXCEPT ![m] = Tail(@)] \in [Modules -> Seq(Event)]
  BY HeadEvent DEF TypeInv, StartSequence, StartHandler, Handles
<1> HIDE DEF e
<1>2. /\ e.requester \in Int /\ e.requester \in Modules \cup {EXTERNAL}
      /\ e.req_id \in Int /\ e.client_id \in ClientId /\ 0 \in ClientId
  <2>1. e.requester \in Modules \cup {EXTERNAL} /\ e.req_id \in Int /\ e.client_id \in ClientId
    BY <1>1 DEF Event
  <2>2. e.requester \in Int
    BY <2>1, ModuleIndex
  <2> QED BY <2>1, <2>2, ZeroClient
<1>3. CASE StartSequence(m, f)
  <2> DEFINE r == FreshFiber(m, e.seq, e.requester, e.req_id,
                             Src("IGNORE", e.requester, 0, e.req_id))
  <2>1. e.seq \in DOMAIN Script[m] /\ e.seq \in Name /\ "IGNORE" \in Argument
    BY <1>3, ScriptAssumption DEF StartSequence, Seqs, Name, Argument, Result, e
  <2>2. Src("IGNORE", e.requester, 0, e.req_id) \in Source
    BY <1>2, <2>1, SrcType, Zenon
  <2>3. r \in Fiber /\ r.mod = m /\ r.fn = e.seq
    <3> DEFINE src == Src("IGNORE", e.requester, 0, e.req_id)
    <3>1. src \in Source
      BY <2>2
    <3> HIDE DEF src
    <3>2. FreshFiber(m, e.seq, e.requester, e.req_id, src) \in Fiber
      BY <1>2, <2>1, <3>1, FreshType
    <3> QED BY <3>2 DEF src, FreshFiber
  <2> HIDE DEF r
  <2>4. f \in Unused /\ Launch(m, f, r) /\ UNCHANGED <<due, pending>>
    BY <1>3 DEF StartSequence, r, e
  <2>5. /\ fib' \in [Fibers -> Fiber] /\ fibers' \in [Modules -> Seq(Fibers)]
        /\ current' \in [Modules -> Fibers \cup {NoFiber}]
        /\ expired' \subseteq Fibers /\ KnownFibers'
    BY <2>1, <2>3, <2>4, LaunchType
  <2> QED
    BY <1>1, <1>3, <2>5
    DEF StartSequence, Handles, TypeInv, TypeOK, instVars, lockVars, notifyVars, extVars
<1>4. CASE StartHandler(m, f)
  <2> DEFINE r == FreshFiber(m, "recv_notify", EXTERNAL, 0,
                             Src("SUCCESS", e.requester, e.client_id, 0))
  <2>1. /\ "recv_notify" \in DOMAIN Script[m] /\ "recv_notify" \in Name
        /\ "SUCCESS" \in Argument /\ 0 \in Int /\ EXTERNAL \in Modules \cup {EXTERNAL}
    BY <1>4, ScriptAssumption DEF StartHandler, HasHandler, Name, Argument, Result
  <2>2. Src("SUCCESS", e.requester, e.client_id, 0) \in Source
    BY <1>2, <2>1, SrcType, Zenon
  <2>3. r \in Fiber /\ r.mod = m /\ r.fn = "recv_notify"
    <3> DEFINE src == Src("SUCCESS", e.requester, e.client_id, 0)
    <3>1. src \in Source
      BY <2>2
    <3> HIDE DEF src
    <3>2. FreshFiber(m, "recv_notify", EXTERNAL, 0, src) \in Fiber
      BY <2>1, <3>1, FreshType
    <3> QED BY <3>2 DEF src, FreshFiber
  <2> HIDE DEF r
  <2>4. f \in Unused /\ Launch(m, f, r) /\ UNCHANGED <<due, pending>>
    BY <1>4 DEF StartHandler, r, e
  <2>5. /\ fib' \in [Fibers -> Fiber] /\ fibers' \in [Modules -> Seq(Fibers)]
        /\ current' \in [Modules -> Fibers \cup {NoFiber}]
        /\ expired' \subseteq Fibers /\ KnownFibers'
    BY <2>1, <2>3, <2>4, LaunchType
  <2> QED
    BY <1>1, <1>4, <2>5
    DEF StartHandler, Handles, TypeInv, TypeOK, instVars, lockVars, notifyVars, extVars
<1> QED BY <1>3, <1>4

\* A fiber record that changed and kept its body.
LEMMA SameBodyStep ==
  ASSUME TypeOK, NEW f \in Fibers, NEW r \in Fiber,
         r.mod = fib[f].mod, r.fn = fib[f].fn, fib' = [fib EXCEPT ![f] = r]
  PROVE  fib' \in [Fibers -> Fiber] /\ SameBodies
  BY DEF TypeOK, SameBodies

\* The fields of a fiber.
LEMMA FiberType ==
  ASSUME TypeOK, NEW f \in Fibers
  PROVE  /\ fib[f] \in Fiber /\ fib[f].src \in Source
         /\ fib[f].waits \subseteq {"reply", "timer", "any"}
         /\ fib[f].pc \in Nat /\ fib[f].wait_req_id \in Int /\ fib[f].reply_req_id \in Int
         /\ fib[f].async_outstanding \in Int
         /\ fib[f].rq \in Seq([req_id : Int, result : Argument])
         /\ fib[f].reply_to \in Modules \cup {EXTERNAL} /\ fib[f].fan \in Nat
         /\ fib[f].reg \in {NotReg, Tested, Wraps} \cup ClientId /\ fib[f].cat \in Argument
<1>1. fib[f] \in Fiber
  BY DEF TypeOK
<1> QED BY <1>1 DEF Fiber

\* Resuming a fiber whose timer expired.
LEMMA TimerFiresType ==
  ASSUME TypeInv, NEW m \in Modules, NEW f \in Fibers, TimerFires(m, f)
  PROVE  TypeInv'
<1> DEFINE r == AfterTimer(f)
<1>1. /\ fib[f] \in Fiber /\ fib[f].wait_req_id \in Int
  BY FiberType DEF TypeInv
<1>2. Src("REQ_TIMEOUT", 0, 0, fib[f].wait_req_id) \in Source
  <2>1. "REQ_TIMEOUT" \in Argument /\ 0 \in Int /\ 0 \in ClientId
    BY ZeroClient DEF Argument, Result
  <2> QED BY <1>1, <2>1, SrcType, Zenon
<1>3. r \in Fiber /\ r.mod = fib[f].mod /\ r.fn = fib[f].fn
  BY <1>1, <1>2 DEF AfterTimer, Fiber
<1> HIDE DEF r
<1>4. Resume(m, f, r)
  BY DEF TimerFires, r
<1>5. /\ fib' \in [Fibers -> Fiber]
      /\ current' \in [Modules -> Fibers \cup {NoFiber}]
      /\ expired' \subseteq Fibers
      /\ SameBodies
  BY <1>3, <1>4, ResumeType DEF TypeInv, SameBodies
<1>6. /\ pending' \in [Modules -> SUBSET PendingEntry]
      /\ \A k \in Modules : pending'[k] \subseteq pending[k]
  BY DEF TimerFires, PendingAfterTimer, PendingTake, TypeInv, TypeOK
<1>7. f \in due[m] /\ due' \in [Modules -> SUBSET Fibers]
      /\ \A k \in Modules : due'[k] \subseteq due[k]
  BY DEF TimerFires, TypeInv, TypeOK
<1>8. \A k \in Modules : current'[k] \in {current[k]} \cup due[k]
  BY <1>4, <1>7 DEF Resume, TypeInv, TypeOK
<1>9. NoNewReference
  BY <1>6, <1>7, <1>8 DEF TimerFires, NoNewReference, Refers, Live
<1> QED
  BY <1>5, <1>6, <1>7, <1>9, KnownKept
  DEF TimerFires, TypeInv, TypeOK, instVars, lockVars, notifyVars, extVars

\* A reply that resumes its fiber, or is queued on it.
LEMMA ReplyType ==
  ASSUME TypeInv, NEW m \in Modules, NEW f \in Fibers,
         ReplyEndsRequest(m, f) \/ ReplyEndsWait(m, f) \/ ReplyQueued(m, f)
  PROVE  TypeInv'
<1> DEFINE e == Head(evs[m])
<1>0. Replied(m, f, e)
  BY DEF ReplyEndsRequest, ReplyEndsWait, ReplyQueued
<1>1. e \in Event /\ [evs EXCEPT ![m] = Tail(@)] \in [Modules -> Seq(Event)]
  BY <1>0, HeadEvent DEF TypeInv, Replied, Handles
<1>2. evs' \in [Modules -> Seq(Event)]
  BY <1>0, <1>1 DEF Replied, Handles
<1> HIDE DEF e
<1>3. e.requester \in Int /\ e.result \in Argument /\ e.req_id \in Int /\ 0 \in ClientId
  <2>1. e.requester \in Modules \cup {EXTERNAL} /\ e.req_id \in Int /\ e.result \in Argument
    BY <1>1 DEF Event
  <2> QED BY <2>1, ModuleIndex, ZeroClient
<1>4. ReplySrc(e) \in Source
  BY <1>3, SrcType DEF ReplySrc
<1>5. /\ pending' \in [Modules -> SUBSET PendingEntry]
      /\ \A k \in Modules : pending'[k] \subseteq pending[k]
      /\ f \in {p.f : p \in pending[m]}
  BY <1>0 DEF Replied, PendingTake, AwaitedBy, Pending, TypeInv, TypeOK
<1>6. fib[f] \in Fiber /\ fib[f].async_outstanding \in Int
      /\ fib[f].rq \in Seq([req_id : Int, result : Argument])
  BY FiberType DEF TypeInv
<1>7. ASSUME NEW r \in Fiber, r.mod = fib[f].mod, r.fn = fib[f].fn, Resume(m, f, r)
      PROVE  /\ fib' \in [Fibers -> Fiber]
             /\ current' \in [Modules -> Fibers \cup {NoFiber}]
             /\ expired' \subseteq Fibers
             /\ SameBodies
             /\ \A k \in Modules : current'[k] \in {current[k]} \cup {p.f : p \in pending[k]}
  <2>1. /\ fib' \in [Fibers -> Fiber]
        /\ current' \in [Modules -> Fibers \cup {NoFiber}]
        /\ expired' \subseteq Fibers
        /\ SameBodies
    BY <1>7, ResumeType DEF TypeInv, SameBodies
  <2>2. \A k \in Modules : current'[k] \in {current[k]} \cup {p.f : p \in pending[k]}
    BY <1>5, <1>7 DEF Resume, TypeInv, TypeOK
  <2> QED BY <2>1, <2>2
<1>8. CASE ReplyEndsRequest(m, f) \/ ReplyEndsWait(m, f)
  <2>1. PICK r \in Fiber : r.mod = fib[f].mod /\ r.fn = fib[f].fn /\ Resume(m, f, r)
    <3>1. CASE ReplyEndsRequest(m, f)
      <4>1. [fib[f] EXCEPT !.src = ReplySrc(e)] \in Fiber
        BY <1>4, <1>6 DEF Fiber
      <4>2. Resume(m, f, [fib[f] EXCEPT !.src = ReplySrc(e)])
        BY <3>1 DEF ReplyEndsRequest, e
      <4> QED BY <1>6, <4>1, <4>2 DEF Fiber
    <3>2. CASE ReplyEndsWait(m, f)
      <4> DEFINE r == [fib[f] EXCEPT !.src = ReplySrc(e), !.async_outstanding = @ - 1]
      <4>1. r \in Fiber /\ r.mod = fib[f].mod /\ r.fn = fib[f].fn
        <5>1. [fib[f] EXCEPT !.src = ReplySrc(e)] \in Fiber
          BY <1>4, <1>6 DEF Fiber
        <5>2. r = [[fib[f] EXCEPT !.src = ReplySrc(e)] EXCEPT
                     !.async_outstanding = fib[f].async_outstanding - 1]
          BY <1>6 DEF Fiber
        <5>3. fib[f].async_outstanding - 1 \in Int
          BY <1>6
        <5> QED BY <1>6, <5>1, <5>2, <5>3 DEF Fiber
      <4>2. Resume(m, f, r)
        BY <3>2 DEF ReplyEndsWait, e
      <4> HIDE DEF r
      <4> QED BY <4>1, <4>2
    <3> QED BY <1>8, <3>1, <3>2
  <2>2. /\ fib' \in [Fibers -> Fiber]
        /\ current' \in [Modules -> Fibers \cup {NoFiber}]
        /\ expired' \subseteq Fibers
        /\ SameBodies
        /\ \A k \in Modules : current'[k] \in {current[k]} \cup {p.f : p \in pending[k]}
    BY <1>7, <2>1
  <2>3. UNCHANGED <<instVars, inbox, loop, due, deferred, fibers, lockVars,
                    notifyVars, extVars, next_req_id>>
    BY <1>8 DEF ReplyEndsRequest, ReplyEndsWait
  <2>4. NoNewReference
    BY <1>5, <2>2, <2>3 DEF NoNewReference, Refers, Live
  <2> QED
    BY <1>2, <1>5, <2>2, <2>3, <2>4, KnownKept
    DEF TypeInv, TypeOK, instVars, lockVars, notifyVars, extVars
<1>9. CASE ReplyQueued(m, f)
  <2> DEFINE rr == [req_id |-> e.req_id, result |-> e.result]
             r == [fib[f] EXCEPT !.rq = Append(@, rr)]
  <2>1. Append(fib[f].rq, rr) \in Seq([req_id : Int, result : Argument])
    BY <1>3, <1>6, AppendProperties
  <2>2. r \in Fiber /\ r.mod = fib[f].mod /\ r.fn = fib[f].fn
    BY <1>6, <2>1 DEF Fiber
  <2>3. fib' = [fib EXCEPT ![f] = r]
    BY <1>9 DEF ReplyQueued, e
  <2> HIDE DEF r
  <2>4. fib' \in [Fibers -> Fiber] /\ SameBodies
    BY <2>2, <2>3, SameBodyStep DEF TypeInv
  <2>5. NoNewReference
    BY <1>5, <1>9 DEF ReplyQueued, NoNewReference, Refers, Live
  <2> QED
    BY <1>2, <1>5, <1>9, <2>4, <2>5, KnownKept
    DEF ReplyQueued, TypeInv, TypeOK, instVars, lockVars, notifyVars, extVars
<1> QED BY <1>8, <1>9

\* What the calls of a running fiber f have in common: they change its record,
\* may enter f itself in pending, and may give the thread back.
LEMMA CallStep ==
  ASSUME TypeInv, NEW m \in Modules, NEW f \in Fibers, Running(m, f),
         NEW r \in Fiber, r.mod = fib[f].mod, r.fn = fib[f].fn, fib' = [fib EXCEPT ![f] = r],
         UNCHANGED <<instVars, schedVars, ext_id, client, expired>>,
         current' = current \/ Yield(m),
         pending' = pending \/ pending' = PendingAdd(m, next_req_id[m], f),
         next_req_id' = next_req_id \/ next_req_id' = [next_req_id EXCEPT ![m] = @ + 1],
         inbox' \in [Modules -> Seq(Event)],
         locked_by' \in [Modules -> Fibers \cup {NoFiber}], holding' \subseteq Fibers,
         ext' \in [wait_rid : Int, ready : BOOLEAN, result : Argument, msg : Int],
         notify_clients' \in [Modules -> Seq(ListenerEntry)], next_client_id' \in ClientId
  PROVE  TypeInv'
<1>1. fib' \in [Fibers -> Fiber] /\ SameBodies
  BY SameBodyStep DEF TypeInv
<1>2. next_req_id \in [Modules -> Nat] /\ pending \in [Modules -> SUBSET PendingEntry]
      /\ current \in [Modules -> Fibers \cup {NoFiber}]
  BY DEF TypeInv, TypeOK
<1>3. next_req_id' \in [Modules -> Nat]
  <2>1. next_req_id[m] + 1 \in Nat
    BY <1>2
  <2> QED BY <1>2, <2>1
<1>4. Pending(next_req_id[m], f) \in PendingEntry
  BY <1>2 DEF Pending, PendingEntry
<1>5. /\ pending' \in [Modules -> SUBSET PendingEntry]
      /\ \A k \in Modules \ {m} : pending'[k] = pending[k]
      /\ pending'[m] \subseteq pending[m] \cup {Pending(next_req_id[m], f)}
  <2>1. CASE pending' = pending
    BY <1>2, <2>1
  <2>2. CASE pending' = PendingAdd(m, next_req_id[m], f)
    BY <1>2, <1>4, <2>2 DEF PendingAdd
  <2> QED BY <2>1, <2>2
<1>6. /\ current' \in [Modules -> Fibers \cup {NoFiber}]
      /\ \A k \in Modules : current'[k] \in {current[k], NoFiber}
  BY <1>2 DEF Yield
<1>7. \A k \in Modules : {p.f : p \in pending'[k]} \subseteq Refers(k)
  <2> SUFFICES ASSUME NEW k \in Modules, NEW p \in pending'[k] PROVE p.f \in Refers(k)
    OBVIOUS
  <2>1. CASE p \in pending[k]
    BY <2>1 DEF Refers
  <2>2. CASE p \notin pending[k]
    <3>1. k = m /\ p.f = f
      BY <1>5, <2>2 DEF Pending
    <3> QED BY <3>1 DEF Running, Refers
  <2> QED BY <2>1, <2>2
<1>8. NoNewReference
  BY <1>6, <1>7 DEF NoNewReference, Refers, Live, schedVars
<1> QED
  BY <1>1, <1>3, <1>5, <1>6, <1>8, KnownKept DEF TypeInv, TypeOK, instVars, schedVars

\* A fiber that made its call is well formed and keeps its body.
LEMMA PastType ==
  ASSUME TypeOK, NEW f \in Fibers
  PROVE  Past(f) \in Fiber /\ Past(f).mod = fib[f].mod /\ Past(f).fn = fib[f].fn
<1>1. fib[f] \in Fiber /\ fib[f].pc \in Nat
  BY FiberType
<1>2. fib[f].pc + 1 \in Nat
  BY <1>1
<1>3. Past(f) = [fib[f] EXCEPT !.pc = fib[f].pc + 1]
  BY <1>1 DEF Past, Fiber
<1> QED BY <1>1, <1>2, <1>3 DEF Fiber

\* The three calls that post a start event.
LEMMA RequestType ==
  ASSUME TypeInv, NEW m \in Modules, NEW f \in Fibers, NEW c \in Call,
         Request(m, f, c) \/ RequestAsync(m, f, c) \/ Send(m, f, c)
  PROVE  TypeInv'
<1> DEFINE rid == next_req_id[m]
<1>1. rid \in Nat /\ rid \in Int /\ m \in Int /\ c.to \in Int /\ c.seq \in Name
  BY ModuleIndex DEF TypeInv, TypeOK, Call
<1>2. StartEv(c.seq, rid, m) \in Event
  BY <1>1, EvType
<1> HIDE DEF rid
<1>3. Post(c.to, StartEv(c.seq, rid, m)) /\ Running(m, f)
  BY DEF Request, RequestAsync, Send, Makes, rid
<1>4. inbox' \in [Modules -> Seq(Event)]
  BY <1>1, <1>2, <1>3, PostType DEF TypeInv
<1>5. Past(f) \in Fiber /\ Past(f).mod = fib[f].mod /\ Past(f).fn = fib[f].fn
  BY PastType DEF TypeInv
<1>6. PICK r \in Fiber :
        r.mod = fib[f].mod /\ r.fn = fib[f].fn /\ fib' = [fib EXCEPT ![f] = r]
  <2> DEFINE past == Past(f)
  <2>0. past \in Fiber /\ past.mod = fib[f].mod /\ past.fn = fib[f].fn
    BY <1>5
  <2> HIDE DEF past
  <2>1. CASE Request(m, f, c)
    <3> DEFINE r == [past EXCEPT !.wait_req_id = rid, !.waits = @ \cup RequestFlags(c)]
    <3>1. r \in Fiber /\ r.mod = fib[f].mod /\ r.fn = fib[f].fn
      BY <1>1, <2>0 DEF Fiber, RequestFlags
    <3>2. fib' = [fib EXCEPT ![f] = r]
      BY <2>1 DEF Request, rid, past
    <3> HIDE DEF r
    <3> QED BY <3>1, <3>2
  <2>2. CASE RequestAsync(m, f, c)
    <3> DEFINE r == [past EXCEPT !.async_outstanding = @ + 1]
    <3>1. past.async_outstanding + 1 \in Int
      BY <2>0 DEF Fiber
    <3>2. r \in Fiber /\ r.mod = fib[f].mod /\ r.fn = fib[f].fn
      BY <2>0, <3>1 DEF Fiber
    <3>3. fib' = [fib EXCEPT ![f] = r]
      BY <2>2 DEF RequestAsync, past
    <3> HIDE DEF r
    <3> QED BY <3>2, <3>3
  <2>3. CASE Send(m, f, c)
    BY <2>0, <2>3 DEF Send, past
  <2> QED BY <2>1, <2>2, <2>3
<1>7. /\ UNCHANGED <<instVars, schedVars, lockVars, notifyVars, extVars, expired>>
      /\ current' = current \/ Yield(m)
      /\ pending' = pending \/ pending' = PendingAdd(m, next_req_id[m], f)
      /\ next_req_id' = [next_req_id EXCEPT ![m] = @ + 1]
  BY DEF Request, RequestAsync, Send
<1> QED
  BY <1>3, <1>4, <1>6, <1>7, CallStep
  DEF TypeInv, TypeOK, lockVars, notifyVars, extVars

\* The calls that take the answer of an asynchronous request.
LEMMA CollectType ==
  ASSUME TypeInv, NEW m \in Modules, NEW f \in Fibers, NEW c \in Call,
         NothingToCollect(m, f, c) \/ CollectQueued(m, f, c) \/ WaitForReply(m, f, c)
  PROVE  TypeInv'
<1> DEFINE left == AfterOne(f, c)
<1>1. left \in Fiber /\ left.mod = fib[f].mod /\ left.fn = fib[f].fn
  <2>1. fib[f] \in Fiber /\ Past(f) \in Fiber
        /\ Past(f).mod = fib[f].mod /\ Past(f).fn = fib[f].fn
    BY PastType, FiberType DEF TypeInv
  <2> QED BY <2>1 DEF AfterOne
<1> HIDE DEF left
<1>2. Running(m, f)
  BY DEF NothingToCollect, CollectQueued, WaitForReply, Collects, Makes
<1>3. PICK r \in Fiber :
        r.mod = fib[f].mod /\ r.fn = fib[f].fn /\ fib' = [fib EXCEPT ![f] = r]
  <2>1. CASE NothingToCollect(m, f, c)
    BY <2>1, PastType DEF NothingToCollect, TypeInv
  <2>2. CASE CollectQueued(m, f, c)
    <3> DEFINE rr == Head(fib[f].rq)
               q == Tail(fib[f].rq)
               n == left.async_outstanding - 1
               src == Src(rr.result, 0, 0, rr.req_id)
               r == [left EXCEPT !.rq = q, !.async_outstanding = n, !.src = src]
    <3>1. fib[f].rq \in Seq([req_id : Int, result : Argument]) /\ fib[f].rq # <<>>
      BY <2>2, FiberType DEF CollectQueued, TypeInv
    <3>2. /\ rr \in [req_id : Int, result : Argument]
          /\ Tail(fib[f].rq) \in Seq([req_id : Int, result : Argument])
      BY <3>1, HeadTailProperties
    <3>3. rr.result \in Argument /\ rr.req_id \in Int
      BY <3>2
    <3> HIDE DEF rr
    <3>4. src \in Source
      <4>1. 0 \in Int /\ 0 \in ClientId
        BY ZeroClient
      <4> QED BY <3>3, <4>1, SrcType, Zenon
    <3>5. left.async_outstanding \in Int /\ left.rq = fib[f].rq
      BY <1>1, FiberType DEF left, AfterOne, Past, Fiber, TypeInv
    <3>6. n \in Int /\ q \in Seq([req_id : Int, result : Argument])
      BY <3>2, <3>5
    <3>7. fib' = [fib EXCEPT ![f] = r]
      BY <2>2, <3>5 DEF CollectQueued, left, rr
    <3> HIDE DEF n, q, src
    <3>8. r \in Fiber /\ r.mod = fib[f].mod /\ r.fn = fib[f].fn
      BY <1>1, <3>4, <3>6 DEF Fiber
    <3> HIDE DEF r
    <3> QED BY <3>7, <3>8
  <2>3. CASE WaitForReply(m, f, c)
    <3> DEFINE r == [left EXCEPT !.waits = @ \cup {"any"}]
    <3>1. r \in Fiber /\ r.mod = fib[f].mod /\ r.fn = fib[f].fn
      BY <1>1 DEF Fiber
    <3>2. fib' = [fib EXCEPT ![f] = r]
      BY <2>3 DEF WaitForReply, left
    <3> HIDE DEF r
    <3> QED BY <3>1, <3>2
  <2> QED BY <2>1, <2>2, <2>3
<1>4. /\ UNCHANGED <<instVars, inbox, schedVars, lockVars, notifyVars, extVars,
                     pending, next_req_id, expired>>
      /\ current' = current \/ Yield(m)
  BY DEF NothingToCollect, CollectQueued, WaitForReply
<1> QED
  BY <1>2, <1>3, <1>4, CallStep DEF TypeInv, TypeOK, lockVars, notifyVars, extVars

\* Replying to another module or to the waiting external client.
LEMMA ReplyCallType ==
  ASSUME TypeInv, NEW m \in Modules, NEW f \in Fibers, NEW c \in Call,
         ReplyToModule(m, f, c) \/ ReplyToExternal(m, f, c)
  PROVE  TypeInv'
<1>1. Past(f) \in Fiber /\ Past(f).mod = fib[f].mod /\ Past(f).fn = fib[f].fn
  BY PastType DEF TypeInv
<1>2. /\ Running(m, f) /\ fib' = [fib EXCEPT ![f] = Past(f)]
      /\ UNCHANGED <<instVars, schedVars, lockVars, notifyVars, ext_id, client,
                     current, pending, next_req_id, expired>>
  BY DEF ReplyToModule, ReplyToExternal, Makes, extVars
<1>3. /\ fib[f].reply_to \in Modules \cup {EXTERNAL} /\ fib[f].reply_to \in Int
      /\ fib[f].reply_req_id \in Int /\ c.arg \in Argument
  <2>1. fib[f].reply_to \in Modules \cup {EXTERNAL} /\ fib[f].reply_req_id \in Int
    BY FiberType DEF TypeInv
  <2> QED BY <2>1, ModuleIndex DEF Call
<1>4. inbox' \in [Modules -> Seq(Event)]
  <2>1. CASE ReplyToModule(m, f, c)
    <3>1. ReplyEv(fib[f].reply_req_id, m, c.arg) \in Event
      BY <1>3, EvType
    <3>2. Post(fib[f].reply_to, ReplyEv(fib[f].reply_req_id, m, c.arg))
      BY <2>1 DEF ReplyToModule
    <3> QED BY <1>3, <3>1, <3>2, PostType DEF TypeInv
  <2>2. CASE ReplyToExternal(m, f, c)
    BY <2>2 DEF ReplyToExternal, TypeInv, TypeOK
  <2> QED BY <2>1, <2>2
<1>5. ext' \in [wait_rid : Int, ready : BOOLEAN, result : Argument, msg : Int]
  <2>1. ext' = ext \/ ext' = ExtDeliver(fib[f].reply_req_id, c.arg)
    BY DEF ReplyToModule, ReplyToExternal, extVars
  <2> QED BY <1>3, <2>1 DEF ExtDeliver, TypeInv, TypeOK
<1> QED
  BY <1>1, <1>2, <1>4, <1>5, CallStep DEF TypeInv, TypeOK, lockVars, notifyVars

\* Waiting, locking, unlocking and returning.
LEMMA OtherCallType ==
  ASSUME TypeInv, NEW m \in Modules, NEW f \in Fibers, NEW c \in Call,
         \/ WaitTimeout(m, f, c) \/ Lock(m, f, c) \/ Unlock(m, f, c) \/ Return(m, f, c)
  PROVE  TypeInv'
<1>1. /\ Past(f) \in Fiber /\ Past(f).mod = fib[f].mod /\ Past(f).fn = fib[f].fn
      /\ fib[f] \in Fiber
  BY PastType, FiberType DEF TypeInv
<1>2. Running(m, f)
  BY DEF WaitTimeout, Lock, Unlock, Return, Makes
<1>3. PICK r \in Fiber :
        r.mod = fib[f].mod /\ r.fn = fib[f].fn /\ fib' = [fib EXCEPT ![f] = r]
  <2>1. CASE WaitTimeout(m, f, c)
    <3> DEFINE r == [Past(f) EXCEPT !.waits = @ \cup {"timer"}]
    <3>1. r \in Fiber /\ r.mod = fib[f].mod /\ r.fn = fib[f].fn
      BY <1>1 DEF Fiber
    <3>2. fib' = [fib EXCEPT ![f] = r]
      BY <2>1 DEF WaitTimeout
    <3> HIDE DEF r
    <3> QED BY <3>1, <3>2
  <2>2. CASE Lock(m, f, c) \/ Unlock(m, f, c)
    BY <1>1, <2>2 DEF Lock, Unlock
  <2>3. CASE Return(m, f, c)
    <3> DEFINE r == [fib[f] EXCEPT !.done = TRUE]
    <3>1. r \in Fiber /\ r.mod = fib[f].mod /\ r.fn = fib[f].fn
      BY <1>1 DEF Fiber
    <3>2. fib' = [fib EXCEPT ![f] = r]
      BY <2>3 DEF Return
    <3> HIDE DEF r
    <3> QED BY <3>1, <3>2
  <2> QED BY <2>1, <2>2, <2>3
<1>4. /\ UNCHANGED <<instVars, inbox, schedVars, notifyVars, extVars,
                     pending, next_req_id, expired>>
      /\ current' = current \/ Yield(m)
      /\ locked_by' \in [Modules -> Fibers \cup {NoFiber}] /\ holding' \subseteq Fibers
  <2>1. locked_by' \in [Modules -> Fibers \cup {NoFiber}]
    BY DEF WaitTimeout, Lock, Unlock, LockAfterUnlock, Return, TypeInv, TypeOK, lockVars
  <2>2. holding' \subseteq Fibers
    BY DEF WaitTimeout, Lock, Unlock, Return, TypeInv, TypeOK, lockVars
  <2> QED BY <2>1, <2>2 DEF WaitTimeout, Lock, Unlock, Return
<1> QED
  BY <1>2, <1>3, <1>4, CallStep DEF TypeInv, TypeOK, notifyVars, extVars

\* Every call a sequence can make besides those of notifications.
LEMMA CallsType ==
  ASSUME TypeInv, NEW m \in Modules, NEW f \in Fibers, NEW c \in Call, Calls(m, f, c)
  PROVE  TypeInv'
  BY RequestType, CollectType, ReplyCallType, OtherCallType DEF Calls

\* Registering for notifications, step by step.
LEMMA RegisterType ==
  ASSUME TypeInv, NEW m \in Modules, NEW f \in Fibers, NEW c \in Call,
         \/ RegRefused(m, f, c) \/ RegTest(m, f, c) \/ RegWrap(m, f, c)
         \/ RegRead(m, f, c) \/ RegWrite(m, f, c)
  PROVE  TypeInv'
<1>1. /\ Past(f) \in Fiber /\ Past(f).mod = fib[f].mod /\ Past(f).fn = fib[f].fn
      /\ fib[f] \in Fiber /\ c.arg \in Argument
  BY PastType, FiberType DEF TypeInv, Call
<1>2. Running(m, f)
  BY DEF RegRefused, RegTest, RegWrap, RegRead, RegWrite, Makes, Registering
<1>3. next_client_id \in ClientId /\ next_client_id' \in ClientId
  <2>1. next_client_id \in ClientId
    BY DEF TypeInv, TypeOK
  <2>2. 0 \in ClientId
    BY ZeroClient
  <2>3. ASSUME NEW id \in ClientId PROVE (id + 1) % ClientIdMod \in ClientId
    BY ClientIdAssumption DEF ClientId
  <2> QED
    BY <2>1, <2>2, <2>3 DEF RegRefused, RegTest, RegWrap, RegRead, RegWrite, notifyVars
<1>4. PICK r \in Fiber :
        r.mod = fib[f].mod /\ r.fn = fib[f].fn /\ fib' = [fib EXCEPT ![f] = r]
  <2>1. CASE RegRefused(m, f, c)
    BY <1>1, <2>1 DEF RegRefused
  <2>2. CASE RegTest(m, f, c)
    <3> DEFINE r == [fib[f] EXCEPT !.reg = AfterTest(next_client_id), !.cat = c.arg]
    <3>1. r \in Fiber /\ r.mod = fib[f].mod /\ r.fn = fib[f].fn
      BY <1>1 DEF Fiber, AfterTest
    <3>2. fib' = [fib EXCEPT ![f] = r]
      BY <1>1, <2>2 DEF RegTest, TypeInv, TypeOK
    <3> HIDE DEF r
    <3> QED BY <3>1, <3>2
  <2>3. CASE RegWrap(m, f, c) \/ RegRead(m, f, c)
    <3>1. PICK x \in {Tested} \cup ClientId : fib' = [fib EXCEPT ![f].reg = x]
      BY <1>3, <2>3 DEF RegWrap, RegRead
    <3> DEFINE r == [fib[f] EXCEPT !.reg = x]
    <3>2. r \in Fiber /\ r.mod = fib[f].mod /\ r.fn = fib[f].fn
      BY <1>1 DEF Fiber
    <3>3. fib' = [fib EXCEPT ![f] = r]
      BY <3>1
    <3> HIDE DEF r
    <3> QED BY <3>2, <3>3
  <2>4. CASE RegWrite(m, f, c)
    <3> DEFINE r == [Past(f) EXCEPT !.reg = NotReg, !.cat = ""]
    <3>1. "" \in Argument
      BY DEF Argument
    <3>2. r \in Fiber /\ r.mod = fib[f].mod /\ r.fn = fib[f].fn
      BY <1>1, <3>1 DEF Fiber
    <3>3. fib' = [fib EXCEPT ![f] = r]
      BY <2>4 DEF RegWrite
    <3> HIDE DEF r
    <3> QED BY <3>2, <3>3
  <2> QED BY <2>1, <2>2, <2>3, <2>4
<1>5. notify_clients' \in [Modules -> Seq(ListenerEntry)]
  <2>0. notify_clients \in [Modules -> Seq(ListenerEntry)]
    BY DEF TypeInv, TypeOK
  <2>1. CASE RegWrite(m, f, c)
    <3> DEFINE l == Listener(c.arg, fib[f].reply_to, fib[f].reg)
    <3>1. fib[f].reply_to # EXTERNAL
      BY <2>1 DEF RegWrite, Registering
    <3>2. l \in ListenerEntry
      BY <1>1, <2>1, <3>1, FiberType DEF RegWrite, Listener, ListenerEntry, TypeInv
    <3>3. <<l>> \o notify_clients[m] \in Seq(ListenerEntry)
      BY <2>0, <3>2, ConsSeq
    <3> QED BY <2>0, <2>1, <3>3 DEF RegWrite
  <2> QED BY <2>0, <2>1 DEF RegRefused, RegTest, RegWrap, RegRead, notifyVars
<1>6. UNCHANGED <<instVars, inbox, schedVars, lockVars, extVars,
                  current, pending, next_req_id, expired>>
  BY DEF RegRefused, RegTest, RegWrap, RegRead, RegWrite
<1> QED
  BY <1>2, <1>3, <1>4, <1>5, <1>6, CallStep DEF TypeInv, TypeOK, lockVars, extVars

\* Removing a registration.
LEMMA UnregisterType ==
  ASSUME TypeInv, NEW m \in Modules, NEW f \in Fibers, NEW c \in Call, NEW cid \in ClientId,
         \/ \E i \in DOMAIN notify_clients[m] : UnregNotify(m, f, c, cid, i)
         \/ UnregUnknown(m, f, c, cid)
  PROVE  TypeInv'
<1>1. Past(f) \in Fiber /\ Past(f).mod = fib[f].mod /\ Past(f).fn = fib[f].fn
  BY PastType DEF TypeInv
<1>2. /\ Running(m, f) /\ fib' = [fib EXCEPT ![f] = Past(f)]
      /\ next_client_id' = next_client_id
      /\ UNCHANGED <<instVars, inbox, schedVars, lockVars, extVars,
                     current, pending, next_req_id, expired>>
  BY DEF UnregNotify, UnregUnknown, Makes, notifyVars
<1>3. notify_clients' \in [Modules -> Seq(ListenerEntry)]
  <2>0. notify_clients \in [Modules -> Seq(ListenerEntry)]
    BY DEF TypeInv, TypeOK
  <2>1. CASE UnregUnknown(m, f, c, cid)
    BY <2>0, <2>1 DEF UnregUnknown, notifyVars
  <2>2. ASSUME NEW i \in DOMAIN notify_clients[m], UnregNotify(m, f, c, cid, i)
        PROVE  notify_clients' \in [Modules -> Seq(ListenerEntry)]
    <3>1. RemoveAt(notify_clients[m], i) \in Seq(ListenerEntry)
      BY <2>0, RemoveAtType
    <3> QED BY <2>0, <2>2, <3>1 DEF UnregNotify
  <2> QED BY <2>1, <2>2
<1> QED
  BY <1>1, <1>2, <1>3, CallStep DEF TypeInv, TypeOK, lockVars, extVars

\* Notifying the registered clients, one at a time.
LEMMA NotifyType ==
  ASSUME TypeInv, NEW m \in Modules, NEW f \in Fibers, NEW c \in Call,
         \/ \E i \in DOMAIN notify_clients[m] : NotifyOne(m, f, c, i)
         \/ NotifyDone(m, f, c)
  PROVE  TypeInv'
<1>1. /\ Past(f) \in Fiber /\ Past(f).mod = fib[f].mod /\ Past(f).fn = fib[f].fn
      /\ fib[f] \in Fiber /\ c.arg \in Argument /\ "" \in Argument
  BY PastType, FiberType DEF TypeInv, Call, Argument
<1>2. /\ Running(m, f)
      /\ UNCHANGED <<instVars, schedVars, lockVars, notifyVars, extVars, current,
                     pending, next_req_id, expired>>
  BY DEF NotifyOne, NotifyDone, Notifying
<1>3. ASSUME NEW i \in DOMAIN notify_clients[m], NotifyOne(m, f, c, i)
      PROVE  /\ inbox' \in [Modules -> Seq(Event)]
             /\ \E r \in Fiber :
                  r.mod = fib[f].mod /\ r.fn = fib[f].fn /\ fib' = [fib EXCEPT ![f] = r]
  <2> DEFINE l == notify_clients[m][i]
             r == [fib[f] EXCEPT !.fan = i, !.cat = c.arg]
  <2>1. l \in ListenerEntry /\ i \in Nat
    <3>1. notify_clients[m] \in Seq(ListenerEntry)
      BY DEF TypeInv, TypeOK
    <3> QED BY <3>1, ElementOfSeq, LenProperties
  <2>2. l.listener_module \in Int /\ l.client_id \in ClientId
    BY <2>1, ModuleIndex DEF ListenerEntry
  <2> HIDE DEF l
  <2>3. NotifyEv(m, l.client_id) \in Event /\ Post(l.listener_module, NotifyEv(m, l.client_id))
    <3>1. 0 \in Int /\ m \in Modules \cup {EXTERNAL}
      OBVIOUS
    <3> QED BY <1>3, <2>2, <3>1, EvType DEF NotifyOne, l
  <2>4. inbox' \in [Modules -> Seq(Event)]
    BY <2>2, <2>3, PostType DEF TypeInv
  <2>5. r \in Fiber /\ r.mod = fib[f].mod /\ r.fn = fib[f].fn
    BY <1>1, <2>1 DEF Fiber
  <2>6. fib' = [fib EXCEPT ![f] = r]
    BY <1>1, <1>3 DEF NotifyOne, TypeInv, TypeOK
  <2> HIDE DEF r
  <2> QED BY <2>4, <2>5, <2>6
<1>4. ASSUME NotifyDone(m, f, c)
      PROVE  /\ inbox' = inbox
             /\ \E r \in Fiber :
                  r.mod = fib[f].mod /\ r.fn = fib[f].fn /\ fib' = [fib EXCEPT ![f] = r]
  <2> DEFINE r == [Past(f) EXCEPT !.fan = 0, !.cat = ""]
  <2>1. r \in Fiber /\ r.mod = fib[f].mod /\ r.fn = fib[f].fn
    BY <1>1 DEF Fiber
  <2>2. fib' = [fib EXCEPT ![f] = r] /\ inbox' = inbox
    BY <1>4 DEF NotifyDone
  <2> HIDE DEF r
  <2> QED BY <2>1, <2>2
<1>5. /\ inbox' \in [Modules -> Seq(Event)]
      /\ \E r \in Fiber :
           r.mod = fib[f].mod /\ r.fn = fib[f].fn /\ fib' = [fib EXCEPT ![f] = r]
  BY <1>3, <1>4 DEF TypeInv, TypeOK
<1>6. PICK r \in Fiber :
        r.mod = fib[f].mod /\ r.fn = fib[f].fn /\ fib' = [fib EXCEPT ![f] = r]
  BY <1>5
<1> QED
  BY <1>2, <1>5, <1>6, CallStep DEF TypeInv, TypeOK, lockVars, notifyVars, extVars

\* Every step of the running fiber of a module.
LEMMA SequenceType ==
  ASSUME TypeInv, NEW m \in Modules, Sequence(m)
  PROVE  TypeInv'
<1>1. PICK c \in NextCalls(m) : Calls(m, current[m], c) \/ NotifyCalls(m, current[m], c)
  BY DEF Sequence
<1>2. current[m] \in Fibers /\ c \in Call
  BY <1>1, CallType DEF Sequence
<1>3. CASE NotifyCalls(m, current[m], c)
  BY <1>2, <1>3, RegisterType, UnregisterType, NotifyType DEF NotifyCalls
<1> QED BY <1>1, <1>2, <1>3, CallsType

\* Every step of the scheduler of a module.
LEMMA SchedType ==
  ASSUME TypeInv, NEW m \in Modules, Sched(m) \/ SpuriousWake(m)
  PROVE  TypeInv'
  BY QuietSchedType, TimerFiresType, StartType, ReplyType DEF Sched

\* Time, the external clients and the owner.
LEMMA OutsideType ==
  ASSUME TypeInv,
         (\E f \in Fibers : TimePasses(f)) \/ (\E c \in Clients : External(c)) \/ Owner
  PROVE  TypeInv'
<1> USE DEF TypeInv, SameBodies, NoNewReference, Refers, Live
<1> SUFFICES TypeOK' /\ SameBodies /\ NoNewReference
  BY KnownKept
<1>1. CASE \E f \in Fibers : TimePasses(f)
  BY <1>1 DEF TimePasses, TypeOK, instVars, schedVars, lockVars, notifyVars, extVars
<1>2. ASSUME NEW c \in Clients, NEW x \in ExtCalls, RequestSync(c, x) \/ ExtRequestAsync(c, x)
      PROVE  TypeOK' /\ SameBodies /\ NoNewReference
  <2>1. x.to \in Int /\ x.seq \in Name /\ ext_id \in Nat /\ ext_id \in Int /\ ext_id + 1 \in Nat
        /\ EXTERNAL \in Modules \cup {EXTERNAL}
    BY ExternalAssumption DEF TypeOK
  <2>2. StartEv(x.seq, ext_id, EXTERNAL) \in Event
    BY <2>1, EvType
  <2>3. inbox' \in [Modules -> Seq(Event)]
    BY <1>2, <2>1, <2>2, PostType DEF RequestSync, ExtRequestAsync
  <2>4. client' \in [Clients -> [rid : Int, waiting : BOOLEAN, got : Int]]
    <3>1. CASE RequestSync(c, x)
      <4> DEFINE r == [client[c] EXCEPT !.waiting = TRUE, !.rid = ext_id]
      <4>0. client[c] \in [rid : Int, waiting : BOOLEAN, got : Int]
        BY DEF TypeOK
      <4>1. r \in [rid : Int, waiting : BOOLEAN, got : Int]
        BY <2>1, <4>0
      <4>2. client' = [client EXCEPT ![c] = r]
        BY <3>1 DEF RequestSync, TypeOK
      <4> HIDE DEF r
      <4> QED BY <4>1, <4>2 DEF TypeOK
    <3>2. CASE ExtRequestAsync(c, x)
      BY <3>2 DEF ExtRequestAsync, TypeOK
    <3> QED BY <1>2, <3>1, <3>2
  <2>5. ext' \in [wait_rid : Int, ready : BOOLEAN, result : Argument, msg : Int]
        /\ ext_id' \in Nat
    BY <1>2, <2>1 DEF RequestSync, ExtRequestAsync, TypeOK
  <2> QED
    BY <1>2, <2>3, <2>4, <2>5
    DEF RequestSync, ExtRequestAsync, TypeOK, instVars, schedVars, lockVars, notifyVars
<1>3. ASSUME NEW c \in Clients, SyncReturns(c)
      PROVE  TypeOK' /\ SameBodies /\ NoNewReference
  <2>1. client' \in [Clients -> [rid : Int, waiting : BOOLEAN, got : Int]]
    <3> DEFINE r == [client[c] EXCEPT !.waiting = FALSE, !.got = ext.msg]
    <3>0. client[c] \in [rid : Int, waiting : BOOLEAN, got : Int] /\ ext.msg \in Int
      BY DEF TypeOK
    <3>1. r \in [rid : Int, waiting : BOOLEAN, got : Int]
      BY <3>0
    <3>2. client' = [client EXCEPT ![c] = r]
      BY <1>3 DEF SyncReturns, TypeOK
    <3> HIDE DEF r
    <3> QED BY <3>1, <3>2 DEF TypeOK
  <2>2. ext' \in [wait_rid : Int, ready : BOOLEAN, result : Argument, msg : Int]
    <3>1. NoRid \in Int
      BY DEF NoRid
    <3>2. ext' = [ext EXCEPT !.wait_rid = NoRid, !.msg = NoRid]
      BY <1>3 DEF SyncReturns
    <3> QED BY <3>1, <3>2 DEF TypeOK
  <2> QED
    BY <1>3, <2>1, <2>2
    DEF SyncReturns, TypeOK, instVars, schedVars, lockVars, notifyVars
<1>4. CASE BeginTeardown
  BY <1>4 DEF BeginTeardown, TypeOK, schedVars, lockVars, notifyVars, extVars
<1>5. CASE \E m \in Modules : StopModule(m)
  BY <1>5 DEF StopModule, TypeOK, schedVars, lockVars, notifyVars, extVars
<1>6. CASE FreeModules
  <2>1. <<>> \in Seq(Event) /\ <<>> \in Seq(Fibers) /\ <<>> \in Seq(ListenerEntry)
    BY EmptySeq
  <2>2. TypeOK' /\ SameBodies
    BY <1>6, <2>1 DEF FreeModules, TypeOK, instVars, lockVars, extVars
  <2>3. \A m \in Modules : Refers(m)' \subseteq Refers(m)
    <3>1. \A m \in Modules : Live(m)' = {}
      BY <1>6 DEF FreeModules, ToSet
    <3>2. \A m \in Modules : {p.f : p \in pending'[m]} = {}
      BY <1>6 DEF FreeModules
    <3> QED BY <1>6, <3>1, <3>2 DEF FreeModules
  <2> QED BY <2>2, <2>3
<1> QED
  BY <1>1, <1>2, <1>3, <1>4, <1>5, <1>6 DEF External, Owner

\* TypeInv is inductive: every step of the program keeps it.
LEMMA TypeStep == TypeInv /\ [Next]_vars => TypeInv'
<1> SUFFICES ASSUME TypeInv, [Next]_vars PROVE TypeInv'
  OBVIOUS
<1>1. CASE Next
  <2>1. ASSUME NEW m \in Modules, Thread(m) \/ SpuriousWake(m) PROVE TypeInv'
    BY <2>1, SchedType, SequenceType DEF Thread
  <2> QED BY <1>1, <2>1, OutsideType DEF Next
<1>2. CASE UNCHANGED vars
  BY <1>2 DEF vars, instVars, schedVars, lockVars, notifyVars, extVars, TypeInv, TypeOK,
              KnownFibers, Refers, Live, Known
<1> QED BY <1>1, <1>2

\* No thread refers to a fiber after co_init.
LEMMA InitKnown == Init => KnownFibers
<1> SUFFICES ASSUME Init, NEW m \in Modules PROVE Refers(m) = {}
  BY DEF KnownFibers
<1>1. fibers[m] = <<>> /\ due[m] = {} /\ pending[m] = {} /\ current[m] = NoFiber
  BY DEF Init
<1>2. Live(m) = {}
  BY <1>1 DEF Live, ToSet
<1> QED BY <1>1, <1>2 DEF Refers

\* TypeInv holds in every reachable state.
LEMMA TypeInvariant == Spec => []TypeInv
<1>1. Init => TypeInv
  BY InitType, InitKnown DEF TypeInv
<1> QED BY <1>1, TypeStep, PTL DEF Spec

\* Every variable and every field of the C structures keeps its type: each queue
\* entry is a well-formed event, each list of a module holds fibers, and every
\* stored client id fits the field it was narrowed into, whatever the modules,
\* their bodies, the number of fibers and of external clients.
THEOREM TypeCorrect == Spec => []TypeOK
<1>1. TypeInv => TypeOK
  BY DEF TypeInv
<1> QED BY <1>1, TypeInvariant, PTL

-----------------------------------------------------------------------------
(* The mailbox external threads share is sound for one of them: when only   *)
(* one external thread calls, it gets the reply to its own request.  The    *)
(* run two_clients shows that two are already too many.                     *)

\* While the thread waits the mailbox is its own, and what lies in it answers its
\* request, whatever other replies to external threads have come and gone.
MailboxInv ==
  \A c \in Clients :
    /\ client[c].waiting => /\ ext.wait_rid = client[c].rid
                            /\ ext.ready => ext.msg = ext.wait_rid
    /\ ~client[c].waiting => client[c].got = client[c].rid

\* The scheduler never touches the mailbox.
LEMMA SchedLeavesMailbox ==
  ASSUME NEW m \in Modules, Sched(m) \/ SpuriousWake(m)
  PROVE  UNCHANGED <<ext, client>>
  BY DEF Sched, Sleep, StartPass, SpuriousWake, TakeInbox, Stopped, TimerFires, TimerHeldBack,
         Defer, StartRefused, NotifyRefused, ReplyUnknown, Dropped, StartSequence, StartHandler,
         ReplyEndsRequest, ReplyEndsWait, ReplyQueued, Reap, EndPass, extVars

\* Of the calls of a sequence only a reply to an external thread does.
LEMMA CallsLeaveMailbox ==
  ASSUME NEW m \in Modules, NEW f, NEW c, Calls(m, f, c) \/ NotifyCalls(m, f, c)
  PROVE  UNCHANGED <<ext, client>> \/ ReplyToExternal(m, f, c)
<1>1. Calls(m, f, c) => UNCHANGED <<ext, client>> \/ ReplyToExternal(m, f, c)
  BY DEF Calls, Request, RequestAsync, Send, NothingToCollect, CollectQueued, WaitForReply,
         ReplyToModule, WaitTimeout, Lock, Unlock, Return, extVars
<1>2. NotifyCalls(m, f, c) => UNCHANGED <<ext, client>>
  BY DEF NotifyCalls, RegRefused, RegTest, RegWrap, RegRead, RegWrite, UnregNotify, UnregUnknown,
         NotifyOne, NotifyDone, extVars
<1> QED BY <1>1, <1>2

\* A reply is put in the mailbox only for the request it waits for.
LEMMA DeliveryKeepsMailbox ==
  ASSUME TypeInv, MailboxInv, NEW rid, NEW result, ext' = ExtDeliver(rid, result),
         UNCHANGED client
  PROVE  MailboxInv'
<1>1. /\ ext'.wait_rid = ext.wait_rid
      /\ ext'.ready => (ext'.msg = rid /\ rid = ext.wait_rid) \/ ext' = ext
  BY DEF ExtDeliver, TypeInv, TypeOK
<1> QED BY <1>1 DEF MailboxInv

\* What the external thread itself does.
LEMMA ExternalKeepsMailbox ==
  ASSUME AtMostOneClient, TypeInv, MailboxInv, NEW c \in Clients, External(c)
  PROVE  MailboxInv'
<1>1. \A d \in Clients : d = c
  BY DEF AtMostOneClient
<1>2. client \in [Clients -> [rid : Int, waiting : BOOLEAN, got : Int]]
      /\ ext \in [wait_rid : Int, ready : BOOLEAN, result : Argument, msg : Int]
  BY DEF TypeInv, TypeOK
<1>3. ASSUME NEW x, RequestSync(c, x) PROVE MailboxInv'
  <2>1. /\ client'[c].waiting /\ client'[c].rid = ext_id
        /\ ext'.wait_rid = ext_id /\ ~ext'.ready
    BY <1>2, <1>3 DEF RequestSync
  <2> QED BY <1>1, <2>1 DEF MailboxInv
<1>4. ASSUME NEW x, ExtRequestAsync(c, x) PROVE MailboxInv'
  BY <1>4 DEF ExtRequestAsync, MailboxInv
<1>5. CASE SyncReturns(c)
  <2>1. client[c].waiting /\ ext.ready /\ ext.msg = client[c].rid
    BY <1>5 DEF SyncReturns, MailboxInv
  <2>2. ~client'[c].waiting /\ client'[c].rid = client[c].rid /\ client'[c].got = ext.msg
    BY <1>2, <1>5 DEF SyncReturns
  <2> QED BY <1>1, <2>1, <2>2 DEF MailboxInv
<1> QED BY <1>3, <1>4, <1>5 DEF External

\* MailboxInv is inductive when one external thread calls.
LEMMA MailboxStep ==
  ASSUME AtMostOneClient, TypeInv, MailboxInv, [Next]_vars
  PROVE  MailboxInv'
<1>0. UNCHANGED <<ext, client>> => MailboxInv'
  BY DEF MailboxInv
<1>1. ASSUME NEW m \in Modules, Thread(m) \/ SpuriousWake(m) PROVE MailboxInv'
  <2>1. CASE Sched(m) \/ SpuriousWake(m)
    BY <1>0, <2>1, SchedLeavesMailbox
  <2>2. CASE Sequence(m)
    <3>1. PICK c \in NextCalls(m) : Calls(m, current[m], c) \/ NotifyCalls(m, current[m], c)
      BY <2>2 DEF Sequence
    <3>2. UNCHANGED <<ext, client>> \/ ReplyToExternal(m, current[m], c)
      BY <3>1, CallsLeaveMailbox
    <3>3. ReplyToExternal(m, current[m], c) => MailboxInv'
      BY DeliveryKeepsMailbox DEF ReplyToExternal
    <3> QED BY <1>0, <3>2, <3>3
  <2> QED BY <1>1, <2>1, <2>2 DEF Thread
<1>2. ASSUME NEW f \in Fibers, TimePasses(f) PROVE MailboxInv'
  BY <1>0, <1>2 DEF TimePasses, extVars
<1>3. ASSUME NEW c \in Clients, External(c) PROVE MailboxInv'
  BY <1>3, ExternalKeepsMailbox
<1>4. CASE Owner
  BY <1>0, <1>4 DEF Owner, BeginTeardown, StopModule, FreeModules, extVars
<1>5. CASE UNCHANGED vars
  BY <1>0, <1>5 DEF vars, extVars
<1> QED BY <1>1, <1>2, <1>3, <1>4, <1>5 DEF Next

\* ext_deliver and request_sync, when at most one external thread calls: a thread
\* that came back from request_sync has the reply to the request it made, even if
\* it made others with request_async and their replies came first.
THEOREM OneClient == AtMostOneClient => (Spec => []ClientGetsOwnReply)
<1> SUFFICES ASSUME AtMostOneClient PROVE Spec => []ClientGetsOwnReply
  OBVIOUS
<1>1. Init => MailboxInv
  BY DEF Init, MailboxInv
<1>2. TypeInv /\ MailboxInv /\ [Next]_vars => MailboxInv'
  BY MailboxStep
<1>3. MailboxInv => ClientGetsOwnReply
  BY DEF MailboxInv, ClientGetsOwnReply
<1> QED BY <1>1, <1>2, <1>3, TypeInvariant, PTL DEF Spec

-----------------------------------------------------------------------------
(* The schedulers use the inboxes as EventQueue says they may: every step   *)
(* of an instance is a step of the abstract queues, or leaves them alone.   *)
(* Of the rest of the state the argument needs one fact, InPass: a thread   *)
(* that is inside a sequence is in a pass of its loop.                      *)

InPass == \A m \in Modules : current[m] # NoFiber => loop[m] = "run"

QueueStep == [Queues!Next]_(Queues!vars)

-----------------------------------------------------------------------------
(* Steps that keep InPass *)

\* Only the thread of a module switches fibers or moves its loop.
LEMMA PassKept ==
  ASSUME TypeOK, InPass, NEW m \in Modules,
         \A k \in Modules \ {m} : current'[k] = current[k] /\ loop'[k] = loop[k],
         current'[m] # NoFiber => loop'[m] = "run"
  PROVE  InPass'
  BY DEF InPass

\* A step that leaves the loops alone and starts no fiber outside a pass.
LEMMA SamePass ==
  ASSUME TypeOK, InPass, NEW m \in Modules,
         loop' = loop,
         current' = current \/ Yield(m)
                 \/ (loop[m] = "run" /\ \E f \in Fibers : current' = [current EXCEPT ![m] = f])
  PROVE  InPass'
  BY DEF InPass, Yield, TypeOK

-----------------------------------------------------------------------------
(* Steps of the abstract queues *)

\* A step that leaves the queues alone.
LEMMA SameQueues ==
  ASSUME UNCHANGED <<inbox, evs, deferred, loop, locked_by>>
  PROVE  QueueStep
  BY DEF QueueStep, Queues!vars

\* What was appended to a queue is its last element, the queue the rest.
LEMMA AppendedLast ==
  ASSUME NEW S, NEW q \in Seq(S), NEW e \in S
  PROVE  Append(q, e) # <<>> /\ Front(Append(q, e)) = q /\ Last(Append(q, e)) = e
<1> DEFINE s == Append(q, e)
           n == Len(q)
<1>1. /\ s \in Seq(S) /\ Len(s) = n + 1 /\ s # <<>> /\ n \in Nat
      /\ \A i \in 1..n : s[i] = q[i]
      /\ s[n + 1] = e /\ \A i \in 1..n : q[i] \in S
  BY AppendProperties, LenProperties, ElementOfSeq
<1> HIDE DEF s
<1>2. Front(s) = SubSeq(s, 1, n)
  <2>1. Len(s) - 1 = n
    BY <1>1
  <2> QED BY <2>1 DEF Front
<1>3. /\ SubSeq(s, 1, n) \in Seq(S) /\ Len(SubSeq(s, 1, n)) = n
      /\ \A i \in 1..n : SubSeq(s, 1, n)[i] = s[i]
  <2>1. 1 \in Int /\ n \in Int /\ \A i \in 1..n : s[i] \in S
    BY <1>1
  <2> HIDE DEF n
  <2> QED BY <1>1, <2>1, SubSeqProperties
<1>4. Front(s) = q
  <2>1. \A i \in 1..n : SubSeq(s, 1, n)[i] = q[i]
    BY <1>1, <1>3
  <2> QED BY <1>2, <1>3, <2>1, SeqEqual
<1> QED BY <1>1, <1>4 DEF Last, s

\* post, whatever thread calls it and whether or not the event gets there.
LEMMA PostedQueues ==
  ASSUME TypeOK, NEW t \in Int, NEW e \in Event, Post(t, e),
         UNCHANGED <<evs, deferred, loop, locked_by>>
  PROVE  QueueStep
<1>1. CASE inbox' = inbox
  BY <1>1, SameQueues
<1>2. CASE t \in Modules /\ inbox' = [inbox EXCEPT ![t] = Append(@, e)]
  <2> DEFINE s == Append(inbox[t], e)
  <2>1. inbox[t] \in Seq(Event)
    BY <1>2 DEF TypeOK
  <2>2. s # <<>> /\ Front(s) = inbox[t] /\ Last(s) \in Event
    BY <2>1, AppendedLast
  <2>3. inbox'[t] = s /\ inbox' = [inbox EXCEPT ![t] = s]
    BY <1>2 DEF TypeOK
  <2> HIDE DEF s
  <2>4. \E q \in {inbox'[t]} :
          /\ q # <<>> /\ Front(q) = inbox[t] /\ Last(q) \in Event
          /\ inbox' = [inbox EXCEPT ![t] = q]
    BY <2>2, <2>3
  <2>5. Queues!Post(t)
    BY <2>4 DEF Queues!Post, Queues!Front, Queues!Last, Front, Last
  <2> QED BY <1>2, <2>5 DEF QueueStep, Queues!Next
<1> QED BY <1>1, <1>2 DEF Post

\* A lock taken, given back, or left as it is, in a pass of the module.
LEMMA RelockedQueues ==
  ASSUME TypeOK, NEW m \in Modules, loop[m] = "run",
         NEW h \in Fibers \cup {NoFiber}, locked_by' = [locked_by EXCEPT ![m] = h],
         UNCHANGED <<inbox, evs, deferred, loop>>
  PROVE  QueueStep
<1>1. Queues!MayRelock(m)
  <2>1. \A k \in Modules \ {m} : locked_by'[k] = locked_by[k]
    BY DEF TypeOK
  <2> QED BY <2>1 DEF Queues!MayRelock
<1>2. Queues!Relock(m)
  BY <1>1 DEF Queues!Relock
<1> QED BY <1>2 DEF QueueStep, Queues!Next

\* The first event of the batch dealt with, whatever becomes of it but deferral.
LEMMA HandledQueues ==
  ASSUME TypeOK, NEW m \in Modules, NEW type, Handles(m, type),
         UNCHANGED <<inbox, deferred, loop, locked_by>>
  PROVE  QueueStep
<1>1. Queues!MayRelock(m)
  BY DEF Queues!MayRelock, TypeOK
<1>2. Queues!Handle(m)
  BY <1>1 DEF Queues!Handle, Handles, Scheduling
<1> QED BY <1>2 DEF QueueStep, Queues!Next

-----------------------------------------------------------------------------
(* The scheduler *)

\* What a pass of the scheduler starts from is what the abstract reader does.
LEMMA SameRefill ==
  ASSUME NEW m \in Modules
  PROVE  /\ Refilled(m) = Queues!Refilled(m)
         /\ StillDeferred(m) = Queues!StillDeferred(m)
  BY DEF Refilled, StillDeferred, Queues!Refilled, Queues!StillDeferred

\* Falling asleep, taking the inbox, stopping, ending a pass.
LEMMA LoopQueues ==
  ASSUME TypeOK, InPass, NEW m \in Modules,
         Sleep(m) \/ StartPass(m) \/ SpuriousWake(m) \/ Stopped(m) \/ EndPass(m)
  PROVE  QueueStep /\ InPass'
<1>0. loop[m] # "run" => current[m] = NoFiber
  BY DEF InPass
<1>1. CASE Sleep(m)
  <2>1. Queues!Sleep(m)
    BY <1>1, SameRefill DEF Sleep, Queues!Sleep, lockVars
  <2>2. InPass'
    BY <1>0, <1>1, PassKept DEF Sleep, TypeOK
  <2> QED BY <2>1, <2>2 DEF QueueStep, Queues!Next
<1>2. CASE StartPass(m) \/ SpuriousWake(m)
  <2>0. TakeInbox(m) /\ (loop[m] = "wait" \/ (loop[m] = "top" /\ Refilled(m) # <<>>))
    BY <1>2 DEF StartPass, SpuriousWake
  <2>1. Queues!Take(m)
    BY <2>0, SameRefill DEF TakeInbox, Queues!Take, lockVars
  <2>2. InPass'
    BY <2>0, PassKept DEF TakeInbox, TypeOK
  <2> QED BY <2>1, <2>2 DEF QueueStep, Queues!Next
<1>3. CASE Stopped(m)
  <2>1. Queues!Stop(m)
    BY <1>3, SameRefill DEF Stopped, SeesStop, Queues!Stop, lockVars
  <2>2. InPass'
    BY <1>0, <1>3, PassKept DEF Stopped, SeesStop, TypeOK
  <2> QED BY <2>1, <2>2 DEF QueueStep, Queues!Next
<1>4. CASE EndPass(m)
  <2>1. Queues!EndPass(m)
    BY <1>4 DEF EndPass, PassOver, Scheduling, Queues!EndPass, lockVars
  <2>2. InPass'
    BY <1>4, PassKept DEF EndPass, PassOver, Scheduling, TypeOK
  <2> QED BY <2>1, <2>2 DEF QueueStep, Queues!Next
<1> QED BY <1>1, <1>2, <1>3, <1>4

\* Expired timers, and reap_done.
LEMMA TimerQueues ==
  ASSUME TypeOK, InPass, NEW m \in Modules,
         \/ \E f \in Fibers : TimerFires(m, f) \/ TimerHeldBack(m, f)
         \/ \E i \in DOMAIN fibers[m] : Reap(m, i)
  PROVE  QueueStep /\ InPass'
<1>1. ASSUME NEW f \in Fibers, TimerFires(m, f) PROVE QueueStep /\ InPass'
  <2>1. /\ UNCHANGED <<inbox, evs, deferred, loop, locked_by>>
        /\ loop[m] = "run" /\ current' = [current EXCEPT ![m] = f]
    BY <1>1 DEF TimerFires, Resume, Scheduling, lockVars
  <2> QED BY <2>1, SameQueues, SamePass
<1>2. ASSUME NEW f \in Fibers, TimerHeldBack(m, f) PROVE QueueStep /\ InPass'
  <2>1. UNCHANGED <<inbox, evs, deferred, loop, locked_by, current>>
    BY <1>2 DEF TimerHeldBack, lockVars
  <2> QED BY <2>1, SameQueues, SamePass
<1>3. ASSUME NEW i \in DOMAIN fibers[m], Reap(m, i) PROVE QueueStep /\ InPass'
  <2>1. UNCHANGED <<inbox, evs, deferred, loop, current>> /\ loop[m] = "run"
    BY <1>3 DEF Reap, PassOver, Scheduling
  <2>2. \E h \in Fibers \cup {NoFiber} : locked_by' = [locked_by EXCEPT ![m] = h]
    <3>1. locked_by' = [locked_by EXCEPT ![m] = locked_by[m]]
          \/ locked_by' = [locked_by EXCEPT ![m] = NoFiber]
      BY <1>3 DEF Reap, LockAfterReap, TypeOK
    <3>2. locked_by[m] \in Fibers \cup {NoFiber}
      BY DEF TypeOK
    <3> QED BY <3>1, <3>2
  <2> QED BY <2>1, <2>2, RelockedQueues, SamePass
<1> QED BY <1>1, <1>2, <1>3

\* defer_ev: the only event that is put aside is one a locked module may not handle.
LEMMA DeferQueues ==
  ASSUME TypeOK, InPass, NEW m \in Modules, Defer(m)
  PROVE  QueueStep /\ InPass'
<1>1. UNCHANGED <<inbox, loop, locked_by, current>>
  BY DEF Defer, lockVars
<1>2. Queues!PutAside(m)
  BY <1>1 DEF Defer, Handles, Scheduling, MustDefer, Queues!PutAside
<1> QED BY <1>1, <1>2, SamePass DEF QueueStep, Queues!Next

\* Events handled: a fiber is resumed, or none is.
LEMMA EventQueues ==
  ASSUME TypeOK, InPass, NEW m \in Modules,
         \/ StartRefused(m) \/ NotifyRefused(m) \/ ReplyUnknown(m)
         \/ \E f \in Fibers :
              \/ StartSequence(m, f) \/ StartHandler(m, f)
              \/ ReplyEndsRequest(m, f) \/ ReplyEndsWait(m, f) \/ ReplyQueued(m, f)
  PROVE  QueueStep /\ InPass'
<1>1. CASE StartRefused(m) \/ NotifyRefused(m) \/ ReplyUnknown(m)
  <2>1. /\ Handles(m, "START") \/ Handles(m, "NOTIFY") \/ Handles(m, "REPLY")
        /\ UNCHANGED <<inbox, deferred, loop, locked_by, current>>
    BY <1>1 DEF StartRefused, NotifyRefused, ReplyUnknown, Dropped, lockVars
  <2> QED BY <2>1, HandledQueues, SamePass
<1>2. ASSUME NEW f \in Fibers,
             \/ StartSequence(m, f) \/ StartHandler(m, f)
             \/ ReplyEndsRequest(m, f) \/ ReplyEndsWait(m, f)
      PROVE  QueueStep /\ InPass'
  <2>1. /\ Handles(m, "START") \/ Handles(m, "NOTIFY") \/ Handles(m, "REPLY")
        /\ UNCHANGED <<inbox, deferred, loop, locked_by>>
        /\ current' = [current EXCEPT ![m] = f]
    BY <1>2 DEF StartSequence, StartHandler, ReplyEndsRequest, ReplyEndsWait, Replied,
                Launch, Resume, lockVars
  <2>2. loop[m] = "run"
    BY <2>1 DEF Handles, Scheduling
  <2> QED BY <2>1, <2>2, HandledQueues, SamePass
<1>3. ASSUME NEW f \in Fibers, ReplyQueued(m, f) PROVE QueueStep /\ InPass'
  <2>1. Handles(m, "REPLY") /\ UNCHANGED <<inbox, deferred, loop, locked_by, current>>
    BY <1>3 DEF ReplyQueued, Replied, lockVars
  <2> QED BY <2>1, HandledQueues, SamePass
<1> QED BY <1>1, <1>2, <1>3

-----------------------------------------------------------------------------
(* The sequences *)

\* The calls that post: requests, replies to modules, notifications.
LEMMA PostingQueues ==
  ASSUME TypeInv, InPass, NEW m \in Modules, NEW f \in Fibers, NEW c \in Call,
         \/ Request(m, f, c) \/ RequestAsync(m, f, c) \/ Send(m, f, c)
         \/ ReplyToModule(m, f, c)
         \/ \E i \in DOMAIN notify_clients[m] : NotifyOne(m, f, c, i)
  PROVE  QueueStep /\ InPass'
<1>0. TypeOK
  BY DEF TypeInv
<1>1. UNCHANGED <<evs, deferred, loop, locked_by>> /\ (current' = current \/ Yield(m))
  BY DEF Request, RequestAsync, Send, ReplyToModule, NotifyOne, schedVars, lockVars
<1>2. CASE Request(m, f, c) \/ RequestAsync(m, f, c) \/ Send(m, f, c)
  <2> DEFINE rid == next_req_id[m]
  <2>1. rid \in Int /\ c.to \in Int /\ c.seq \in Name
    BY <1>0 DEF TypeOK, Call
  <2>2. StartEv(c.seq, rid, m) \in Event
    BY <2>1, EvType
  <2>3. Post(c.to, StartEv(c.seq, rid, m))
    BY <1>2 DEF Request, RequestAsync, Send
  <2> QED BY <1>0, <1>1, <2>1, <2>2, <2>3, PostedQueues, SamePass
<1>3. CASE ReplyToModule(m, f, c)
  <2>1. fib[f].reply_to \in Int /\ fib[f].reply_req_id \in Int /\ c.arg \in Argument
    BY <1>0, FiberType, ModuleIndex DEF Call
  <2>2. ReplyEv(fib[f].reply_req_id, m, c.arg) \in Event
    BY <2>1, EvType
  <2>3. Post(fib[f].reply_to, ReplyEv(fib[f].reply_req_id, m, c.arg))
    BY <1>3 DEF ReplyToModule
  <2> QED BY <1>0, <1>1, <2>1, <2>2, <2>3, PostedQueues, SamePass
<1>4. ASSUME NEW i \in DOMAIN notify_clients[m], NotifyOne(m, f, c, i)
      PROVE  QueueStep /\ InPass'
  <2> DEFINE l == notify_clients[m][i]
  <2>1. l \in ListenerEntry
    <3>1. notify_clients[m] \in Seq(ListenerEntry)
      BY <1>0 DEF TypeOK
    <3> QED BY <3>1, ElementOfSeq
  <2>2. l.listener_module \in Int /\ l.client_id \in ClientId
    BY <2>1, ModuleIndex DEF ListenerEntry
  <2> HIDE DEF l
  <2>3. NotifyEv(m, l.client_id) \in Event
    BY <2>2, EvType, 0 \in Int
  <2>4. Post(l.listener_module, NotifyEv(m, l.client_id))
    BY <1>4 DEF NotifyOne, l
  <2> QED BY <1>0, <1>1, <2>2, <2>3, <2>4, PostedQueues, SamePass
<1> QED BY <1>2, <1>3, <1>4

\* coseq_lock and coseq_unlock.
LEMMA LockingQueues ==
  ASSUME TypeInv, InPass, NEW m \in Modules, NEW f \in Fibers, NEW c \in Call,
         Lock(m, f, c) \/ Unlock(m, f, c)
  PROVE  QueueStep /\ InPass'
<1>0. TypeOK
  BY DEF TypeInv
<1>1. UNCHANGED <<inbox, evs, deferred, loop, current>> /\ Running(m, f)
  BY DEF Lock, Unlock, Makes, schedVars
<1>2. loop[m] = "run"
  BY <1>1 DEF Running, InPass
<1>3. \E h \in Fibers \cup {NoFiber} : locked_by' = [locked_by EXCEPT ![m] = h]
  BY <1>0 DEF Lock, Unlock, LockAfterUnlock, TypeOK
<1> QED BY <1>0, <1>1, <1>2, <1>3, RelockedQueues, SamePass

\* The calls that touch neither a queue nor the lock.
LEMMA QuietQueues ==
  ASSUME TypeInv, InPass, NEW m \in Modules, NEW f \in Fibers, NEW c \in Call,
         \/ NothingToCollect(m, f, c) \/ CollectQueued(m, f, c) \/ WaitForReply(m, f, c)
         \/ ReplyToExternal(m, f, c) \/ WaitTimeout(m, f, c) \/ Return(m, f, c)
         \/ RegRefused(m, f, c) \/ RegTest(m, f, c) \/ RegWrap(m, f, c)
         \/ RegRead(m, f, c) \/ RegWrite(m, f, c)
         \/ \E cid \in ClientId :
              \/ \E i \in DOMAIN notify_clients[m] : UnregNotify(m, f, c, cid, i)
              \/ UnregUnknown(m, f, c, cid)
         \/ NotifyDone(m, f, c)
  PROVE  QueueStep /\ InPass'
<1>1. UNCHANGED <<inbox, evs, deferred, loop, locked_by>> /\ (current' = current \/ Yield(m))
  BY DEF NothingToCollect, CollectQueued, WaitForReply, ReplyToExternal, WaitTimeout,
         Return, RegRefused, RegTest, RegWrap, RegRead, RegWrite, UnregNotify, UnregUnknown,
         NotifyDone, schedVars, lockVars
<1> QED BY <1>1, SameQueues, SamePass DEF TypeInv

-----------------------------------------------------------------------------
(* Every step *)

\* One thread of the instance: its scheduler or the sequence it runs.
LEMMA ThreadQueues ==
  ASSUME TypeInv, InPass, NEW m \in Modules, Thread(m) \/ SpuriousWake(m)
  PROVE  QueueStep /\ InPass'
<1>1. CASE Sched(m) \/ SpuriousWake(m)
  BY <1>1, LoopQueues, TimerQueues, DeferQueues, EventQueues DEF Sched, TypeInv
<1>2. CASE Sequence(m)
  <2>1. PICK c \in NextCalls(m) : Calls(m, current[m], c) \/ NotifyCalls(m, current[m], c)
    BY <1>2 DEF Sequence
  <2>2. current[m] \in Fibers /\ c \in Call
    BY <1>2, <2>1, CallType DEF Sequence
  <2> QED BY <2>1, <2>2, PostingQueues, LockingQueues, QuietQueues DEF Calls, NotifyCalls
<1> QED BY <1>1, <1>2 DEF Thread

\* Time, the external threads and the owner.
LEMMA OutsideQueues ==
  ASSUME TypeInv, InPass,
         (\E f \in Fibers : TimePasses(f)) \/ (\E c \in Clients : External(c)) \/ Owner
  PROVE  QueueStep /\ InPass'
<1>0. TypeOK
  BY DEF TypeInv
<1>1. UNCHANGED <<loop, current>>
  BY DEF TimePasses, External, RequestSync, ExtRequestAsync, SyncReturns, Owner,
         BeginTeardown, StopModule, FreeModules, schedVars
<1>2. InPass'
  BY <1>1 DEF InPass
<1>3. ASSUME NEW c \in Clients, NEW x \in ExtCalls, RequestSync(c, x) \/ ExtRequestAsync(c, x)
      PROVE  QueueStep
  <2>1. x.to \in Int /\ x.seq \in Name /\ ext_id \in Int
    BY <1>0, ExternalAssumption DEF TypeOK
  <2>2. StartEv(x.seq, ext_id, EXTERNAL) \in Event
    BY <2>1, EvType
  <2>3. /\ Post(x.to, StartEv(x.seq, ext_id, EXTERNAL))
        /\ UNCHANGED <<evs, deferred, loop, locked_by>>
    BY <1>3 DEF RequestSync, ExtRequestAsync, schedVars, lockVars
  <2> QED BY <1>0, <2>1, <2>2, <2>3, PostedQueues
<1>4. ASSUME FreeModules PROVE QueueStep
  <2>1. Queues!DiscardAll
    BY <1>4 DEF FreeModules, Queues!DiscardAll, lockVars
  <2> QED BY <2>1 DEF QueueStep, Queues!Next
<1>5. CASE \/ \E f \in Fibers : TimePasses(f)
           \/ \E c \in Clients : SyncReturns(c)
           \/ BeginTeardown \/ \E m \in Modules : StopModule(m)
  <2>1. UNCHANGED <<inbox, evs, deferred, loop, locked_by>>
    BY <1>5 DEF TimePasses, SyncReturns, BeginTeardown, StopModule, schedVars, lockVars
  <2> QED BY <1>2, <2>1, SameQueues
<1> QED BY <1>2, <1>3, <1>4, <1>5 DEF External, Owner

\* Init and every step of the instance, seen from the queues.
LEMMA QueuesInit == Init => Queues!Init /\ InPass
  BY DEF Init, Queues!Init, InPass

LEMMA QueuesStep == TypeInv /\ InPass /\ [Next]_vars => QueueStep /\ InPass'
<1> SUFFICES ASSUME TypeInv, InPass, [Next]_vars PROVE QueueStep /\ InPass'
  OBVIOUS
<1>1. CASE Next
  BY <1>1, ThreadQueues, OutsideQueues DEF Next
<1>2. CASE UNCHANGED vars
  <2>1. UNCHANGED <<inbox, evs, deferred, loop, locked_by, current>>
    BY <1>2 DEF vars, schedVars, lockVars
  <2> QED BY <2>1, SameQueues DEF InPass
<1> QED BY <1>1, <1>2

\* sched_loop takes the events of a module in the order they were posted, handles
\* each once or puts it aside while the module is locked, puts those back ahead of
\* what came meanwhile, and does not sleep on an event it could take: whatever the
\* number of modules, their sequences, the timers and the external threads.
THEOREM QueuesAreUsedInOrder == Spec => UsesEventQueues
<1>1. TypeInv /\ InPass /\ [Next]_vars => [Queues!Next]_(Queues!vars) /\ InPass'
  BY QueuesStep DEF QueueStep
<1>2. Init => Queues!Init /\ InPass
  BY QueuesInit
<1> QED BY <1>1, <1>2, TypeInvariant, PTL DEF Spec, UsesEventQueues, Queues!Spec
=============================================================================
