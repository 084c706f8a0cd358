------------------------ MODULE CoseqRequestProofs -------------------------
(***************************************************************************)
(* An instance does with the requests of its sequences what RequestReply   *)
(* says: every step is a step of that specification, or changes nothing a  *)
(* sequence can see of its requests.  FiberInv is nearly enough.  What it  *)
(* leaves open is that an answer in a fiber's queue answers a request no   *)
(* other answer in the queue, and no entry of pending, stands for.         *)
(* The second half is about who answers: the source of an answer is a      *)
(* module the sequence asked, and its result one that the sequence asked   *)
(* for replies with.  CalleeInv follows a request from its START to its    *)
(* REPLY, through the inboxes, the batches, the deferred lists and the     *)
(* queues of the fibers.                                                   *)
(***************************************************************************)
EXTENDS CoseqNotifyProofs

-----------------------------------------------------------------------------
(* The accounts of a fiber, as functions of its record and its entries *)

InsideOf(r) == IF "reply" \in r.waits THEN {r.wait_req_id} ELSE {}
OwedTo(r, mine) ==
  {p.req_id : p \in Awaited(r, mine)} \cup {rr.req_id : rr \in ToSet(r.rq)}

\* The answers queued with a fiber, next to the entries of its module and the
\* number the module's next request will have.
RepliesOk(r, entries, n) ==
  /\ \A i \in DOMAIN r.rq :
       /\ r.rq[i].req_id < n
       /\ \A p \in entries : p.req_id # r.rq[i].req_id
  /\ \A i, j \in DOMAIN r.rq : r.rq[i].req_id = r.rq[j].req_id => i = j

RepliesInv ==
  \A m \in Modules : \A f \in Live(m) : RepliesOk(fib[f], pending[m], next_req_id[m])

\* The entries left when the one with the number id is taken.
Without(entries, id) == {q \in entries : q.req_id # id}

\* What is in a sequence that grew at its end.
LEMMA AppendedSet ==
  ASSUME NEW S, NEW q \in Seq(S), NEW x \in S
  PROVE  /\ Append(q, x) \in Seq(S) /\ Len(Append(q, x)) = Len(q) + 1 /\ Len(q) \in Nat
         /\ DOMAIN q = 1..Len(q) /\ DOMAIN Append(q, x) = 1..(Len(q) + 1)
         /\ \A i \in 1..Len(q) : Append(q, x)[i] = q[i]
         /\ Append(q, x)[Len(q) + 1] = x
         /\ ToSet(Append(q, x)) = ToSet(q) \cup {x}
<1> DEFINE n == Len(q)
           t == Append(q, x)
<1>1. /\ t \in Seq(S) /\ Len(t) = n + 1 /\ n \in Nat
      /\ \A i \in 1..n : t[i] = q[i]
      /\ t[n + 1] = x /\ DOMAIN q = 1..n /\ DOMAIN t = 1..(n + 1)
  BY AppendProperties, LenProperties
<1> HIDE DEF n, t
<1>2. \A i \in 1..(n + 1) : i \in 1..n \/ i = n + 1
  BY <1>1
<1>3. 1..n \subseteq 1..(n + 1) /\ n + 1 \in 1..(n + 1)
  BY <1>1
<1>4. ToSet(t) = ToSet(q) \cup {x}
  BY <1>1, <1>2, <1>3 DEF ToSet
<1> QED BY <1>1, <1>4 DEF n, t

\* A request that is over, answered or given up, was none of those owed.
LEMMA OverAccount ==
  ASSUME NEW r, NEW mine, "reply" \in r.waits,
         NEW s, s.waits = {}, s.rq = r.rq
  PROVE  /\ InsideOf(r) = {r.wait_req_id} /\ InsideOf(s) = {}
         /\ OwedTo(s, Without(mine, r.wait_req_id)) = OwedTo(r, mine)
<1>1. Awaited(s, Without(mine, r.wait_req_id)) = Awaited(r, mine)
  BY DEF Awaited, Without
<1> QED BY <1>1 DEF OwedTo, InsideOf

\* No answer queued is for a request that is pending.
LEMMA QueuedApart ==
  ASSUME NEW r, NEW mine, NEW n, RepliesOk(r, mine, n), NEW p \in mine
  PROVE  \A rr \in ToSet(r.rq) : rr.req_id # p.req_id
  BY DEF ToSet, RepliesOk

\* coseq_wait_reply woken by the answer it is handed.
LEMMA HandedAccount ==
  ASSUME NEW r, NEW mine, "reply" \notin r.waits, NEW p \in mine,
         \A rr \in ToSet(r.rq) : rr.req_id # p.req_id,
         NEW s, s.waits = {}, s.rq = r.rq
  PROVE  /\ InsideOf(r) = {} /\ InsideOf(s) = {} /\ p.req_id \in OwedTo(r, mine)
         /\ OwedTo(s, Without(mine, p.req_id)) = OwedTo(r, mine) \ {p.req_id}
<1>1. /\ Awaited(s, Without(mine, p.req_id)) = Without(mine, p.req_id)
      /\ Awaited(r, mine) = mine
  BY DEF Awaited, Without
<1> QED BY <1>1 DEF OwedTo, InsideOf, Without

\* An answer that waits in the queue instead of in pending.
LEMMA QueuedAccount ==
  ASSUME NEW r, NEW mine, NEW p \in Awaited(r, mine),
         NEW s, s.waits = r.waits, s.wait_req_id = r.wait_req_id,
         \E x : x.req_id = p.req_id /\ ToSet(s.rq) = ToSet(r.rq) \cup {x}
  PROVE  /\ InsideOf(s) = InsideOf(r)
         /\ OwedTo(s, Without(mine, p.req_id)) = OwedTo(r, mine)
<1>1. Awaited(s, Without(mine, p.req_id)) = Without(Awaited(r, mine), p.req_id)
  BY DEF Awaited, Without
<1> QED BY <1>1 DEF OwedTo, InsideOf, Without

\* coseq_wait_reply that takes the first answer of the queue.
LEMMA TakenAccount ==
  ASSUME NEW r, NEW mine, NEW n, r.waits = {}, RepliesOk(r, mine, n),
         NEW S, r.rq \in Seq(S), r.rq # <<>>,
         NEW s, s.waits = r.waits, s.rq = Tail(r.rq)
  PROVE  /\ InsideOf(r) = {} /\ InsideOf(s) = {}
         /\ Head(r.rq).req_id \in OwedTo(r, mine)
         /\ OwedTo(s, mine) = OwedTo(r, mine) \ {Head(r.rq).req_id}
<1> DEFINE h == Head(r.rq)
<1>1. Awaited(s, mine) = mine /\ Awaited(r, mine) = mine
  BY DEF Awaited
<1>2. /\ Len(r.rq) \in Nat /\ Len(r.rq) # 0 /\ DOMAIN r.rq = 1..Len(r.rq) /\ h = r.rq[1]
      /\ Len(s.rq) = Len(r.rq) - 1 /\ DOMAIN s.rq = 1..(Len(r.rq) - 1)
      /\ \A i \in 1..(Len(r.rq) - 1) : s.rq[i] = r.rq[i + 1]
  BY HeadTailProperties, LenProperties, EmptySeq
<1>3. ToSet(r.rq) = ToSet(s.rq) \cup {h}
  <2>1. 1 \in DOMAIN r.rq /\ \A i \in DOMAIN s.rq : i + 1 \in DOMAIN r.rq
    BY <1>2
  <2>2. \A i \in DOMAIN r.rq : i = 1 \/ (i - 1 \in DOMAIN s.rq /\ s.rq[i - 1] = r.rq[i])
    BY <1>2
  <2> QED BY <1>2, <2>1, <2>2 DEF ToSet
<1>4. \A x \in ToSet(s.rq) : x.req_id # h.req_id
  <2>1. \A i \in DOMAIN s.rq : i + 1 \in DOMAIN r.rq /\ 1 \in DOMAIN r.rq /\ i + 1 # 1
    BY <1>2
  <2> QED BY <1>2, <2>1 DEF ToSet, RepliesOk
<1>5. \A p \in mine : p.req_id # h.req_id
  <2>1. 1 \in DOMAIN r.rq
    BY <1>2
  <2> QED BY <1>2, <2>1 DEF RepliesOk
<1> HIDE DEF h
<1> QED BY <1>1, <1>3, <1>4, <1>5 DEF OwedTo, InsideOf, h

\* request_common, for an asynchronous request.
LEMMA AskedAsyncAccount ==
  ASSUME NEW r, NEW mine, r.waits = {}, NEW p, NEW s, s.rq = r.rq, s.waits = {}
  PROVE  InsideOf(s) = {} /\ OwedTo(s, mine \cup {p}) = OwedTo(r, mine) \cup {p.req_id}
<1>1. Awaited(r, mine) = mine /\ Awaited(s, mine \cup {p}) = mine \cup {p}
  BY DEF Awaited
<1> QED BY <1>1 DEF OwedTo, InsideOf

\* A fiber in no request, before and after.
LEMMA SameAccount ==
  ASSUME NEW r, NEW mine, "reply" \notin r.waits, NEW s, "reply" \notin s.waits, s.rq = r.rq
  PROVE  InsideOf(s) = InsideOf(r) /\ OwedTo(s, mine) = OwedTo(r, mine)
<1>1. Awaited(s, mine) = mine /\ Awaited(r, mine) = mine
  BY DEF Awaited
<1> QED BY <1>1 DEF OwedTo, InsideOf

-----------------------------------------------------------------------------
(* The answers in a queue stay apart *)

\* Fewer entries, or one more with a number that is new.
LEMMA StayApart ==
  ASSUME NEW r, NEW entries, NEW n \in Nat, RepliesOk(r, entries, n),
         \A i \in DOMAIN r.rq : r.rq[i].req_id \in Int,
         NEW s, s.rq = r.rq, NEW k \in {n, n + 1},
         NEW others, \A p \in others : p \in entries \/ p.req_id = n
  PROVE  RepliesOk(s, others, k)
<1>1. \A i \in DOMAIN r.rq : r.rq[i].req_id < k /\ r.rq[i].req_id # n
  BY DEF RepliesOk
<1> QED BY <1>1 DEF RepliesOk

\* An answer joins the queue as its entry goes.
LEMMA JoinApart ==
  ASSUME NEW r, NEW entries, NEW n, RepliesOk(r, entries, n),
         NEW S, r.rq \in Seq(S), NEW x \in S, x.req_id < n,
         \E p \in entries : p.req_id = x.req_id,
         NEW s, s.rq = Append(r.rq, x)
  PROVE  RepliesOk(s, Without(entries, x.req_id), n)
<1>1. /\ Len(r.rq) \in Nat
      /\ DOMAIN r.rq = 1..Len(r.rq) /\ DOMAIN s.rq = 1..(Len(r.rq) + 1)
      /\ \A i \in 1..Len(r.rq) : s.rq[i] = r.rq[i]
      /\ s.rq[Len(r.rq) + 1] = x
  BY AppendedSet
<1>2. \A i \in DOMAIN s.rq : i \in DOMAIN r.rq \/ i = Len(r.rq) + 1
  BY <1>1
<1>3. \A i \in DOMAIN r.rq : r.rq[i].req_id # x.req_id /\ i # Len(r.rq) + 1 /\ s.rq[i] = r.rq[i]
  BY <1>1 DEF RepliesOk
<1>4. \A i \in DOMAIN s.rq :
        /\ s.rq[i].req_id < n
        /\ \A p \in Without(entries, x.req_id) : p.req_id # s.rq[i].req_id
  BY <1>1, <1>2, <1>3 DEF RepliesOk, Without
<1>5. ASSUME NEW i \in DOMAIN s.rq, NEW j \in DOMAIN s.rq, s.rq[i].req_id = s.rq[j].req_id
      PROVE  i = j
  <2>1. CASE i \in DOMAIN r.rq /\ j \in DOMAIN r.rq
    BY <1>3, <1>5, <2>1 DEF RepliesOk
  <2>2. CASE i = Len(r.rq) + 1 \/ j = Len(r.rq) + 1
    BY <1>1, <1>2, <1>3, <1>5, <2>2
  <2> QED BY <1>2, <2>1, <2>2
<1> QED BY <1>4, <1>5 DEF RepliesOk

\* The first one leaves.
LEMMA LeaveApart ==
  ASSUME NEW r, NEW entries, NEW n, RepliesOk(r, entries, n),
         NEW S, r.rq \in Seq(S), r.rq # <<>>,
         NEW s, s.rq = Tail(r.rq)
  PROVE  RepliesOk(s, entries, n)
<1>1. /\ Len(r.rq) \in Nat /\ DOMAIN r.rq = 1..Len(r.rq)
      /\ Len(s.rq) = Len(r.rq) - 1 /\ DOMAIN s.rq = 1..(Len(r.rq) - 1)
      /\ \A i \in 1..(Len(r.rq) - 1) : s.rq[i] = r.rq[i + 1]
  BY HeadTailProperties, LenProperties, EmptySeq
<1>2. \A i \in DOMAIN s.rq : i \in Int /\ i + 1 \in DOMAIN r.rq /\ s.rq[i] = r.rq[i + 1]
  BY <1>1
<1>3. \A i \in DOMAIN s.rq :
        s.rq[i].req_id < n /\ \A p \in entries : p.req_id # s.rq[i].req_id
  BY <1>2 DEF RepliesOk
<1>4. ASSUME NEW i \in DOMAIN s.rq, NEW j \in DOMAIN s.rq, s.rq[i].req_id = s.rq[j].req_id
      PROVE  i = j
  <2>1. i + 1 = j + 1
    BY <1>2, <1>4 DEF RepliesOk
  <2> QED BY <1>2, <2>1
<1> QED BY <1>3, <1>4 DEF RepliesOk

-----------------------------------------------------------------------------
(* A step seen from RequestReply *)

ReqStep == [Requests!Next]_(Requests!vars)

\* The accounts a module keeps of a fiber are those of its record, if it is in the
\* list.
LEMMA Accounts ==
  ASSUME NEW m \in Modules, NEW f \in Fibers
  PROVE  /\ Asking[m] = Live(m) /\ Handed[f] = fib[f].src.req_id
         /\ Inside[m][f] = IF f \in Live(m) THEN InsideOf(fib[f]) ELSE {}
         /\ Owed[m][f] = IF f \in Live(m) THEN OwedTo(fib[f], Mine(m, f)) ELSE {}
<1>1. AsyncPending(m, f) = Awaited(fib[f], Mine(m, f))
  BY DEF AsyncPending, Awaited, Mine
<1>2. Owed[m][f] =
        IF f \in Live(m)
        THEN {p.req_id : p \in AsyncPending(m, f)} \cup {rr.req_id : rr \in ToSet(fib[f].rq)}
        ELSE {}
  BY DEF Owed
<1> QED BY <1>1, <1>2 DEF Asking, Handed, Inside, InsideOf, OwedTo

\* The same, of the accounts after a step.
LEMMA AccountsNext ==
  ASSUME NEW m \in Modules, NEW f \in Fibers
  PROVE  /\ Inside'[m][f] = IF f \in Live(m)' THEN InsideOf(fib'[f]) ELSE {}
         /\ Owed'[m][f] = IF f \in Live(m)' THEN OwedTo(fib'[f], Mine(m, f)') ELSE {}
<1>1. AsyncPending(m, f)' = Awaited(fib'[f], Mine(m, f)')
  BY DEF AsyncPending, Awaited, Mine
<1>2. Owed'[m][f] =
        IF f \in Live(m)'
        THEN {p.req_id : p \in AsyncPending(m, f)'} \cup {rr.req_id : rr \in ToSet(fib'[f].rq)}
        ELSE {}
  BY DEF Owed
<1> QED BY <1>1, <1>2 DEF Inside, InsideOf, OwedTo

\* A table of modules and fibers.
Table(F) == F = [m \in Modules |-> [f \in Fibers |-> F[m][f]]]

\* What the accounts are functions of, before and after a step.
LEMMA Tables ==
  /\ Table(Inside) /\ Table(Owed) /\ Table(Inside)' /\ Table(Owed)'
  /\ Asking = [m \in Modules |-> Live(m)] /\ Asking' = [m \in Modules |-> Live(m)']
  /\ Handed = [f \in Fibers |-> fib[f].src.req_id]
  /\ Handed' = [f \in Fibers |-> fib'[f].src.req_id]
  BY DEF Table, Inside, Owed, Asking, Handed

\* The tables stay if their entries do.
LEMMA TablesStay ==
  ASSUME \A m \in Modules : \A f \in Fibers :
           Inside'[m][f] = Inside[m][f] /\ Owed'[m][f] = Owed[m][f]
  PROVE  Inside' = Inside /\ Owed' = Owed
<1>1. /\ Table(Inside) /\ Table(Owed)
      /\ Inside' = [n \in Modules |-> [g \in Fibers |-> Inside'[n][g]]]
      /\ Owed' = [n \in Modules |-> [g \in Fibers |-> Owed'[n][g]]]
  BY Tables DEF Table
<1>2. Inside' = [n \in Modules |-> [g \in Fibers |-> Inside[n][g]]]
  BY <1>1
<1>3. Owed' = [n \in Modules |-> [g \in Fibers |-> Owed[n][g]]]
  BY <1>1
<1> QED BY <1>1, <1>2, <1>3 DEF Table

\* F with one entry changed.
Updated(F, m, f, X) == [F EXCEPT ![m][f] = X]

\* A table that differs from F in one place is F with that entry changed.
LEMMA OneEntry ==
  ASSUME NEW F, NEW G, Table(F), Table(G), NEW m \in Modules, NEW f \in Fibers, NEW X,
         G[m][f] = X,
         \A n \in Modules : \A g \in Fibers : n # m \/ g # f => G[n][g] = F[n][g]
  PROVE  G = Updated(F, m, f, X)
<1> DEFINE H == [F EXCEPT ![m][f] = X]
<1>1. H = [F EXCEPT ![m] = [F[m] EXCEPT ![f] = X]]
  OBVIOUS
<1>2. DOMAIN F = Modules /\ DOMAIN F[m] = Fibers /\ F[m] = [g \in Fibers |-> F[m][g]]
  BY DEF Table
<1>3. H[m] = [g \in Fibers |-> IF g = f THEN X ELSE F[m][g]]
  BY <1>1, <1>2
<1>4. \A n \in Modules \ {m} : H[n] = F[n]
  BY <1>1, <1>2
<1>5. G[m] = H[m]
  BY <1>3 DEF Table
<1>6. \A n \in Modules \ {m} : G[n] = F[n]
  BY DEF Table
<1>7. DOMAIN G = Modules /\ DOMAIN H = Modules /\ G = [n \in Modules |-> G[n]]
      /\ H = [n \in Modules |-> H[n]]
  BY <1>1, <1>2 DEF Table
<1>8. \A n \in Modules : G[n] = H[n]
  BY <1>4, <1>5, <1>6
<1> QED BY <1>7, <1>8 DEF Updated

\* A step that leaves lists, records and entries alone.
LEMMA NothingAsked ==
  ASSUME UNCHANGED <<fib, fibers, pending, next_req_id>>
  PROVE  UNCHANGED <<Asking, Inside, Owed, Handed>>
         /\ (RepliesInv => RepliesInv')
  BY DEF Asking, Inside, Owed, Handed, AsyncPending, Live, RepliesInv

\* The thread of m changes the record of one of its fibers; its entries in pending
\* may change, those of the other fibers do not.
ChangesOne(m, f, r) ==
  /\ fib' = [fib EXCEPT ![f] = r] /\ fibers' = fibers
  /\ \A n \in Modules \ {m} : pending'[n] = pending[n] /\ next_req_id'[n] = next_req_id[n]
  /\ next_req_id'[m] \in {next_req_id[m], next_req_id[m] + 1}
  /\ \A p \in pending'[m] : p \in pending[m] \/ p.req_id = next_req_id[m]
  /\ \A g \in Live(m) \ {f} : Mine(m, g)' = Mine(m, g)
  /\ RepliesOk(r, pending'[m], next_req_id'[m])

\* Then nothing but the accounts of that fiber changes, and the queues stay apart.
LEMMA OneAccount ==
  ASSUME TypeInv, FiberInv, RepliesInv, NEW m \in Modules, NEW f \in Live(m),
         NEW r, ChangesOne(m, f, r)
  PROVE  /\ f \in Fibers /\ Asking' = Asking
         /\ Inside' = Updated(Inside, m, f, InsideOf(r))
         /\ Owed' = Updated(Owed, m, f, OwedTo(r, Mine(m, f)'))
         /\ Handed' = [Handed EXCEPT ![f] = r.src.req_id]
         /\ RepliesInv'
<1>0. /\ fib' = [fib EXCEPT ![f] = r] /\ fibers' = fibers
      /\ \A n \in Modules \ {m} : pending'[n] = pending[n] /\ next_req_id'[n] = next_req_id[n]
      /\ next_req_id'[m] \in {next_req_id[m], next_req_id[m] + 1}
      /\ \A p \in pending'[m] : p \in pending[m] \/ p.req_id = next_req_id[m]
      /\ \A g \in Live(m) \ {f} : Mine(m, g)' = Mine(m, g)
      /\ RepliesOk(r, pending'[m], next_req_id'[m])
  BY DEF ChangesOne
<1>1. /\ fib \in [Fibers -> Fiber] /\ f \in Fibers /\ next_req_id[m] \in Nat
      /\ \A n \in Modules : Live(n) \subseteq Fibers /\ Live(n)' = Live(n)
  BY <1>0, RefersType DEF TypeInv, TypeOK, Refers, Live
<1>2. fib'[f] = r /\ \A g \in Fibers \ {f} : fib'[g] = fib[g]
  BY <1>0, <1>1
<1>3. \A n \in Modules \ {m} : f \notin Live(n)
  BY DEF FiberInv, HeapOk
<1>4. ASSUME NEW n \in Modules, NEW g \in Fibers, n # m \/ g # f
      PROVE  Inside'[n][g] = Inside[n][g] /\ Owed'[n][g] = Owed[n][g]
  <2>1. Mine(n, g)' = Mine(n, g) \/ g \notin Live(n)
    BY <1>0, <1>4 DEF Mine
  <2>2. g \in Live(n) => fib'[g] = fib[g]
    BY <1>2, <1>3, <1>4
  <2>3. /\ Inside'[n][g] = IF g \in Live(n)' THEN InsideOf(fib'[g]) ELSE {}
        /\ Owed'[n][g] = IF g \in Live(n)' THEN OwedTo(fib'[g], Mine(n, g)') ELSE {}
    BY AccountsNext
  <2>4. /\ Inside[n][g] = IF g \in Live(n) THEN InsideOf(fib[g]) ELSE {}
        /\ Owed[n][g] = IF g \in Live(n) THEN OwedTo(fib[g], Mine(n, g)) ELSE {}
    BY Accounts
  <2> QED BY <1>1, <2>1, <2>2, <2>3, <2>4
<1>5. Inside'[m][f] = InsideOf(r) /\ Owed'[m][f] = OwedTo(r, Mine(m, f)')
  <2>1. /\ Inside'[m][f] = IF f \in Live(m)' THEN InsideOf(fib'[f]) ELSE {}
        /\ Owed'[m][f] = IF f \in Live(m)' THEN OwedTo(fib'[f], Mine(m, f)') ELSE {}
    BY <1>1, AccountsNext
  <2> QED BY <1>1, <1>2, <2>1
<1>a. /\ Table(Inside) /\ Table(Owed)
      /\ Inside' = [n \in Modules |-> [g \in Fibers |-> Inside'[n][g]]]
      /\ Owed' = [n \in Modules |-> [g \in Fibers |-> Owed'[n][g]]]
  BY Tables DEF Table
<1>b. ASSUME NEW G, G = [n \in Modules |-> [g \in Fibers |-> G[n][g]]]
      PROVE  Table(G)
  BY <1>b DEF Table
<1>6. Inside' = Updated(Inside, m, f, InsideOf(r))
  <2> DEFINE G == Inside'
  <2>1. Table(G)
    BY <1>a, <1>b
  <2>2. \A n \in Modules : \A g \in Fibers : n # m \/ g # f => G[n][g] = Inside[n][g]
    BY <1>4
  <2>3. G[m][f] = InsideOf(r) /\ f \in Fibers
    BY <1>1, <1>5
  <2> HIDE DEF G
  <2>4. G = Updated(Inside, m, f, InsideOf(r))
    BY <1>a, <2>1, <2>2, <2>3, OneEntry
  <2> QED BY <2>4 DEF G
<1>7. Owed' = Updated(Owed, m, f, OwedTo(r, Mine(m, f)'))
  <2> DEFINE G == Owed'
             X == OwedTo(r, Mine(m, f)')
  <2>1. Table(G)
    BY <1>a, <1>b
  <2>2. \A n \in Modules : \A g \in Fibers : n # m \/ g # f => G[n][g] = Owed[n][g]
    BY <1>4
  <2>3. G[m][f] = X /\ f \in Fibers
    BY <1>1, <1>5
  <2> HIDE DEF G, X
  <2>4. G = Updated(Owed, m, f, X)
    BY <1>a, <2>1, <2>2, <2>3, OneEntry
  <2> QED BY <2>4 DEF G, X
<1>8. Handed' = [Handed EXCEPT ![f] = r.src.req_id] /\ Asking' = Asking
  BY <1>1, <1>2, Tables
<1>9. RepliesInv'
  <2> SUFFICES ASSUME NEW n \in Modules, NEW g \in Live(n)
               PROVE  RepliesOk(fib'[g], pending'[n], next_req_id'[n])
    BY <1>1 DEF RepliesInv, RepliesOk
  <2>1. CASE n # m
    <3>1. fib'[g] = fib[g] /\ pending'[n] = pending[n] /\ next_req_id'[n] = next_req_id[n]
      BY <1>0, <1>1, <1>2, <1>3, <2>1
    <3> QED BY <3>1 DEF RepliesInv
  <2>2. CASE n = m /\ g = f
    BY <1>0, <1>2, <2>2
  <2>3. CASE n = m /\ g # f
    <3>1. g \in Fibers /\ g \in Live(m) /\ fib'[g] = fib[g] /\ fib[g] \in Fiber
          /\ RepliesOk(fib[g], pending[m], next_req_id[m])
      BY <1>1, <1>2, <2>3 DEF RepliesInv
    <3>2. \A i \in DOMAIN fib[g].rq : fib[g].rq[i].req_id \in Int
      <4>1. fib[g].rq \in Seq([req_id : Int, result : Argument])
        BY <3>1 DEF Fiber
      <4>2. \A i \in DOMAIN fib[g].rq : fib[g].rq[i] \in [req_id : Int, result : Argument]
        BY <4>1, ElementOfSeq, LenProperties
      <4> QED BY <4>2
    <3>3. RepliesOk(fib[g], pending'[m], next_req_id'[m])
      BY <1>0, <1>1, <3>1, <3>2, StayApart
    <3> QED BY <2>3, <3>1, <3>3
  <2> QED BY <2>1, <2>2, <2>3
<1> QED BY <1>1, <1>6, <1>7, <1>8, <1>9

-----------------------------------------------------------------------------
(* Steps of RequestReply *)

\* An entry changed to what it was.
LEMMA SameEntry ==
  ASSUME NEW F, Table(F), NEW m \in Modules, NEW f \in Fibers
  PROVE  Updated(F, m, f, F[m][f]) = F
<1>1. /\ DOMAIN F = Modules /\ F[m] = [g \in Fibers |-> F[m][g]]
      /\ F = [n \in Modules |-> F[n]]
  BY DEF Table
<1>2. [F[m] EXCEPT ![f] = F[m][f]] = F[m]
  BY <1>1
<1> QED BY <1>1, <1>2 DEF Updated

\* Nothing of the requests changes.
LEMMA NoRequestStep ==
  ASSUME UNCHANGED <<Asking, Inside, Owed, Handed, next_req_id>>
  PROVE  ReqStep
  BY DEF ReqStep, Requests!vars

\* A request that was waited for is over: ComeBack.
LEMMA ComesBack ==
  ASSUME NEW m \in Modules, NEW f \in Fibers, NEW id, f \in Asking[m],
         Inside[m][f] = {id}, Asking' = Asking, Owed' = Owed, next_req_id' = next_req_id,
         Inside' = Updated(Inside, m, f, {}), Handed' = [Handed EXCEPT ![f] = id]
  PROVE  ReqStep
<1>1. Requests!ComeBack(m, f)
  BY DEF Requests!ComeBack, Updated
<1> QED BY <1>1 DEF ReqStep, Requests!Next

\* An answer is handed to a sequence that is in no request: Collect.
LEMMA TakesOne ==
  ASSUME NEW m \in Modules, NEW f \in Fibers, NEW id \in Owed[m][f], f \in Asking[m],
         Inside[m][f] = {}, Asking' = Asking, Inside' = Inside, next_req_id' = next_req_id,
         Owed' = Updated(Owed, m, f, Owed[m][f] \ {id}), Handed' = [Handed EXCEPT ![f] = id]
  PROVE  ReqStep
<1>1. Requests!Collect(m, f)
  BY DEF Requests!Collect, Requests!Runs, Updated
<1> QED BY <1>1 DEF ReqStep, Requests!Next

\* A request is made: Ask, AskAsync or Tell.
LEMMA Asks ==
  ASSUME NEW m \in Modules, NEW f \in Fibers, f \in Asking[m], Inside[m][f] = {},
         Asking' = Asking, Handed' = Handed,
         next_req_id' = [next_req_id EXCEPT ![m] = @ + 1],
         \/ Inside' = Updated(Inside, m, f, {next_req_id[m]}) /\ Owed' = Owed
         \/ Inside' = Inside /\ Owed' = Owed
         \/ /\ Inside' = Inside
            /\ Owed' = Updated(Owed, m, f, Owed[m][f] \cup {next_req_id[m]})
  PROVE  ReqStep
<1>1. Requests!Ask(m, f) \/ Requests!Tell(m, f) \/ Requests!AskAsync(m, f)
  BY DEF Requests!Ask, Requests!Tell, Requests!AskAsync, Requests!Runs, Requests!NewNumber,
         Updated
<1> QED BY <1>1 DEF ReqStep, Requests!Next

-----------------------------------------------------------------------------
(* The scheduler *)

\* The queue of a live fiber.
LEMMA QueueOf ==
  ASSUME TypeInv, RepliesInv, NEW m \in Modules, NEW f \in Live(m)
  PROVE  /\ f \in Fibers /\ fib[f] \in Fiber /\ next_req_id[m] \in Nat
         /\ fib[f].rq \in Seq([req_id : Int, result : Argument])
         /\ \A i \in DOMAIN fib[f].rq : fib[f].rq[i].req_id \in Int
         /\ RepliesOk(fib[f], pending[m], next_req_id[m])
         /\ RepliesOk(fib[f], Mine(m, f), next_req_id[m])
         /\ Inside[m][f] = InsideOf(fib[f]) /\ Owed[m][f] = OwedTo(fib[f], Mine(m, f))
         /\ Handed[f] = fib[f].src.req_id /\ f \in Asking[m]
<1>1. f \in Fibers /\ fib[f] \in Fiber /\ next_req_id[m] \in Nat
  BY RefersType DEF TypeInv, TypeOK, Refers
<1>2. fib[f].rq \in Seq([req_id : Int, result : Argument])
  BY <1>1 DEF Fiber
<1>3. \A i \in DOMAIN fib[f].rq : fib[f].rq[i] \in [req_id : Int, result : Argument]
  BY <1>2, ElementOfSeq, LenProperties
<1>4. RepliesOk(fib[f], pending[m], next_req_id[m])
  BY DEF RepliesInv
<1>5. RepliesOk(fib[f], Mine(m, f), next_req_id[m])
  BY <1>4 DEF RepliesOk, Mine
<1> QED BY <1>1, <1>2, <1>3, <1>4, <1>5, Accounts

\* A fiber resumed because its timer expired.
LEMMA TimerRequest ==
  ASSUME TypeInv, FiberInv, RepliesInv, NEW m \in Modules, NEW f \in Fibers, TimerFires(m, f)
  PROVE  ReqStep /\ RepliesInv'
<1> DEFINE r == [AfterTimer(f) EXCEPT !.waits = {}]
           id == fib[f].wait_req_id
<1>1. /\ current[m] = NoFiber /\ f \in due[m] /\ UNCHANGED <<fibers, next_req_id>>
      /\ fib' = [fib EXCEPT ![f] = r] /\ pending' = PendingAfterTimer(m, f)
  BY DEF TimerFires, Scheduling, Resume
<1>2. f \in Live(m)
  BY <1>1 DEF FiberInv, ThreadOk, SchedulerOk
<1>3. fib[f] \in Fiber /\ PendingOk(m) /\ RecordOk(f, fib[f], Mine(m, f), FALSE)
  BY <1>1, <1>2, Parked
<1>4. /\ r.waits = {} /\ r.rq = fib[f].rq
      /\ "reply" \in fib[f].waits => r.src.req_id = id
      /\ "reply" \notin fib[f].waits => r.src.req_id = fib[f].src.req_id
  BY <1>3 DEF AfterTimer, Fiber, Src
<1> HIDE DEF r, id
<1>a. /\ f \in Fibers /\ next_req_id[m] \in Nat /\ f \in Asking[m]
      /\ \A i \in DOMAIN fib[f].rq : fib[f].rq[i].req_id \in Int
      /\ RepliesOk(fib[f], pending[m], next_req_id[m])
      /\ Inside[m][f] = InsideOf(fib[f])
      /\ Owed[m][f] = OwedTo(fib[f], Mine(m, f))
      /\ Handed[f] = fib[f].src.req_id
  BY <1>2, QueueOf
<1>b. Table(Inside) /\ Table(Owed) /\ [Handed EXCEPT ![f] = Handed[f]] = Handed
  BY Tables
<1>c. /\ \A n \in Modules \ {m} : next_req_id'[n] = next_req_id[n]
      /\ next_req_id'[m] \in {next_req_id[m], next_req_id[m] + 1}
  BY <1>1
<1>5. CASE "reply" \in fib[f].waits
  <2>1. PICK p \in pending[m] : p.f = f /\ p.req_id = id
    BY <1>3, <1>5 DEF RecordOk, Mine, Pending, id
  <2>2. pending' = PendingTake(m, p.req_id)
    BY <1>1, <1>5, <2>1 DEF PendingAfterTimer, id
  <2>3. /\ \A n \in Modules \ {m} : pending'[n] = pending[n]
        /\ \A g \in Live(m) \ {f} : Mine(m, g)' = Mine(m, g)
        /\ Mine(m, f)' = Without(Mine(m, f), id)
    BY <1>1, <1>3, <2>1, <2>2, TakeOne DEF Without
  <2>4. pending'[m] \subseteq pending[m]
    BY <2>2 DEF PendingTake, TypeInv, TypeOK
  <2>5. RepliesOk(r, pending'[m], next_req_id'[m])
    BY <1>1, <1>a, <1>4, <2>4, StayApart
  <2>6. /\ Asking' = Asking /\ Inside' = Updated(Inside, m, f, InsideOf(r))
        /\ Owed' = Updated(Owed, m, f, OwedTo(r, Mine(m, f)'))
        /\ Handed' = [Handed EXCEPT ![f] = r.src.req_id] /\ RepliesInv'
    <3>1. ChangesOne(m, f, r)
      BY <1>1, <1>c, <2>3, <2>4, <2>5 DEF ChangesOne
    <3> QED BY <1>2, <3>1, OneAccount
  <2>7. /\ InsideOf(fib[f]) = {id} /\ InsideOf(r) = {}
        /\ OwedTo(r, Mine(m, f)') = OwedTo(fib[f], Mine(m, f))
    <3>1. /\ InsideOf(fib[f]) = {id} /\ InsideOf(r) = {}
          /\ OwedTo(r, Without(Mine(m, f), fib[f].wait_req_id))
               = OwedTo(fib[f], Mine(m, f))
      BY <1>4, <1>5, OverAccount DEF id
    <3> QED BY <2>3, <3>1 DEF id
  <2>8. Owed' = Owed
    BY <1>a, <1>b, <2>6, <2>7, SameEntry
  <2> QED BY <1>1, <1>a, <1>4, <1>5, <2>6, <2>7, <2>8, ComesBack
<1>6. CASE "reply" \notin fib[f].waits
  <2>1. pending' = pending
    BY <1>1, <1>6 DEF PendingAfterTimer
  <2>2. \A g : Mine(m, g)' = Mine(m, g)
    BY <2>1 DEF Mine
  <2>3. RepliesOk(r, pending'[m], next_req_id'[m])
    BY <1>1, <1>a, <1>4, <2>1, StayApart
  <2>4. /\ Asking' = Asking /\ Inside' = Updated(Inside, m, f, InsideOf(r))
        /\ Owed' = Updated(Owed, m, f, OwedTo(r, Mine(m, f)'))
        /\ Handed' = [Handed EXCEPT ![f] = r.src.req_id] /\ RepliesInv'
    <3>1. ChangesOne(m, f, r)
      BY <1>1, <1>c, <2>1, <2>2, <2>3 DEF ChangesOne
    <3> QED BY <1>2, <3>1, OneAccount
  <2>5. InsideOf(r) = InsideOf(fib[f]) /\ OwedTo(r, Mine(m, f)') = OwedTo(fib[f], Mine(m, f))
    BY <1>4, <1>6, <2>2, SameAccount
  <2>6. Owed' = Owed /\ Inside' = Inside /\ Handed' = Handed
    BY <1>a, <1>b, <1>4, <1>6, <2>4, <2>5, SameEntry
  <2> QED BY <1>1, <2>4, <2>6, NoRequestStep
<1> QED BY <1>5, <1>6

\* A reply ends the request its fiber is in, is handed to a fiber in
\* coseq_wait_reply, or is queued, which changes nothing a sequence can see.
LEMMA ReplyRequest ==
  ASSUME TypeInv, FiberInv, RepliesInv, NEW m \in Modules, NEW f \in Fibers,
         ReplyEndsRequest(m, f) \/ ReplyEndsWait(m, f) \/ ReplyQueued(m, f)
  PROVE  ReqStep /\ RepliesInv'
<1> DEFINE e == Head(evs[m])
           id == e.req_id
           p == Pending(id, f)
           x == [req_id |-> e.req_id, result |-> e.result]
           r1 == [[fib[f] EXCEPT !.src = ReplySrc(e)] EXCEPT !.waits = {}]
           r2 == [[fib[f] EXCEPT !.src = ReplySrc(e), !.async_outstanding = @ - 1]
                    EXCEPT !.waits = {}]
           r3 == [fib[f] EXCEPT !.rq = Append(@, x)]
<1>1. /\ current[m] = NoFiber /\ p \in pending[m] /\ p.f = f /\ p.req_id = id
      /\ pending' = PendingTake(m, id) /\ UNCHANGED <<fibers, next_req_id>>
      /\ Handles(m, "REPLY")
  BY DEF ReplyEndsRequest, ReplyEndsWait, ReplyQueued, Replied, Handles, Scheduling,
         AwaitedBy, Pending
<1>a. ReplyEndsRequest(m, f) =>
        /\ "reply" \in fib[f].waits /\ fib[f].wait_req_id = id
        /\ fib' = [fib EXCEPT ![f] = r1]
  BY DEF ReplyEndsRequest, Resume, AwaitsThis
<1>b. ReplyEndsWait(m, f) => "any" \in fib[f].waits /\ fib' = [fib EXCEPT ![f] = r2]
  BY DEF ReplyEndsWait, Resume
<1>c. ReplyQueued(m, f) =>
        /\ ~("reply" \in fib[f].waits /\ fib[f].wait_req_id = id)
        /\ fib' = [fib EXCEPT ![f] = r3]
  BY DEF ReplyQueued, AwaitsThis
<1>d. x \in [req_id : Int, result : Argument] /\ x.req_id = id
  <2>1. e \in Event
    BY <1>1, HeadEvent DEF Handles, TypeInv
  <2> QED BY <2>1 DEF Event
<1>2. f \in Live(m)
  BY <1>1 DEF FiberInv, ThreadOk, PendingOk
<1>3. fib[f] \in Fiber /\ PendingOk(m) /\ RecordOk(f, fib[f], Mine(m, f), FALSE)
  BY <1>1, <1>2, Parked
<1>e. /\ r1.waits = {} /\ r1.rq = fib[f].rq /\ r1.src.req_id = id
      /\ r2.waits = {} /\ r2.rq = fib[f].rq /\ r2.src.req_id = id
      /\ r3.waits = fib[f].waits /\ r3.rq = Append(fib[f].rq, x)
      /\ r3.wait_req_id = fib[f].wait_req_id /\ r3.src = fib[f].src
  BY <1>3 DEF ReplySrc, Src, Fiber
<1> HIDE DEF r1, r2, r3, x, id, e
<1>4. /\ next_req_id[m] \in Nat /\ f \in Asking[m]
      /\ fib[f].rq \in Seq([req_id : Int, result : Argument])
      /\ \A i \in DOMAIN fib[f].rq : fib[f].rq[i].req_id \in Int
      /\ RepliesOk(fib[f], pending[m], next_req_id[m])
      /\ RepliesOk(fib[f], Mine(m, f), next_req_id[m])
      /\ Inside[m][f] = InsideOf(fib[f])
      /\ Owed[m][f] = OwedTo(fib[f], Mine(m, f))
      /\ Handed[f] = fib[f].src.req_id
  BY <1>2, QueueOf
<1>5. /\ Updated(Inside, m, f, Inside[m][f]) = Inside
      /\ Updated(Owed, m, f, Owed[m][f]) = Owed
      /\ [Handed EXCEPT ![f] = Handed[f]] = Handed
  BY Tables, SameEntry
<1>6. /\ \A n \in Modules \ {m} : next_req_id'[n] = next_req_id[n]
      /\ next_req_id'[m] \in {next_req_id[m], next_req_id[m] + 1}
      /\ next_req_id'[m] = next_req_id[m]
  BY <1>1
<1>7. /\ \A n \in Modules \ {m} : pending'[n] = pending[n]
      /\ \A g \in Live(m) \ {f} : Mine(m, g)' = Mine(m, g)
      /\ Mine(m, f)' = Without(Mine(m, f), id)
      /\ pending'[m] = Without(pending[m], id)
  <2>2. pending'[m] = Without(pending[m], id)
    BY <1>1 DEF PendingTake, TypeInv, TypeOK, Without
  <2>3. PICK q \in pending[m] : q.f = f /\ q.req_id = id
    BY <1>1
  <2>4. /\ \A n \in Modules \ {m} : pending'[n] = pending[n]
        /\ \A g \in Live(m) \ {f} : Mine(m, g)' = Mine(m, g)
        /\ Mine(m, f)' = Without(Mine(m, f), id)
    BY <1>1, <1>3, <2>3, TakeOne DEF Without
  <2> QED BY <2>2, <2>4
<1>8. p \in Mine(m, f) /\ \E q \in pending[m] : q.req_id = id
  BY <1>1 DEF Mine
<1> HIDE DEF p
<1>9. \A n \in Modules \ {m} : pending'[n] = pending[n] /\ next_req_id'[n] = next_req_id[n]
  BY <1>6, <1>7
<1>10. \A q \in pending'[m] : q \in pending[m] \/ q.req_id = next_req_id[m]
  BY <1>7 DEF Without
<1>11. ASSUME NEW r, fib' = [fib EXCEPT ![f] = r],
              RepliesOk(r, pending'[m], next_req_id'[m])
       PROVE  /\ Asking' = Asking /\ Inside' = Updated(Inside, m, f, InsideOf(r))
              /\ Owed' = Updated(Owed, m, f, OwedTo(r, Mine(m, f)'))
              /\ Handed' = [Handed EXCEPT ![f] = r.src.req_id] /\ RepliesInv'
  <2>1. ChangesOne(m, f, r)
    BY <1>1, <1>6, <1>7, <1>9, <1>10, <1>11 DEF ChangesOne
  <2> QED BY <1>2, <2>1, OneAccount
<1>12. ASSUME NEW r, r.rq = fib[f].rq PROVE RepliesOk(r, pending'[m], next_req_id'[m])
  BY <1>4, <1>6, <1>10, <1>12, StayApart
<1>13. CASE ReplyEndsRequest(m, f)
  <2>1. RepliesOk(r1, pending'[m], next_req_id'[m])
    BY <1>12, <1>e
  <2>2. /\ Asking' = Asking /\ Inside' = Updated(Inside, m, f, InsideOf(r1))
        /\ Owed' = Updated(Owed, m, f, OwedTo(r1, Mine(m, f)'))
        /\ Handed' = [Handed EXCEPT ![f] = id] /\ RepliesInv'
    BY <1>11, <1>13, <1>a, <1>e, <2>1
  <2>3. InsideOf(fib[f]) = {id} /\ InsideOf(r1) = {}
        /\ OwedTo(r1, Mine(m, f)') = OwedTo(fib[f], Mine(m, f))
    <3>1. /\ InsideOf(fib[f]) = {fib[f].wait_req_id} /\ InsideOf(r1) = {}
          /\ OwedTo(r1, Without(Mine(m, f), fib[f].wait_req_id))
               = OwedTo(fib[f], Mine(m, f))
      <4>1. "reply" \in fib[f].waits /\ r1.waits = {} /\ r1.rq = fib[f].rq
        BY <1>13, <1>a, <1>e
      <4> QED BY <4>1, OverAccount
    <3> QED BY <1>7, <1>13, <1>a, <3>1
  <2>4. Owed' = Owed
    BY <1>4, <1>5, <2>2, <2>3
  <2> QED BY <1>1, <1>4, <2>2, <2>3, <2>4, ComesBack
<1>14. CASE ReplyEndsWait(m, f)
  <2>1. RepliesOk(r2, pending'[m], next_req_id'[m])
    BY <1>12, <1>e
  <2>2. /\ Asking' = Asking /\ Inside' = Updated(Inside, m, f, InsideOf(r2))
        /\ Owed' = Updated(Owed, m, f, OwedTo(r2, Mine(m, f)'))
        /\ Handed' = [Handed EXCEPT ![f] = id] /\ RepliesInv'
    BY <1>11, <1>14, <1>b, <1>e, <2>1
  <2>3. "reply" \notin fib[f].waits
    BY <1>3, <1>14, <1>b DEF RecordOk
  <2>4. InsideOf(fib[f]) = {} /\ InsideOf(r2) = {} /\ id \in OwedTo(fib[f], Mine(m, f))
        /\ OwedTo(r2, Mine(m, f)') = OwedTo(fib[f], Mine(m, f)) \ {id}
    <3>1. /\ InsideOf(fib[f]) = {} /\ InsideOf(r2) = {} /\ id \in OwedTo(fib[f], Mine(m, f))
          /\ OwedTo(r2, Without(Mine(m, f), id))
               = OwedTo(fib[f], Mine(m, f)) \ {id}
      <4>1. /\ p \in Mine(m, f) /\ p.req_id = id
            /\ r2.waits = {} /\ r2.rq = fib[f].rq
        BY <1>1, <1>8, <1>e
      <4>2. \A rr \in ToSet(fib[f].rq) : rr.req_id # p.req_id
        BY <1>4, <4>1, QueuedApart
      <4>3. /\ InsideOf(fib[f]) = {} /\ InsideOf(r2) = {}
            /\ p.req_id \in OwedTo(fib[f], Mine(m, f))
            /\ OwedTo(r2, Without(Mine(m, f), p.req_id))
                 = OwedTo(fib[f], Mine(m, f)) \ {p.req_id}
        BY <2>3, <4>1, <4>2, HandedAccount
      <4> QED BY <4>1, <4>3
    <3>2. Mine(m, f)' = Without(Mine(m, f), id)
      BY <1>7
    <3> QED BY <3>1, <3>2
  <2>5. Inside' = Inside
    BY <1>4, <1>5, <2>2, <2>4
  <2> QED BY <1>1, <1>4, <2>2, <2>4, <2>5, TakesOne
<1>15. CASE ReplyQueued(m, f)
  <2>1. RepliesOk(r3, pending'[m], next_req_id'[m])
    <3>1. id < next_req_id[m]
      BY <1>1, <1>3 DEF PendingOk
    <3>2. \E q \in pending[m] : q.req_id = x.req_id
      BY <1>8, <1>d
    <3>3. RepliesOk(r3, Without(pending[m], x.req_id), next_req_id[m])
      BY <1>4, <1>d, <1>e, <3>1, <3>2, JoinApart
    <3> QED BY <1>6, <1>7, <1>d, <3>3
  <2>2. /\ Asking' = Asking /\ Inside' = Updated(Inside, m, f, InsideOf(r3))
        /\ Owed' = Updated(Owed, m, f, OwedTo(r3, Mine(m, f)'))
        /\ Handed' = [Handed EXCEPT ![f] = Handed[f]] /\ RepliesInv'
    BY <1>4, <1>11, <1>15, <1>c, <1>e, <2>1
  <2>3. InsideOf(r3) = InsideOf(fib[f]) /\ OwedTo(r3, Mine(m, f)') = OwedTo(fib[f], Mine(m, f))
    <3>1. /\ InsideOf(r3) = InsideOf(fib[f])
          /\ OwedTo(r3, Without(Mine(m, f), id)) = OwedTo(fib[f], Mine(m, f))
      <4>1. p \in Awaited(fib[f], Mine(m, f))
        BY <1>1, <1>8, <1>15, <1>c DEF Awaited
      <4>2. ToSet(r3.rq) = ToSet(fib[f].rq) \cup {x}
        <5>1. /\ fib[f].rq \in Seq([req_id : Int, result : Argument])
              /\ r3.rq = Append(fib[f].rq, x)
          BY <1>4, <1>e
        <5>2. ToSet(Append(fib[f].rq, x)) = ToSet(fib[f].rq) \cup {x}
          <6> DEFINE q == fib[f].rq
                     S == [req_id : Int, result : Argument]
          <6>1. q \in Seq(S) /\ x \in S
            BY <1>d, <5>1
          <6> HIDE DEF q, S
          <6>2. ToSet(Append(q, x)) = ToSet(q) \cup {x}
            BY <6>1, AppendedSet
          <6> QED BY <6>2 DEF q
        <5> QED BY <5>1, <5>2
      <4>3. /\ x.req_id = p.req_id /\ p.req_id = id
            /\ r3.waits = fib[f].waits /\ r3.wait_req_id = fib[f].wait_req_id
        BY <1>1, <1>d, <1>e
      <4>4. /\ InsideOf(r3) = InsideOf(fib[f])
            /\ OwedTo(r3, Without(Mine(m, f), p.req_id)) = OwedTo(fib[f], Mine(m, f))
        BY <4>1, <4>2, <4>3, QueuedAccount
      <4> QED BY <4>3, <4>4
    <3> QED BY <1>7, <3>1
  <2>4. Inside' = Inside /\ Owed' = Owed /\ Handed' = Handed
    BY <1>4, <1>5, <2>2, <2>3
  <2> QED BY <1>1, <2>2, <2>4, NoRequestStep
<1> QED BY <1>13, <1>14, <1>15

\* A fiber that starts has asked nothing, and nothing of an earlier user of its
\* record is left in pending.
LEMMA LaunchRequest ==
  ASSUME TypeInv, FiberInv, RepliesInv, NEW m \in Modules, NEW f \in Fibers,
         StartSequence(m, f) \/ StartHandler(m, f)
  PROVE  ReqStep /\ RepliesInv'
<1> DEFINE e == Head(evs[m])
           r == IF StartSequence(m, f)
                THEN FreshFiber(m, e.seq, e.requester, e.req_id, Src("IGNORE", e.requester, 0, e.req_id))
                ELSE FreshFiber(m, "recv_notify", EXTERNAL, 0, Src("SUCCESS", e.requester, e.client_id, 0))
           s == [r EXCEPT !.waits = {}]
<1>1. /\ f \in Unused /\ fibers' = [fibers EXCEPT ![m] = <<f>> \o @]
      /\ fib' = [fib EXCEPT ![f] = s] /\ UNCHANGED <<pending, next_req_id>>
  BY DEF StartSequence, StartHandler, Launch, Resume
<1>2. s.waits = {} /\ s.rq = <<>>
  BY DEF FreshFiber
<1> HIDE DEF s
<1>3. /\ fib \in [Fibers -> Fiber] /\ fibers \in [Modules -> Seq(Fibers)]
      /\ \A n \in Modules : Live(n) \subseteq Fibers /\ f \notin Live(n) /\ PendingOk(n)
  BY <1>1, RefersType DEF TypeInv, TypeOK, Refers, Unused, FiberInv, ThreadOk
<1>4. fib'[f] = s /\ \A g \in Fibers \ {f} : fib'[g] = fib[g]
  BY <1>1, <1>3
<1>5. Live(m)' = Live(m) \cup {f} /\ \A n \in Modules \ {m} : Live(n)' = Live(n)
  <2>1. ToSet(<<f>> \o fibers[m]) = {f} \cup ToSet(fibers[m])
    BY <1>3, ConsSeq
  <2> QED BY <1>1, <1>3, <2>1 DEF Live
<1>6. ASSUME NEW n \in Modules, NEW g \in Fibers
      PROVE  Inside'[n][g] = Inside[n][g] /\ Owed'[n][g] = Owed[n][g]
  <2>1. /\ Inside'[n][g] = IF g \in Live(n)' THEN InsideOf(fib'[g]) ELSE {}
        /\ Owed'[n][g] = IF g \in Live(n)' THEN OwedTo(fib'[g], Mine(n, g)') ELSE {}
    BY AccountsNext
  <2>2. /\ Inside[n][g] = IF g \in Live(n) THEN InsideOf(fib[g]) ELSE {}
        /\ Owed[n][g] = IF g \in Live(n) THEN OwedTo(fib[g], Mine(n, g)) ELSE {}
    BY Accounts
  <2>3. Mine(n, g)' = Mine(n, g)
    BY <1>1 DEF Mine
  <2>4. CASE g # f
    <3>1. fib'[g] = fib[g] /\ (g \in Live(n)' <=> g \in Live(n))
      BY <1>4, <1>5, <2>4
    <3> QED BY <2>1, <2>2, <2>3, <3>1
  <2>5. CASE g = f
    <3>1. Inside[n][g] = {} /\ Owed[n][g] = {}
      BY <1>3, <2>2, <2>5
    <3>2. InsideOf(fib'[g]) = {} /\ OwedTo(fib'[g], Mine(n, g)') = {}
      <4>1. Mine(n, g) = {}
        BY <1>3, <2>5 DEF PendingOk, Mine
      <4>2. ToSet(<<>>) = {}
        BY EmptySeq DEF ToSet
      <4> QED BY <1>2, <1>4, <2>3, <2>5, <4>1, <4>2 DEF InsideOf, OwedTo, Awaited
    <3> QED BY <2>1, <3>1, <3>2
  <2> QED BY <2>4, <2>5
<1>7. Inside' = Inside /\ Owed' = Owed
  BY <1>6, TablesStay
<1>8. /\ Asking' = [Asking EXCEPT ![m] = @ \cup {f}]
      /\ \A n \in Modules : f \notin Asking[n]
      /\ Handed' = [Handed EXCEPT ![f] = Handed'[f]]
  BY <1>3, <1>4, <1>5, Tables
<1>9. ReqStep
  <2>1. Requests!Begin(m, f)
    BY <1>1, <1>7, <1>8 DEF Requests!Begin
  <2> QED BY <2>1 DEF ReqStep, Requests!Next
<1>10. RepliesInv'
  <2> SUFFICES ASSUME NEW n \in Modules, NEW g \in Live(n)'
               PROVE  RepliesOk(fib'[g], pending[n], next_req_id[n])
    BY <1>1 DEF RepliesInv, RepliesOk
  <2>1. CASE g = f
    <3>1. DOMAIN fib'[g].rq = {}
      BY <1>2, <1>4, <2>1
    <3> QED BY <3>1 DEF RepliesOk
  <2>2. CASE g # f
    <3>1. g \in Live(n) /\ fib'[g] = fib[g]
      BY <1>3, <1>4, <1>5, <2>2
    <3> QED BY <3>1 DEF RepliesInv
  <2> QED BY <2>1, <2>2
<1> QED BY <1>9, <1>10

\* reap_done: the fiber that goes is owed nothing.
LEMMA ReapRequest ==
  ASSUME TypeInv, FiberInv, AllCollected, RepliesInv,
         NEW m \in Modules, NEW i \in DOMAIN fibers[m], Reap(m, i)
  PROVE  ReqStep /\ RepliesInv'
<1> DEFINE f == fibers[m][i]
<1>1. /\ UNCHANGED <<fib, pending, next_req_id>> /\ fib[f].done
      /\ current[m] = NoFiber /\ fibers' = [fibers EXCEPT ![m] = RemoveAt(fibers[m], i)]
  BY DEF Reap, PassOver, Scheduling
<1>2. /\ fibers \in [Modules -> Seq(Fibers)] /\ f \in Live(m) /\ f \in Fibers
  BY ElementOfSeq DEF TypeInv, TypeOK, Live, ToSet
<1> HIDE DEF f
<1>3. Live(m) \ {f} \subseteq Live(m)' /\ Live(m)' \subseteq Live(m)
      /\ \A n \in Modules \ {m} : Live(n)' = Live(n)
  BY <1>1, <1>2, RemoveKeepsOthers DEF Live, f
<1> PICK g \in Fibers : g = f
  BY <1>2
<1>4. Inside[m][g] = {} /\ Owed[m][g] = {}
  <2>1. RecordOk(g, fib[g], Mine(m, g), FALSE) /\ IsFiniteSet(Mine(m, g))
        /\ fib[g] \in Fiber /\ Len(fib[g].rq) \in Nat
    BY <1>1, <1>2, Parked
  <2>2. fib[g].async_outstanding = 0 /\ fib[g].waits = {}
    BY <1>1, <1>2, <2>1 DEF AllCollected, RecordOk
  <2>3. Awaited(fib[g], Mine(m, g)) = Mine(m, g)
    BY <2>2 DEF Awaited
  <2>4. Mine(m, g) = {} /\ Len(fib[g].rq) = 0
    <3>1. Cardinality(Mine(m, g)) \in Nat
      BY <2>1, FS_CardinalityType
    <3>2. 0 = Cardinality(Mine(m, g)) + Len(fib[g].rq)
      BY <2>1, <2>2, <2>3 DEF RecordOk
    <3>3. Cardinality(Mine(m, g)) = 0 /\ Len(fib[g].rq) = 0
      BY <2>1, <3>1, <3>2
    <3> QED BY <2>1, <3>3, FS_EmptySet
  <2>5. ToSet(fib[g].rq) = {}
    <3>1. fib[g].rq \in Seq([req_id : Int, result : Argument])
      BY <2>1 DEF Fiber
    <3>2. DOMAIN fib[g].rq = 1..0
      BY <2>4, <3>1, LenProperties
    <3> QED BY <3>2 DEF ToSet
  <2>6. InsideOf(fib[g]) = {} /\ OwedTo(fib[g], Mine(m, g)) = {}
    BY <2>2, <2>3, <2>4, <2>5 DEF InsideOf, OwedTo
  <2> QED BY <2>6, Accounts
<1>5. ASSUME NEW n \in Modules, NEW h \in Fibers
      PROVE  Inside'[n][h] = Inside[n][h] /\ Owed'[n][h] = Owed[n][h]
  <2>1. /\ Inside'[n][h] = IF h \in Live(n)' THEN InsideOf(fib'[h]) ELSE {}
        /\ Owed'[n][h] = IF h \in Live(n)' THEN OwedTo(fib'[h], Mine(n, h)') ELSE {}
    BY AccountsNext
  <2>2. /\ Inside[n][h] = IF h \in Live(n) THEN InsideOf(fib[h]) ELSE {}
        /\ Owed[n][h] = IF h \in Live(n) THEN OwedTo(fib[h], Mine(n, h)) ELSE {}
    BY Accounts
  <2>3. Mine(n, h)' = Mine(n, h) /\ fib'[h] = fib[h]
    BY <1>1 DEF Mine
  <2>4. CASE h \in Live(n)' <=> h \in Live(n)
    BY <2>1, <2>2, <2>3, <2>4
  <2>5. CASE h \notin Live(n)' /\ h \in Live(n)
    <3>1. n = m /\ h = g
      BY <1>3, <2>5
    <3>2. Inside[n][h] = {} /\ Owed[n][h] = {}
      BY <1>4, <3>1
    <3> QED BY <2>1, <2>5, <3>2
  <2>6. Live(n)' \subseteq Live(n)
    BY <1>3
  <2> QED BY <2>4, <2>5, <2>6
<1>6. Inside' = Inside /\ Owed' = Owed
  BY <1>5, TablesStay
<1>7. Handed' = Handed
  BY <1>1, Tables
<1>8. CASE g \in Live(m)'
  <2>1. Live(m)' = Live(m)
    BY <1>3, <1>8
  <2>2. Asking' = Asking
    BY <1>3, <2>1, Tables
  <2>3. ReqStep
    BY <1>1, <1>6, <1>7, <2>2, NoRequestStep
  <2> QED BY <1>1, <1>3, <2>1, <2>3 DEF RepliesInv
<1>9. CASE g \notin Live(m)'
  <2>1. Live(m)' = Live(m) \ {g}
    BY <1>3, <1>9
  <2>2. Asking' = [Asking EXCEPT ![m] = @ \ {g}] /\ g \in Asking[m]
    BY <1>2, <1>3, <2>1, Tables
  <2>3. Requests!End(m, g)
    BY <1>1, <1>4, <1>6, <1>7, <2>2 DEF Requests!End, Requests!Runs
  <2>4. ReqStep
    BY <2>3 DEF ReqStep, Requests!Next
  <2>5. RepliesInv'
    BY <1>1, <1>3 DEF RepliesInv
  <2> QED BY <2>4, <2>5
<1> QED BY <1>8, <1>9

\* Every step of the scheduler.
LEMMA SchedRequest ==
  ASSUME TypeInv, FiberInv, AllCollected, RepliesInv, NEW m \in Modules,
         Sched(m) \/ SpuriousWake(m)
  PROVE  ReqStep /\ RepliesInv'
<1>1. CASE \/ Sleep(m) \/ StartPass(m) \/ SpuriousWake(m) \/ Stopped(m) \/ EndPass(m)
           \/ (\E f \in Fibers : TimerHeldBack(m, f))
           \/ Defer(m) \/ StartRefused(m) \/ NotifyRefused(m) \/ ReplyUnknown(m)
  <2>1. UNCHANGED <<fib, fibers, pending, next_req_id>>
    BY <1>1 DEF Sleep, StartPass, SpuriousWake, TakeInbox, Stopped, EndPass, TimerHeldBack,
                Defer, StartRefused, NotifyRefused, ReplyUnknown, Dropped
  <2> QED BY <2>1, NothingAsked, NoRequestStep
<1> QED BY <1>1, TimerRequest, ReplyRequest, LaunchRequest, ReapRequest DEF Sched

-----------------------------------------------------------------------------
(* Calls *)

\* The accounts of the fiber a module's thread is in.
LEMMA RunningAccount ==
  ASSUME TypeInv, FiberInv, RepliesInv, NEW m \in Modules, NEW f \in Fibers, Running(m, f)
  PROVE  /\ f \in Live(m) /\ fib[f] \in Fiber /\ fib[f].waits = {} /\ next_req_id[m] \in Nat
         /\ \A p \in Mine(m, f) : p.req_id # next_req_id[m]
         /\ fib[f].rq \in Seq([req_id : Int, result : Argument])
         /\ \A i \in DOMAIN fib[f].rq : fib[f].rq[i].req_id \in Int
         /\ RepliesOk(fib[f], pending[m], next_req_id[m])
         /\ RepliesOk(fib[f], Mine(m, f), next_req_id[m])
         /\ InsideOf(fib[f]) = {} /\ Inside[m][f] = {}
         /\ Owed[m][f] = OwedTo(fib[f], Mine(m, f))
         /\ Handed[f] = fib[f].src.req_id /\ f \in Asking[m]
<1>1. f \in Live(m) /\ fib[f] \in Fiber /\ RecordOk(f, fib[f], Mine(m, f), TRUE)
      /\ \A p \in Mine(m, f) : p.req_id # next_req_id[m]
  BY Current
<1>2. /\ next_req_id[m] \in Nat
      /\ fib[f].rq \in Seq([req_id : Int, result : Argument])
      /\ \A i \in DOMAIN fib[f].rq : fib[f].rq[i].req_id \in Int
      /\ RepliesOk(fib[f], pending[m], next_req_id[m])
      /\ RepliesOk(fib[f], Mine(m, f), next_req_id[m])
      /\ Inside[m][f] = InsideOf(fib[f]) /\ Owed[m][f] = OwedTo(fib[f], Mine(m, f))
      /\ Handed[f] = fib[f].src.req_id /\ f \in Asking[m]
  BY <1>1, QueueOf
<1>3. fib[f].waits = {}
  BY <1>1 DEF RecordOk
<1>4. InsideOf(fib[f]) = {}
  BY <1>3 DEF InsideOf
<1> QED BY <1>1, <1>2, <1>3, <1>4

\* A call that neither asks for an answer nor takes one.  coseq_send uses up a number.
LEMMA StayRequest ==
  ASSUME TypeInv, FiberInv, RepliesInv, NEW m \in Modules, NEW f \in Fibers, Running(m, f),
         NEW r, fib' = [fib EXCEPT ![f] = r], r.rq = fib[f].rq, r.src = fib[f].src,
         "reply" \notin r.waits, UNCHANGED <<fibers, pending>>,
         next_req_id' = next_req_id \/ next_req_id' = [next_req_id EXCEPT ![m] = @ + 1]
  PROVE  ReqStep /\ RepliesInv'
<1>1. /\ f \in Live(m) /\ fib[f].waits = {} /\ next_req_id[m] \in Nat
      /\ \A i \in DOMAIN fib[f].rq : fib[f].rq[i].req_id \in Int
      /\ RepliesOk(fib[f], pending[m], next_req_id[m])
      /\ InsideOf(fib[f]) = {} /\ Inside[m][f] = {}
      /\ Owed[m][f] = OwedTo(fib[f], Mine(m, f))
      /\ Handed[f] = fib[f].src.req_id /\ f \in Asking[m]
  BY RunningAccount
<1>2. /\ Updated(Inside, m, f, Inside[m][f]) = Inside
      /\ Updated(Owed, m, f, Owed[m][f]) = Owed
      /\ [Handed EXCEPT ![f] = Handed[f]] = Handed
  BY Tables, SameEntry
<1>3. /\ \A n \in Modules \ {m} : pending'[n] = pending[n] /\ next_req_id'[n] = next_req_id[n]
      /\ next_req_id'[m] \in {next_req_id[m], next_req_id[m] + 1}
      /\ pending'[m] = pending[m]
  BY DEF TypeInv, TypeOK
<1>4. \A g : Mine(m, g)' = Mine(m, g)
  BY DEF Mine
<1>5. RepliesOk(r, pending'[m], next_req_id'[m])
  BY <1>1, <1>3, StayApart
<1>6. /\ Asking' = Asking /\ Inside' = Updated(Inside, m, f, InsideOf(r))
      /\ Owed' = Updated(Owed, m, f, OwedTo(r, Mine(m, f)'))
      /\ Handed' = [Handed EXCEPT ![f] = r.src.req_id] /\ RepliesInv'
  <2>1. ChangesOne(m, f, r)
    BY <1>1, <1>3, <1>4, <1>5 DEF ChangesOne
  <2> QED BY <1>1, <2>1, OneAccount
<1>7. InsideOf(r) = {} /\ OwedTo(r, Mine(m, f)') = OwedTo(fib[f], Mine(m, f))
  <2>1. InsideOf(r) = InsideOf(fib[f]) /\ OwedTo(r, Mine(m, f)) = OwedTo(fib[f], Mine(m, f))
    BY <1>1, SameAccount
  <2> QED BY <1>1, <1>4, <2>1
<1>8. Inside' = Inside /\ Owed' = Owed /\ Handed' = Handed
  BY <1>1, <1>2, <1>6, <1>7
<1>9. CASE next_req_id' = next_req_id
  BY <1>6, <1>8, <1>9, NoRequestStep
<1>10. CASE next_req_id' = [next_req_id EXCEPT ![m] = @ + 1]
  BY <1>1, <1>6, <1>8, <1>10, Asks
<1> QED BY <1>6, <1>9, <1>10

\* request_common: the number is new, and so is what it stands for.
LEMMA AskRequest ==
  ASSUME TypeInv, FiberInv, RepliesInv, NEW m \in Modules, NEW f \in Fibers, Running(m, f),
         NEW r, fib' = [fib EXCEPT ![f] = r], r.rq = fib[f].rq, r.src = fib[f].src,
         \/ r.waits = {}
         \/ "reply" \in r.waits /\ r.wait_req_id = next_req_id[m],
         fibers' = fibers, pending' = PendingAdd(m, next_req_id[m], f),
         next_req_id' = [next_req_id EXCEPT ![m] = @ + 1]
  PROVE  ReqStep /\ RepliesInv'
<1>1. /\ f \in Live(m) /\ fib[f].waits = {} /\ next_req_id[m] \in Nat
      /\ \A p \in Mine(m, f) : p.req_id # next_req_id[m]
      /\ \A i \in DOMAIN fib[f].rq : fib[f].rq[i].req_id \in Int
      /\ RepliesOk(fib[f], pending[m], next_req_id[m])
      /\ InsideOf(fib[f]) = {} /\ Inside[m][f] = {}
      /\ Owed[m][f] = OwedTo(fib[f], Mine(m, f))
      /\ Handed[f] = fib[f].src.req_id /\ f \in Asking[m]
  BY RunningAccount
<1>2. /\ Updated(Inside, m, f, Inside[m][f]) = Inside
      /\ Updated(Owed, m, f, Owed[m][f]) = Owed
      /\ [Handed EXCEPT ![f] = Handed[f]] = Handed
  BY Tables, SameEntry
<1> PICK n : n = next_req_id[m]
  OBVIOUS
<1> DEFINE p == Pending(n, f)
<1>3. /\ pending'[m] = pending[m] \cup {p} /\ p.f = f /\ p.req_id = n
      /\ \A k \in Modules \ {m} : pending'[k] = pending[k] /\ next_req_id'[k] = next_req_id[k]
      /\ next_req_id'[m] = next_req_id[m] + 1
  BY DEF TypeInv, TypeOK, PendingAdd, Pending
<1> HIDE DEF p
<1>4. /\ Mine(m, f)' = Mine(m, f) \cup {p}
      /\ \A g \in Live(m) \ {f} : Mine(m, g)' = Mine(m, g)
      /\ \A q \in pending'[m] : q \in pending[m] \/ q.req_id = n
  BY <1>3 DEF Mine
<1>5. RepliesOk(r, pending'[m], next_req_id'[m])
  BY <1>1, <1>3, <1>4, StayApart
<1>6. /\ Asking' = Asking /\ Inside' = Updated(Inside, m, f, InsideOf(r))
      /\ Owed' = Updated(Owed, m, f, OwedTo(r, Mine(m, f)'))
      /\ Handed' = [Handed EXCEPT ![f] = r.src.req_id] /\ RepliesInv'
  <2>1. ChangesOne(m, f, r)
    BY <1>1, <1>3, <1>4, <1>5 DEF ChangesOne
  <2> QED BY <1>1, <2>1, OneAccount
<1>7. Handed' = Handed
  BY <1>1, <1>2, <1>6
<1>8. /\ "reply" \in r.waits /\ r.wait_req_id = n =>
           /\ InsideOf(r) = {n}
           /\ OwedTo(r, Mine(m, f)') = OwedTo(fib[f], Mine(m, f))
      /\ r.waits = {} =>
           /\ InsideOf(r) = {}
           /\ OwedTo(r, Mine(m, f)') = OwedTo(fib[f], Mine(m, f)) \cup {n}
  <2>1. p.req_id = n /\ \A q \in Mine(m, f) : q.req_id # p.req_id
    BY <1>1, <1>3
  <2>2. fib[f].waits = {} /\ r.rq = fib[f].rq
    BY <1>1
  <2>a. ASSUME "reply" \in r.waits, r.wait_req_id = n
        PROVE  InsideOf(r) = {n}
               /\ OwedTo(r, Mine(m, f) \cup {p}) = OwedTo(fib[f], Mine(m, f))
    <3>1. InsideOf(r) = {p.req_id}
          /\ OwedTo(r, Mine(m, f) \cup {p}) = OwedTo(fib[f], Mine(m, f))
      <4>1. /\ "reply" \in r.waits /\ r.wait_req_id = p.req_id
            /\ \A q \in Mine(m, f) : q.req_id # p.req_id
        BY <2>1, <2>a
      <4>2. Awaited(fib[f], Mine(m, f)) = Mine(m, f)
        BY <2>2 DEF Awaited
      <4>3. Awaited(r, Mine(m, f) \cup {p}) = Mine(m, f)
        BY <4>1 DEF Awaited
      <4> QED BY <2>2, <4>1, <4>2, <4>3 DEF InsideOf, OwedTo
    <3> QED BY <2>1, <3>1
  <2>b. ASSUME r.waits = {}
        PROVE  InsideOf(r) = {}
               /\ OwedTo(r, Mine(m, f) \cup {p}) = OwedTo(fib[f], Mine(m, f)) \cup {n}
    <3>1. InsideOf(r) = {}
          /\ OwedTo(r, Mine(m, f) \cup {p}) = OwedTo(fib[f], Mine(m, f)) \cup {p.req_id}
      BY <2>2, <2>b, AskedAsyncAccount
    <3> QED BY <2>1, <3>1
  <2>3. OwedTo(r, Mine(m, f)') = OwedTo(r, Mine(m, f) \cup {p})
    BY <1>4
  <2> QED BY <2>3, <2>a, <2>b
<1>9. CASE "reply" \in r.waits /\ r.wait_req_id = next_req_id[m]
  <2>1. Inside' = Updated(Inside, m, f, {n}) /\ Owed' = Owed
    BY <1>1, <1>2, <1>6, <1>8, <1>9
  <2> QED BY <1>1, <1>6, <1>7, <2>1, Asks
<1>10. CASE r.waits = {}
  <2>1. Inside' = Inside /\ Owed' = Updated(Owed, m, f, Owed[m][f] \cup {n})
    BY <1>1, <1>2, <1>6, <1>8, <1>10
  <2> QED BY <1>1, <1>6, <1>7, <2>1, Asks
<1> QED BY <1>9, <1>10

\* coseq_wait_reply and coseq_gather that find an answer in the queue.
LEMMA TakeRequest ==
  ASSUME TypeInv, FiberInv, RepliesInv, NEW m \in Modules, NEW f \in Fibers, NEW c \in Call,
         CollectQueued(m, f, c)
  PROVE  ReqStep /\ RepliesInv'
<1> DEFINE id == Head(fib[f].rq).req_id
           x == Src(Head(fib[f].rq).result, 0, 0, id)
           r == [AfterOne(f, c) EXCEPT !.rq = Tail(@), !.async_outstanding = @ - 1, !.src = x]
<1>1. /\ Running(m, f) /\ fib' = [fib EXCEPT ![f] = r] /\ fib[f].rq # <<>>
      /\ UNCHANGED <<fibers, pending, next_req_id>>
  BY DEF CollectQueued, Collects, Makes, schedVars
<1>2. /\ f \in Live(m) /\ fib[f] \in Fiber /\ fib[f].waits = {}
      /\ fib[f].rq \in Seq([req_id : Int, result : Argument])
      /\ RepliesOk(fib[f], pending[m], next_req_id[m])
      /\ RepliesOk(fib[f], Mine(m, f), next_req_id[m])
      /\ InsideOf(fib[f]) = {} /\ Inside[m][f] = {}
      /\ Owed[m][f] = OwedTo(fib[f], Mine(m, f)) /\ f \in Asking[m]
  BY <1>1, RunningAccount
<1>3. r.rq = Tail(fib[f].rq) /\ r.waits = fib[f].waits /\ r.src.req_id = id
  BY <1>2 DEF AfterOne, Past, Fiber, Src
<1> HIDE DEF r, x
<1>4. RepliesOk(r, pending[m], next_req_id[m])
  BY <1>1, <1>2, <1>3, LeaveApart
<1>5. \A g : Mine(m, g)' = Mine(m, g)
  BY <1>1 DEF Mine
<1>6. /\ Asking' = Asking /\ Inside' = Updated(Inside, m, f, InsideOf(r))
      /\ Owed' = Updated(Owed, m, f, OwedTo(r, Mine(m, f)'))
      /\ Handed' = [Handed EXCEPT ![f] = id] /\ RepliesInv'
  <2>1. ChangesOne(m, f, r)
    BY <1>1, <1>2, <1>4, <1>5 DEF ChangesOne
  <2>2. /\ Asking' = Asking /\ Inside' = Updated(Inside, m, f, InsideOf(r))
        /\ Owed' = Updated(Owed, m, f, OwedTo(r, Mine(m, f)'))
        /\ Handed' = [Handed EXCEPT ![f] = r.src.req_id] /\ RepliesInv'
    BY <1>2, <2>1, OneAccount
  <2> QED BY <1>3, <2>2
<1>7. /\ InsideOf(r) = {} /\ id \in Owed[m][f]
      /\ OwedTo(r, Mine(m, f)) = Owed[m][f] \ {id}
  <2>1. /\ InsideOf(r) = {} /\ id \in OwedTo(fib[f], Mine(m, f))
        /\ OwedTo(r, Mine(m, f)) = OwedTo(fib[f], Mine(m, f)) \ {id}
    BY <1>1, <1>2, <1>3, TakenAccount
  <2> QED BY <1>2, <2>1
<1> HIDE DEF id
<1>8. Inside' = Inside
  <2>1. Updated(Inside, m, f, Inside[m][f]) = Inside
    BY Tables, SameEntry
  <2> QED BY <1>2, <1>6, <1>7, <2>1
<1>9. Owed' = Updated(Owed, m, f, Owed[m][f] \ {id})
  BY <1>5, <1>6, <1>7
<1> QED BY <1>1, <1>2, <1>6, <1>7, <1>8, <1>9, TakesOne

\* The calls that are not of notifications.
LEMMA CallRequest ==
  ASSUME TypeInv, FiberInv, RepliesInv, NEW m \in Modules, NEW f \in Fibers, NEW c \in Call,
         Calls(m, f, c)
  PROVE  ReqStep /\ RepliesInv'
<1>0. /\ Running(m, f) /\ fibers' = fibers
  BY DEF Calls, Request, RequestAsync, Send, NothingToCollect, CollectQueued, WaitForReply,
         ReplyToModule, ReplyToExternal, WaitTimeout, Lock, Unlock, Return, Collects, Makes,
         schedVars
<1>1. fib[f] \in Fiber /\ fib[f].waits = {}
  BY <1>0, RunningAccount
<1>2. ASSUME NEW r, fib' = [fib EXCEPT ![f] = r], r.rq = fib[f].rq, r.src = fib[f].src,
             "reply" \notin r.waits, pending' = pending,
             next_req_id' = next_req_id \/ next_req_id' = [next_req_id EXCEPT ![m] = @ + 1]
      PROVE  ReqStep /\ RepliesInv'
  BY <1>0, <1>2, StayRequest
<1>3. ASSUME NEW r, fib' = [fib EXCEPT ![f] = r], r.rq = fib[f].rq, r.src = fib[f].src,
             r.waits = {} \/ ("reply" \in r.waits /\ r.wait_req_id = next_req_id[m]),
             pending' = PendingAdd(m, next_req_id[m], f),
             next_req_id' = [next_req_id EXCEPT ![m] = @ + 1]
      PROVE  ReqStep /\ RepliesInv'
  BY <1>0, <1>3, AskRequest
<1>4. CASE Request(m, f, c)
  <2> DEFINE r == [Past(f) EXCEPT !.wait_req_id = next_req_id[m], !.waits = @ \cup RequestFlags(c)]
  <2>1. /\ fib' = [fib EXCEPT ![f] = r] /\ pending' = PendingAdd(m, next_req_id[m], f)
        /\ next_req_id' = [next_req_id EXCEPT ![m] = @ + 1]
    BY <1>4 DEF Request
  <2>2. /\ r.rq = fib[f].rq /\ r.src = fib[f].src /\ r.wait_req_id = next_req_id[m]
        /\ "reply" \in r.waits
    BY <1>1 DEF Past, Fiber, RequestFlags
  <2> HIDE DEF r
  <2> QED BY <1>3, <2>1, <2>2
<1>5. CASE RequestAsync(m, f, c)
  <2> DEFINE r == [Past(f) EXCEPT !.async_outstanding = @ + 1]
  <2>1. /\ fib' = [fib EXCEPT ![f] = r] /\ pending' = PendingAdd(m, next_req_id[m], f)
        /\ next_req_id' = [next_req_id EXCEPT ![m] = @ + 1]
    BY <1>5 DEF RequestAsync
  <2>2. r.rq = fib[f].rq /\ r.src = fib[f].src /\ r.waits = {}
    BY <1>1 DEF Past, Fiber
  <2> HIDE DEF r
  <2> QED BY <1>3, <2>1, <2>2
<1>6. CASE \/ Send(m, f, c) \/ NothingToCollect(m, f, c) \/ ReplyToModule(m, f, c)
           \/ ReplyToExternal(m, f, c) \/ Lock(m, f, c) \/ Unlock(m, f, c)
  <2> DEFINE r == Past(f)
  <2>1. /\ fib' = [fib EXCEPT ![f] = r] /\ pending' = pending
        /\ next_req_id' = next_req_id \/ next_req_id' = [next_req_id EXCEPT ![m] = @ + 1]
    BY <1>6 DEF Send, NothingToCollect, ReplyToModule, ReplyToExternal, Lock, Unlock
  <2>2. r.rq = fib[f].rq /\ r.src = fib[f].src /\ "reply" \notin r.waits
    BY <1>1 DEF Past, Fiber
  <2> HIDE DEF r
  <2> QED BY <1>2, <2>1, <2>2
<1>7. CASE CollectQueued(m, f, c)
  BY <1>7, TakeRequest
<1>8. CASE WaitForReply(m, f, c)
  <2> DEFINE r == [AfterOne(f, c) EXCEPT !.waits = @ \cup {"any"}]
  <2>1. fib' = [fib EXCEPT ![f] = r] /\ pending' = pending /\ next_req_id' = next_req_id
    BY <1>8 DEF WaitForReply
  <2>2. r.rq = fib[f].rq /\ r.src = fib[f].src /\ "reply" \notin r.waits
    BY <1>1 DEF AfterOne, Past, Fiber
  <2> HIDE DEF r
  <2> QED BY <1>2, <2>1, <2>2
<1>9. CASE WaitTimeout(m, f, c)
  <2> DEFINE r == [Past(f) EXCEPT !.waits = @ \cup {"timer"}]
  <2>1. fib' = [fib EXCEPT ![f] = r] /\ pending' = pending /\ next_req_id' = next_req_id
    BY <1>9 DEF WaitTimeout
  <2>2. r.rq = fib[f].rq /\ r.src = fib[f].src /\ "reply" \notin r.waits
    BY <1>1 DEF Past, Fiber
  <2> HIDE DEF r
  <2> QED BY <1>2, <2>1, <2>2
<1>10. CASE Return(m, f, c)
  <2> DEFINE r == [fib[f] EXCEPT !.done = TRUE]
  <2>1. fib' = [fib EXCEPT ![f] = r] /\ pending' = pending /\ next_req_id' = next_req_id
    BY <1>10 DEF Return
  <2>2. r.rq = fib[f].rq /\ r.src = fib[f].src /\ "reply" \notin r.waits
    BY <1>1 DEF Fiber
  <2> HIDE DEF r
  <2> QED BY <1>2, <2>1, <2>2
<1> QED BY <1>4, <1>5, <1>6, <1>7, <1>8, <1>9, <1>10 DEF Calls

\* The calls of notifications.
LEMMA NotifyRequest ==
  ASSUME TypeInv, FiberInv, RepliesInv, NEW m \in Modules, NEW f \in Fibers, NEW c \in Call,
         NotifyCalls(m, f, c)
  PROVE  ReqStep /\ RepliesInv'
<1>0. /\ Running(m, f) /\ UNCHANGED <<fibers, pending, next_req_id>>
  BY DEF NotifyCalls, RegRefused, RegTest, RegWrap, RegRead, RegWrite, UnregNotify, UnregUnknown,
         NotifyOne, NotifyDone, Registering, Notifying, Makes, schedVars
<1>1. fib[f] \in Fiber /\ fib[f].waits = {}
  BY <1>0, RunningAccount
<1>2. ASSUME NEW r, fib' = [fib EXCEPT ![f] = r], r.rq = fib[f].rq, r.src = fib[f].src,
             r.waits = fib[f].waits
      PROVE  ReqStep /\ RepliesInv'
  BY <1>0, <1>1, <1>2, StayRequest
<1>3. ASSUME NEW r, fib' = [fib EXCEPT ![f] = r],
             \E i, x : r \in {Past(f), [fib[f] EXCEPT !.reg = i, !.cat = x],
                              [fib[f] EXCEPT !.reg = i], [fib[f] EXCEPT !.fan = i, !.cat = x],
                              [Past(f) EXCEPT !.reg = i, !.cat = x],
                              [Past(f) EXCEPT !.fan = i, !.cat = x]}
      PROVE  ReqStep /\ RepliesInv'
  <2>1. r.rq = fib[f].rq /\ r.src = fib[f].src /\ r.waits = fib[f].waits
    BY <1>1, <1>3 DEF Past, Fiber
  <2> QED BY <1>2, <1>3, <2>1
<1>4. CASE RegRefused(m, f, c)
           \/ \E cid \in ClientId : \/ \E i \in DOMAIN notify_clients[m] : UnregNotify(m, f, c, cid, i)
                                    \/ UnregUnknown(m, f, c, cid)
  <2>1. fib' = [fib EXCEPT ![f] = Past(f)]
    BY <1>4 DEF RegRefused, UnregNotify, UnregUnknown
  <2> QED BY <1>3, <2>1
<1>5. CASE RegTest(m, f, c) \/ RegWrap(m, f, c) \/ RegRead(m, f, c) \/ RegWrite(m, f, c)
  <2>1. \/ fib' = [fib EXCEPT ![f] = [fib[f] EXCEPT !.reg = AfterTest(next_client_id), !.cat = c.arg]]
        \/ fib' = [fib EXCEPT ![f] = [fib[f] EXCEPT !.reg = Tested]]
        \/ fib' = [fib EXCEPT ![f] = [fib[f] EXCEPT !.reg = next_client_id]]
        \/ fib' = [fib EXCEPT ![f] = [Past(f) EXCEPT !.reg = NotReg, !.cat = ""]]
    BY <1>5 DEF RegTest, RegWrap, RegRead, RegWrite
  <2> QED BY <1>3, <2>1
<1>6. CASE NotifyDone(m, f, c) \/ \E i \in DOMAIN notify_clients[m] : NotifyOne(m, f, c, i)
  <2>1. \/ fib' = [fib EXCEPT ![f] = [Past(f) EXCEPT !.fan = 0, !.cat = ""]]
        \/ \E i : fib' = [fib EXCEPT ![f] = [fib[f] EXCEPT !.fan = i, !.cat = c.arg]]
    BY <1>6 DEF NotifyDone, NotifyOne
  <2> QED BY <1>3, <2>1
<1> QED BY <1>4, <1>5, <1>6 DEF NotifyCalls

-----------------------------------------------------------------------------
(* Every step *)

\* coseq_teardown, once every thread has stopped.
LEMMA FreeRequest ==
  ASSUME FreeModules
  PROVE  ReqStep /\ RepliesInv'
<1>1. /\ fibers' = [m \in Modules |-> <<>>] /\ fib' = fib /\ next_req_id' = next_req_id
  BY DEF FreeModules
<1>2. \A m \in Modules : Live(m)' = {}
  BY <1>1 DEF Live, ToSet
<1>3. Asking' = [m \in Modules |-> {}] /\ Handed' = Handed
  BY <1>1, <1>2, Tables
<1>4. /\ Inside' = [m \in Modules |-> [f \in Fibers |-> Inside'[m][f]]]
      /\ Owed' = [m \in Modules |-> [f \in Fibers |-> Owed'[m][f]]]
  BY Tables DEF Table
<1>5. ASSUME NEW m \in Modules, NEW f \in Fibers
      PROVE  Inside'[m][f] = {} /\ Owed'[m][f] = {}
  BY <1>2, AccountsNext
<1>6. Inside' = [m \in Modules |-> Requests!None] /\ Owed' = [m \in Modules |-> Requests!None]
  BY <1>4, <1>5 DEF Requests!None
<1>7. Requests!Discard
  BY <1>1, <1>3, <1>6 DEF Requests!Discard
<1>8. RepliesInv'
  BY <1>2 DEF RepliesInv
<1> QED BY <1>7, <1>8 DEF ReqStep, Requests!Next

\* Every step of an instance is a step of RequestReply or leaves its variables alone.
LEMMA RequestStepAll ==
  ASSUME TypeInv, FiberInv, AllCollected, RepliesInv, [Next]_vars
  PROVE  ReqStep /\ RepliesInv'
<1>1. ASSUME NEW m \in Modules, Sched(m) \/ SpuriousWake(m) PROVE ReqStep /\ RepliesInv'
  BY <1>1, SchedRequest
<1>2. ASSUME NEW m \in Modules, Sequence(m) PROVE ReqStep /\ RepliesInv'
  <2>1. current[m] \in Fibers /\ \A c \in NextCalls(m) : c \in Call
    BY <1>2, CallType DEF Sequence
  <2>2. PICK c \in NextCalls(m) : Calls(m, current[m], c) \/ NotifyCalls(m, current[m], c)
    BY <1>2 DEF Sequence
  <2> QED BY <2>1, <2>2, CallRequest, NotifyRequest
<1>3. \/ \E f \in Fibers : TimePasses(f)
      \/ \E c \in Clients : External(c)
      \/ BeginTeardown \/ (\E m \in Modules : StopModule(m)) \/ UNCHANGED vars
      => ReqStep /\ RepliesInv'
  <2>1. \/ \E f \in Fibers : TimePasses(f)
        \/ \E c \in Clients : External(c)
        \/ BeginTeardown \/ (\E m \in Modules : StopModule(m)) \/ UNCHANGED vars
        => UNCHANGED <<fib, fibers, pending, next_req_id>>
    BY DEF TimePasses, External, RequestSync, ExtRequestAsync, SyncReturns, BeginTeardown,
           StopModule, vars, schedVars
  <2> QED BY <2>1, NothingAsked, NoRequestStep
<1> QED BY <1>1, <1>2, <1>3, FreeRequest DEF Next, Thread, Owner

\* After co_init no sequence has asked anything.
LEMMA RequestInit ==
  ASSUME Init
  PROVE  Requests!Init /\ RepliesInv
<1>1. /\ fibers = [m \in Modules |-> <<>>] /\ next_req_id = [m \in Modules |-> 1]
      /\ fib = [f \in Fibers |-> BlankFiber]
  BY DEF Init
<1>2. \A m \in Modules : Live(m) = {}
  BY <1>1 DEF Live, ToSet
<1>3. BlankFiber.src.req_id = 0
  BY DEF BlankFiber, FreshFiber, NoSrc, Src
<1>4. Asking = [m \in Modules |-> {}] /\ Handed = [f \in Fibers |-> 0]
  BY <1>1, <1>2, <1>3, Tables
<1>5. Inside = [m \in Modules |-> Requests!None] /\ Owed = [m \in Modules |-> Requests!None]
  BY <1>2 DEF Inside, Owed, Requests!None
<1> QED BY <1>1, <1>2, <1>4, <1>5 DEF Requests!Init, RepliesInv

-----------------------------------------------------------------------------
(* The theorem *)

\* coseq_request, coseq_request_timeout, coseq_request_async, coseq_wait_reply,
\* coseq_gather and reap_done, for a program whose sequences collect the replies to
\* what they asked: whatever replies come, late, twice or in any order, a request
\* comes back once and with its own answer or its timeout, an asynchronous answer is
\* handed over once and to the fiber that asked, and no fiber goes that is owed one.
THEOREM RequestsAreAnswered == CollectsBeforeReturn => (Spec => AnswersRequests)
<1> SUFFICES ASSUME CollectsBeforeReturn PROVE Spec => AnswersRequests
  OBVIOUS
<1>1. Init => Requests!Init /\ RepliesInv
  BY RequestInit
<1>2. TypeInv /\ FiberInv /\ CollectInv /\ RepliesInv /\ [Next]_vars
        => [Requests!Next]_(Requests!vars) /\ RepliesInv'
  <2>1. CollectInv => AllCollected
    BY DEF CollectInv, Collected, AllCollected
  <2> QED BY <2>1, RequestStepAll DEF ReqStep
<1> QED BY <1>1, <1>2, FiberInvariant, PTL DEF Spec, AnswersRequests, Requests!Spec

-----------------------------------------------------------------------------
(***************************************************************************)
(* Who answers.  The events a module holds, and the fibers it runs, that   *)
(* serve a request of m were caused by that request, so they are at the    *)
(* module the sequence of m named.  What keeps this true of a request that *)
(* is still pending is the counter: next_req_id gives each START a number  *)
(* of its own, that of a coseq_send too.                                   *)
(***************************************************************************)

Held(m) == ToSet(inbox[m]) \cup ToSet(evs[m]) \cup ToSet(deferred[m])

\* n is asked the request id of m, works on it, or has answered it, and the result of
\* the answer may be x.
Serves(n, m, id, x) ==
  \/ \E e \in Held(n) : /\ e.type = "START" /\ e.requester = m /\ e.req_id = id
                        /\ x \in ResultsOf(n, e.seq)
  \/ \E g \in Live(n) : /\ fib[g].reply_to = m /\ fib[g].reply_req_id = id
                        /\ x \in ResultsOf(n, fib[g].fn)
  \/ \E e \in Held(m) : /\ e.type = "REPLY" /\ e.requester = n /\ e.req_id = id
                        /\ e.result = x

\* The sequence with the record r made the request id, still pending, of a sequence of
\* n that replies x.
MayAnswer(r, id, n, x) ==
  IF id \in InsideOf(r) THEN AskedInRequest(r, n, x) ELSE AskedBefore(r, n, x)

\* What is queued with a fiber of m was asked for.
QueueAsked(m, r) ==
  r.mod = m /\ \A i \in DOMAIN r.rq : \E n \in Modules : AskedBefore(r, n, r.rq[i].result)

CalleeInv ==
  /\ \A m \in Modules : \A e \in Held(m) : e.type = "REPLY" => e.requester \in Modules
  /\ \A m, n \in Modules : \A id \in Int, x \in Argument :
       Serves(n, m, id, x) =>
         /\ id < next_req_id[m]
         /\ \A p \in pending[m] : p.req_id = id => MayAnswer(fib[p.f], id, n, x)
  /\ \A m \in Modules : \A f \in Live(m) : QueueAsked(m, fib[f])

\* A sequence goes on; the request id stays one it is inside, or one it is not.
StillAsked(r, s, id) ==
  /\ s.mod = r.mod /\ s.fn = r.fn /\ r.pc \in Nat /\ s.pc \in Nat /\ s.pc >= r.pc
  /\ id \in InsideOf(s) <=> id \in InsideOf(r)
  /\ id \in InsideOf(r) => s.pc = r.pc

\* What a sequence asked for before, it asked for before once it has gone on.
LEMMA AskedLater ==
  ASSUME NEW r, NEW s, NEW n, NEW x, AskedBefore(r, n, x), Script[r.mod][r.fn] \in Seq(SUBSET Call),
         s.mod = r.mod, s.fn = r.fn, r.pc \in Nat, s.pc \in Nat, s.pc >= r.pc
  PROVE  AskedBefore(s, n, x)
<1> DEFINE body == Script[r.mod][r.fn]
<1>1. PICK i \in DOMAIN body :
        i < r.pc /\ \E c \in body[i] : c.op = "request_async" /\ MayGet(c, n, x)
  BY DEF AskedBefore
<1>2. i \in Nat
  <2>1. Len(body) \in Nat /\ DOMAIN body = 1..Len(body)
    BY LenProperties
  <2> QED BY <1>1, <2>1
<1>3. i < s.pc
  BY <1>1, <1>2
<1> QED BY <1>1, <1>3 DEF AskedBefore

LEMMA AnswerStays ==
  ASSUME NEW r, NEW s, NEW id, NEW n, NEW x, StillAsked(r, s, id), MayAnswer(r, id, n, x),
         Script[r.mod][r.fn] \in Seq(SUBSET Call)
  PROVE  MayAnswer(s, id, n, x)
<1>1. CASE id \in InsideOf(r)
  BY <1>1 DEF StillAsked, MayAnswer, AskedInRequest
<1>2. CASE id \notin InsideOf(r)
  <2>1. id \notin InsideOf(s) /\ AskedBefore(r, n, x)
    BY <1>2 DEF StillAsked, MayAnswer
  <2>2. AskedBefore(s, n, x)
    BY <2>1, AskedLater DEF StillAsked
  <2> QED BY <2>1, <2>2 DEF MayAnswer
<1> QED BY <1>1, <1>2

\* What a step must show: it serves nothing but what was served, and the request it
\* makes; what stays pending is still asked; what is queued was asked for.
LEMMA CalleeKept ==
  ASSUME TypeInv, FiberInv, CalleeInv,
         \A m \in Modules : \A e \in Held(m)' : e.type = "REPLY" => e.requester \in Modules,
         \A m \in Modules : next_req_id'[m] \in Nat /\ next_req_id'[m] >= next_req_id[m],
         \A m, n \in Modules : \A id \in Int, x \in Argument :
           Serves(n, m, id, x)' =>
             \/ Serves(n, m, id, x)
             \/ /\ id = next_req_id[m] /\ id < next_req_id'[m]
                /\ \A p \in pending'[m] : p.req_id = id => MayAnswer(fib'[p.f], id, n, x),
         \A m \in Modules : \A p \in pending'[m] :
           \/ p \in pending[m] /\ StillAsked(fib[p.f], fib'[p.f], p.req_id)
           \/ p.req_id = next_req_id[m],
         \A m \in Modules : \A f \in Live(m)' : QueueAsked(m, fib'[f])
  PROVE  CalleeInv'
<1>1. SUFFICES ASSUME NEW m \in Modules, NEW n \in Modules, NEW id \in Int, NEW x \in Argument,
                      Serves(n, m, id, x),
                      NEW p \in pending'[m], p.req_id = id, id < next_req_id[m]
               PROVE  MayAnswer(fib'[p.f], id, n, x)
  <2>1. \A m \in Modules : next_req_id[m] \in Nat
    BY DEF TypeInv, TypeOK
  <2>2. ASSUME NEW m \in Modules, NEW n \in Modules, NEW id \in Int, NEW x \in Argument,
               Serves(n, m, id, x)'
        PROVE  /\ id < next_req_id'[m]
               /\ \A p \in pending'[m] : p.req_id = id => MayAnswer(fib'[p.f], id, n, x)
    <3>1. CASE Serves(n, m, id, x)
      <4>1. id < next_req_id[m] /\ id < next_req_id'[m]
        BY <2>1, <3>1 DEF CalleeInv
      <4> QED BY <1>1, <3>1, <4>1
    <3> QED BY <2>2, <3>1
  <2>3. ASSUME NEW m \in Modules, NEW n \in Modules, NEW id \in Int, NEW x \in Argument,
               Serves(n, m, id, x)'
        PROVE  /\ id < next_req_id[m]'
               /\ \A p \in pending[m]' : p.req_id = id => MayAnswer(fib[p.f], id, n, x)'
    <3>1. \A p : MayAnswer(fib[p.f], id, n, x)' <=> MayAnswer(fib'[p.f], id, n, x)
      BY DEF MayAnswer, InsideOf, AskedInRequest, AskedBefore, MayGet, ResultsOf
    <3> QED BY <2>2, <2>3, <3>1
  <2>4. \A m \in Modules : \A f \in Live(m)' : QueueAsked(m, fib[f])'
    BY DEF QueueAsked, AskedBefore, MayGet, ResultsOf
  <2> QED BY <2>3, <2>4 DEF CalleeInv
<1>2. p \in pending[m] /\ StillAsked(fib[p.f], fib'[p.f], id)
  <2>1. next_req_id[m] \in Nat
    BY DEF TypeInv, TypeOK
  <2> QED BY <1>1, <2>1
<1>3. MayAnswer(fib[p.f], id, n, x)
  BY <1>1, <1>2 DEF CalleeInv
<1>4. Script[fib[p.f].mod][fib[p.f].fn] \in Seq(SUBSET Call)
  <2>1. p.f \in Live(m)
    BY <1>2 DEF FiberInv, ThreadOk, PendingOk
  <2> QED BY <2>1, BodyLedgers, ScriptAssumption
<1> QED BY <1>2, <1>3, <1>4, AnswerStays

\* The queue of a sequence that goes on, and may take the first answer.
LEMMA QueueStays ==
  ASSUME TypeInv, FiberInv, CalleeInv, NEW m \in Modules, NEW f \in Live(m), NEW s,
         s.mod = fib[f].mod, s.fn = fib[f].fn, s.pc \in Nat, s.pc >= fib[f].pc,
         s.rq = fib[f].rq \/ TakesFirst(fib[f], s)
  PROVE  QueueAsked(m, s)
<1>1. /\ fib[f].pc \in Nat /\ fib[f].rq \in Seq([req_id : Int, result : Argument])
      /\ Script[fib[f].mod][fib[f].fn] \in Seq(SUBSET Call)
  BY BodyLedgers, ScriptAssumption DEF Fiber
<1>2. QueueAsked(m, fib[f])
  BY DEF CalleeInv
<1>3. ASSUME NEW i \in DOMAIN fib[f].rq
      PROVE  \E n \in Modules : AskedBefore(s, n, fib[f].rq[i].result)
  BY <1>1, <1>2, <1>3, AskedLater DEF QueueAsked
<1>4. CASE s.rq = fib[f].rq
  BY <1>2, <1>3, <1>4 DEF QueueAsked
<1>5. CASE TakesFirst(fib[f], s)
  <2>1. \A i \in DOMAIN s.rq : i + 1 \in DOMAIN fib[f].rq /\ s.rq[i] = fib[f].rq[i + 1]
    <3> DEFINE q == fib[f].rq
    <3>1. /\ Tail(q) \in Seq([req_id : Int, result : Argument]) /\ Len(Tail(q)) = Len(q) - 1
          /\ \A i \in 1..Len(Tail(q)) : Tail(q)[i] = q[i + 1]
      BY <1>1, <1>5, HeadTailProperties DEF TakesFirst
    <3>2. /\ DOMAIN Tail(q) = 1..Len(Tail(q)) /\ DOMAIN q = 1..Len(q) /\ Len(q) \in Nat
      BY <1>1, <3>1, LenProperties
    <3>3. s.rq = Tail(q)
      BY <1>5 DEF TakesFirst
    <3> HIDE DEF q
    <3>4. \A i \in DOMAIN Tail(q) : i + 1 \in DOMAIN q /\ Tail(q)[i] = q[i + 1]
      BY <3>1, <3>2
    <3> QED BY <3>3, <3>4 DEF q
  <2> QED BY <1>2, <1>3, <2>1 DEF QueueAsked
<1> QED BY <1>4, <1>5

-----------------------------------------------------------------------------
(* Who answers: the scheduler *)

\* What is in a sequence of events put together from two.
LEMMA ConcatSet ==
  ASSUME NEW S, NEW s \in Seq(S), NEW t \in Seq(S)
  PROVE  ToSet(s \o t) \subseteq ToSet(s) \cup ToSet(t)
<1> DEFINE u == s \o t
<1>1. /\ Len(s) \in Nat /\ Len(t) \in Nat
      /\ DOMAIN s = 1..Len(s) /\ DOMAIN t = 1..Len(t) /\ DOMAIN u = 1..(Len(s) + Len(t))
      /\ \A i \in 1..(Len(s) + Len(t)) : u[i] = IF i <= Len(s) THEN s[i] ELSE t[i - Len(s)]
  <2>1. u \in Seq(S) /\ Len(u) = Len(s) + Len(t)
        /\ \A i \in 1..(Len(s) + Len(t)) : u[i] = IF i <= Len(s) THEN s[i] ELSE t[i - Len(s)]
    BY ConcatProperties
  <2> HIDE DEF u
  <2> QED BY <2>1, LenProperties
<1> HIDE DEF u
<1>2. ASSUME NEW i \in 1..(Len(s) + Len(t)) PROVE u[i] \in ToSet(s) \cup ToSet(t)
  <2>1. CASE i <= Len(s)
    <3>1. i \in 1..Len(s) /\ u[i] = s[i]
      BY <1>1, <2>1
    <3> QED BY <1>1, <3>1 DEF ToSet
  <2>2. CASE ~(i <= Len(s))
    <3>1. i - Len(s) \in 1..Len(t) /\ u[i] = t[i - Len(s)]
      BY <1>1, <2>2
    <3> QED BY <1>1, <3>1 DEF ToSet
  <2> QED BY <2>1, <2>2
<1> QED BY <1>1, <1>2 DEF ToSet, u

\* The first event of a batch, and the others, are in it.
LEMMA HeadTailSet ==
  ASSUME NEW S, NEW s \in Seq(S), s # <<>>
  PROVE  Head(s) \in ToSet(s) /\ ToSet(Tail(s)) \subseteq ToSet(s)
<1> DEFINE t == Tail(s)
<1>1. /\ Head(s) = s[1] /\ 1 \in DOMAIN s
      /\ DOMAIN t = 1..(Len(s) - 1) /\ DOMAIN s = 1..Len(s) /\ Len(s) \in Nat
      /\ \A i \in 1..(Len(s) - 1) : t[i] = s[i + 1]
  <2>1. t \in Seq(S) /\ Len(t) = Len(s) - 1 /\ \A i \in 1..Len(t) : t[i] = s[i + 1]
    BY HeadTailProperties
  <2>2. Head(s) = s[1] /\ Len(s) \in Nat /\ Len(s) # 0
    BY LenProperties, EmptySeq
  <2> HIDE DEF t
  <2> QED BY <2>1, <2>2, LenProperties
<1> HIDE DEF t
<1>2. \A i \in 1..(Len(s) - 1) : i + 1 \in 1..Len(s)
  BY <1>1
<1> QED BY <1>1, <1>2 DEF ToSet, t

\* The scheduler brings no event in.
LEMMA SchedHeld ==
  ASSUME TypeOK, NEW m \in Modules, Sched(m) \/ SpuriousWake(m)
  PROVE  \A k \in Modules : Held(k)' \subseteq Held(k)
<1>0. evs[m] \in Seq(Event) /\ inbox[m] \in Seq(Event) /\ deferred[m] \in Seq(Event)
  BY QueueTypes
<1>1. /\ HandlesOne(m) \/ TakesAll(m) \/ Stops(m) \/ NoEvent(m)
      /\ \A k \in Modules \ {m} : /\ inbox'[k] = inbox[k] /\ evs'[k] = evs[k]
                                  /\ deferred'[k] = deferred[k]
  BY SchedStream
<1>2. \A k \in Modules \ {m} : Held(k)' = Held(k)
  BY <1>1 DEF Held
<1>3. ToSet(<<>>) = {}
  BY DEF ToSet
<1>4. CASE HandlesOne(m)
  <2>1. evs[m] # <<>> /\ Head(evs[m]) \in Event
    BY <1>4, HeadEvent DEF HandlesOne
  <2>2. Head(evs[m]) \in ToSet(evs[m]) /\ ToSet(Tail(evs[m])) \subseteq ToSet(evs[m])
    BY <1>0, <2>1, HeadTailSet
  <2>3. ToSet(Append(deferred[m], Head(evs[m]))) = ToSet(deferred[m]) \cup {Head(evs[m])}
    BY <1>0, <2>1, AppendedSet
  <2>4. Held(m)' = ToSet(inbox'[m]) \cup ToSet(evs'[m]) \cup ToSet(deferred'[m])
    BY DEF Held
  <2>5. Held(m)' \subseteq Held(m)
    BY <1>4, <2>2, <2>3, <2>4 DEF HandlesOne, Held
  <2> QED BY <1>2, <2>5
<1>5. CASE TakesAll(m) \/ Stops(m)
  <2>1. ToSet(Refilled(m)) \subseteq ToSet(deferred[m]) \cup ToSet(inbox[m])
    BY <1>0, ConcatSet DEF Refilled
  <2>2. ToSet(StillDeferred(m)) \subseteq ToSet(deferred[m])
    BY <1>3 DEF StillDeferred
  <2>3. Held(m)' = ToSet(inbox'[m]) \cup ToSet(evs'[m]) \cup ToSet(deferred'[m])
    BY DEF Held
  <2>4. Held(m)' \subseteq Held(m)
    BY <1>3, <1>5, <2>1, <2>2, <2>3 DEF TakesAll, Stops, Held
  <2> QED BY <1>2, <2>4
<1>6. CASE NoEvent(m)
  <2>1. Held(m)' = Held(m)
    BY <1>6 DEF NoEvent, Held
  <2> QED BY <1>2, <2>1
<1> QED BY <1>1, <1>4, <1>5, <1>6

\* ... and serves nothing new: what it launches answers the START it handled.
LEMMA SchedServes ==
  ASSUME TypeInv, FiberInv, NEW m \in Modules, Sched(m) \/ SpuriousWake(m),
         NEW k \in Modules, NEW n \in Modules, NEW id, NEW x, Serves(n, k, id, x)'
  PROVE  Serves(n, k, id, x)
<1>1. \A j \in Modules : Held(j)' \subseteq Held(j)
  BY SchedHeld DEF TypeInv
<1>2. SchedFibers(m)
  BY SchedMoves
<1>3. ASSUME NEW g \in Live(n)', fib'[g].reply_to = k, fib'[g].reply_req_id = id,
             x \in ResultsOf(n, fib'[g].fn)
      PROVE  Serves(n, k, id, x)
  <2>1. CASE g \in Live(n)
    BY <1>2, <1>3, <2>1 DEF SchedFibers, SamePlace, Serves
  <2>2. CASE g \notin Live(n)
    <3>1. n = m /\ Answerable(m, fib'[g])
      BY <1>2, <1>3, <2>2 DEF SchedFibers
    <3>2. k # EXTERNAL
      BY DEF EXTERNAL, Modules
    <3>3. /\ evs[m] # <<>> /\ Head(evs[m]).type = "START"
          /\ Head(evs[m]).requester = k /\ Head(evs[m]).req_id = id
          /\ Head(evs[m]).seq = fib'[g].fn
      BY <1>3, <3>1, <3>2 DEF Answerable
    <3>4. evs[m] \in Seq(Event)
      BY QueueTypes DEF TypeInv
    <3>5. Head(evs[m]) \in ToSet(evs[m])
      BY <3>3, <3>4, HeadTailSet
    <3>6. x \in ResultsOf(m, Head(evs[m]).seq)
      BY <1>3, <3>1, <3>3
    <3> QED BY <3>1, <3>3, <3>5, <3>6 DEF Serves, Held
  <2> QED BY <2>1, <2>2
<1>4. \/ \E e \in Held(n)' : /\ e.type = "START" /\ e.requester = k /\ e.req_id = id
                              /\ x \in ResultsOf(n, e.seq)
      \/ \E g \in Live(n)' : /\ fib'[g].reply_to = k /\ fib'[g].reply_req_id = id
                              /\ x \in ResultsOf(n, fib'[g].fn)
      \/ \E e \in Held(k)' : /\ e.type = "REPLY" /\ e.requester = n /\ e.req_id = id
                              /\ e.result = x
  BY DEF Serves, ResultsOf
<1> QED BY <1>1, <1>3, <1>4 DEF Serves

\* The waits of a fiber change when it is resumed.
LEMMA SchedWaits ==
  ASSUME TypeInv, FiberInv, NEW m \in Modules, Sched(m) \/ SpuriousWake(m), NEW f \in Fibers
  PROVE  \/ fib'[f].waits = fib[f].waits /\ fib'[f].wait_req_id = fib[f].wait_req_id
         \/ /\ fib'[f].waits = {}
            /\ \/ f \in Unused /\ fib[f].waits = {}
               \/ TimerFires(m, f) \/ ReplyEndsRequest(m, f) \/ ReplyEndsWait(m, f)
<1>0. fib \in [Fibers -> Fiber]
  BY DEF TypeInv, TypeOK
<1>1. \/ fib' = fib
      \/ \E g \in Fibers : \/ TimerFires(m, g) \/ ReplyEndsRequest(m, g) \/ ReplyEndsWait(m, g)
                           \/ ReplyQueued(m, g) \/ StartSequence(m, g) \/ StartHandler(m, g)
  BY DEF Sched, SpuriousWake, Sleep, StartPass, TakeInbox, Stopped, TimerHeldBack, Defer,
         StartRefused, NotifyRefused, ReplyUnknown, Dropped, Reap, EndPass
<1>2. ASSUME NEW g \in Fibers, NEW r, fib' = [fib EXCEPT ![g] = r], r.waits = {}
      PROVE  fib'[g].waits = {} /\ \A h \in Fibers \ {g} : fib'[h] = fib[h]
  BY <1>0, <1>2
<1>3. ASSUME NEW g \in Fibers,
             \/ TimerFires(m, g) \/ ReplyEndsRequest(m, g) \/ ReplyEndsWait(m, g)
      PROVE  fib'[g].waits = {} /\ \A h \in Fibers \ {g} : fib'[h] = fib[h]
  <2> DEFINE e == Head(evs[m])
             r1 == [AfterTimer(g) EXCEPT !.waits = {}]
             r2 == [[fib[g] EXCEPT !.src = ReplySrc(e)] EXCEPT !.waits = {}]
             r3 == [[fib[g] EXCEPT !.src = ReplySrc(e), !.async_outstanding = @ - 1]
                      EXCEPT !.waits = {}]
  <2>1. fib' \in {[fib EXCEPT ![g] = r1], [fib EXCEPT ![g] = r2], [fib EXCEPT ![g] = r3]}
    BY <1>3 DEF TimerFires, ReplyEndsRequest, ReplyEndsWait, Resume
  <2>2. r1.waits = {} /\ r2.waits = {} /\ r3.waits = {}
    BY <1>0 DEF AfterTimer, Fiber
  <2> HIDE DEF r1, r2, r3
  <2> QED BY <1>2, <2>1, <2>2
<1>4. ASSUME NEW g \in Fibers, ReplyQueued(m, g)
      PROVE  /\ fib'[g].waits = fib[g].waits /\ fib'[g].wait_req_id = fib[g].wait_req_id
             /\ \A h \in Fibers \ {g} : fib'[h] = fib[h]
  BY <1>0, <1>4 DEF ReplyQueued, Fiber
<1>5. ASSUME NEW g \in Fibers, StartSequence(m, g) \/ StartHandler(m, g)
      PROVE  /\ fib'[g].waits = {} /\ g \in Unused /\ fib[g].waits = {}
             /\ \A h \in Fibers \ {g} : fib'[h] = fib[h]
  <2>1. loop[m] = "run" /\ g \in Unused
    BY <1>5 DEF StartSequence, StartHandler, Handles, Scheduling
  <2>2. fib[g].waits = {}
    BY <2>1, HeapRunning DEF FiberInv
  <2> DEFINE e == Head(evs[m])
             r1 == [FreshFiber(m, e.seq, e.requester, e.req_id,
                               Src("IGNORE", e.requester, 0, e.req_id)) EXCEPT !.waits = {}]
             r2 == [FreshFiber(m, "recv_notify", EXTERNAL, 0,
                               Src("SUCCESS", e.requester, e.client_id, 0)) EXCEPT !.waits = {}]
  <2>3. fib' \in {[fib EXCEPT ![g] = r1], [fib EXCEPT ![g] = r2]}
    BY <1>5 DEF StartSequence, StartHandler, Launch, Resume
  <2>4. r1.waits = {} /\ r2.waits = {}
    BY DEF FreshFiber
  <2> HIDE DEF r1, r2
  <2> QED BY <1>2, <2>1, <2>2, <2>3, <2>4
<1> QED BY <1>1, <1>3, <1>4, <1>5

\* What stays pending is still asked: an answer or a timeout that ends a request
\* takes its entry.
LEMMA SchedAsked ==
  ASSUME TypeInv, FiberInv, CollectInv, NEW m \in Modules, Sched(m) \/ SpuriousWake(m),
         NEW k \in Modules, NEW p \in pending'[k]
  PROVE  p \in pending[k] /\ StillAsked(fib[p.f], fib'[p.f], p.req_id)
<1> DEFINE f == p.f
<1>0. pending \in [Modules -> SUBSET PendingEntry]
  BY DEF TypeInv, TypeOK
<1>1. \/ pending' = pending
      \/ \E g \in Fibers : \/ TimerFires(m, g) \/ ReplyEndsRequest(m, g) \/ ReplyEndsWait(m, g)
                           \/ ReplyQueued(m, g)
  BY DEF Sched, SpuriousWake, Sleep, StartPass, TakeInbox, Stopped, TimerHeldBack, Defer,
         StartRefused, NotifyRefused, ReplyUnknown, Dropped, Reap, EndPass, StartSequence,
         StartHandler
<1>2. ASSUME NEW g \in Fibers,
             \/ TimerFires(m, g) \/ ReplyEndsRequest(m, g) \/ ReplyEndsWait(m, g)
             \/ ReplyQueued(m, g)
      PROVE  pending' = pending \/ \E id : pending' = PendingTake(m, id)
  BY <1>2 DEF TimerFires, ReplyEndsRequest, ReplyEndsWait, ReplyQueued, Replied,
              PendingAfterTimer
<1>3. p \in pending[k]
  BY <1>0, <1>1, <1>2 DEF PendingTake
<1>4. f \in Live(k) /\ f \in Fibers /\ f \notin Unused
  BY <1>3, RefersType DEF FiberInv, ThreadOk, PendingOk, TypeInv, Refers, Unused
<1>5. SamePlace(fib[f], fib'[f]) /\ fib[f].pc \in Nat
  BY <1>4, SchedMoves, FiberType DEF SchedFibers, TypeInv
<1>6. ASSUME f \in Live(m) PROVE k = m
  BY <1>4, <1>6 DEF FiberInv, HeapOk
<1>7. CASE fib'[f].waits = fib[f].waits /\ fib'[f].wait_req_id = fib[f].wait_req_id
  BY <1>3, <1>5, <1>7 DEF StillAsked, SamePlace, InsideOf
<1>8. ASSUME fib'[f].waits = {}, p.req_id \notin InsideOf(fib[f])
      PROVE  StillAsked(fib[f], fib'[f], p.req_id)
  BY <1>5, <1>8 DEF StillAsked, SamePlace, InsideOf
<1> HIDE DEF f
<1>9. CASE fib'[f].waits = {} /\ TimerFires(m, f)
  <2>1. f \in Live(m) /\ pending' = PendingAfterTimer(m, f)
    BY <1>9 DEF TimerFires, FiberInv, ThreadOk, SchedulerOk
  <2>2. "reply" \in fib[f].waits => pending'[m] = Without(pending[m], fib[f].wait_req_id)
    BY <1>0, <2>1 DEF PendingAfterTimer, PendingTake, Without
  <2>3. p.req_id \notin InsideOf(fib[f])
    BY <1>6, <2>1, <2>2 DEF Without, InsideOf
  <2> QED BY <1>3, <1>8, <1>9, <2>3 DEF f
<1>10. CASE fib'[f].waits = {} /\ (ReplyEndsRequest(m, f) \/ ReplyEndsWait(m, f))
  <2> DEFINE id == Head(evs[m]).req_id
  <2>1. /\ Pending(id, f) \in pending[m] /\ pending' = PendingTake(m, id)
        /\ AwaitsThis(f, Head(evs[m])) \/ "any" \in fib[f].waits
    BY <1>10 DEF ReplyEndsRequest, ReplyEndsWait, Replied, AwaitedBy
  <2>2. f \in Live(m)
    BY <2>1 DEF FiberInv, ThreadOk, PendingOk, Pending
  <2>3. ~({"reply", "any"} \subseteq fib[f].waits)
    BY <2>2 DEF FiberInv, ThreadOk, FibersOk, RecordOk
  <2>4. pending'[m] = Without(pending[m], id)
    BY <1>0, <2>1 DEF PendingTake, Without
  <2>5. "reply" \in fib[f].waits => fib[f].wait_req_id = id
    BY <2>1, <2>3 DEF AwaitsThis
  <2> HIDE DEF id
  <2>6. p.req_id \notin InsideOf(fib[f])
    BY <1>6, <2>2, <2>4, <2>5 DEF Without, InsideOf
  <2> QED BY <1>3, <1>8, <1>10, <2>6 DEF f
<1> QED BY <1>3, <1>4, <1>7, <1>9, <1>10, SchedWaits DEF f

\* A fiber's queue changes when a reply is put into it.
LEMMA SchedQueues ==
  ASSUME TypeInv, FiberInv, NEW m \in Modules, Sched(m) \/ SpuriousWake(m),
         NEW k \in Modules, NEW f \in Live(k)
  PROVE  fib'[f].rq = fib[f].rq \/ ReplyQueued(m, f)
<1>0. fib \in [Fibers -> Fiber] /\ f \in Fibers /\ f \notin Unused
  BY RefersType DEF TypeInv, TypeOK, Refers, Unused
<1>1. \/ fib' = fib
      \/ \E g \in Fibers : \/ TimerFires(m, g) \/ ReplyEndsRequest(m, g) \/ ReplyEndsWait(m, g)
                           \/ ReplyQueued(m, g) \/ StartSequence(m, g) \/ StartHandler(m, g)
  BY DEF Sched, SpuriousWake, Sleep, StartPass, TakeInbox, Stopped, TimerHeldBack, Defer,
         StartRefused, NotifyRefused, ReplyUnknown, Dropped, Reap, EndPass
<1>2. ASSUME NEW g \in Fibers,
             \/ TimerFires(m, g) \/ ReplyEndsRequest(m, g) \/ ReplyEndsWait(m, g)
      PROVE  fib'[f].rq = fib[f].rq
  <2> DEFINE e == Head(evs[m])
             r1 == [AfterTimer(g) EXCEPT !.waits = {}]
             r2 == [[fib[g] EXCEPT !.src = ReplySrc(e)] EXCEPT !.waits = {}]
             r3 == [[fib[g] EXCEPT !.src = ReplySrc(e), !.async_outstanding = @ - 1]
                      EXCEPT !.waits = {}]
  <2>1. fib' \in {[fib EXCEPT ![g] = r1], [fib EXCEPT ![g] = r2], [fib EXCEPT ![g] = r3]}
    BY <1>2 DEF TimerFires, ReplyEndsRequest, ReplyEndsWait, Resume
  <2>2. r1.rq = fib[g].rq /\ r2.rq = fib[g].rq /\ r3.rq = fib[g].rq
    BY <1>0 DEF AfterTimer, Fiber
  <2> HIDE DEF r1, r2, r3
  <2> QED BY <1>0, <2>1, <2>2
<1>3. ASSUME NEW g \in Fibers, g # f,
             ReplyQueued(m, g) \/ StartSequence(m, g) \/ StartHandler(m, g)
      PROVE  fib'[f].rq = fib[f].rq
  BY <1>0, <1>3 DEF ReplyQueued, StartSequence, StartHandler, Launch, Resume
<1>4. ~StartSequence(m, f) /\ ~StartHandler(m, f)
  BY <1>0 DEF StartSequence, StartHandler
<1> QED BY <1>1, <1>2, <1>3, <1>4

\* A reply that pending leads to a fiber of m is one its request may have.
LEMMA HandledReply ==
  ASSUME TypeInv, FiberInv, CalleeInv, NEW m \in Modules, Handles(m, "REPLY"), NEW f,
         AwaitedBy(m, Head(evs[m]), f)
  PROVE  LET e == Head(evs[m]) IN
         /\ f \in Live(m) /\ e.requester \in Modules /\ e.result \in Argument
         /\ MayAnswer(fib[f], e.req_id, e.requester, e.result)
<1> DEFINE e == Head(evs[m])
           p == Pending(e.req_id, f)
<1>1. e \in Event /\ e \in Held(m) /\ e.type = "REPLY"
  <2>1. evs[m] # <<>> /\ e.type = "REPLY" /\ evs[m] \in Seq(Event)
    BY QueueTypes DEF Handles, TypeInv
  <2>2. e \in Event /\ e \in ToSet(evs[m])
    BY <2>1, HeadEvent, HeadTailSet DEF TypeInv
  <2> QED BY <2>1, <2>2 DEF Held
<1>2. p \in pending[m] /\ p.f = f /\ p.req_id = e.req_id
  BY DEF AwaitedBy, Pending
<1> HIDE DEF e, p
<1>3. f \in Live(m)
  BY <1>2 DEF FiberInv, ThreadOk, PendingOk
<1>4. e.requester \in Modules /\ e.result \in Argument /\ e.req_id \in Int
  BY <1>1 DEF CalleeInv, Event
<1>5. Serves(e.requester, m, e.req_id, e.result)
  BY <1>1 DEF Serves
<1>6. MayAnswer(fib[f], e.req_id, e.requester, e.result)
  BY <1>2, <1>4, <1>5 DEF CalleeInv
<1> QED BY <1>3, <1>4, <1>6 DEF e

\* What the scheduler queues with a fiber was asked for.
LEMMA SchedQueueAsked ==
  ASSUME TypeInv, FiberInv, CalleeInv, NEW m \in Modules, Sched(m) \/ SpuriousWake(m),
         NEW k \in Modules, NEW f \in Live(k)'
  PROVE  QueueAsked(k, fib'[f])
<1>1. SchedFibers(m)
  BY SchedMoves
<1>2. CASE f \notin Live(k)
  <2>1. k = m /\ fib'[f].mod = m /\ fib'[f].rq = <<>>
    BY <1>1, <1>2 DEF SchedFibers
  <2> QED BY <2>1 DEF QueueAsked
<1>3. CASE f \in Live(k)
  <2>1. /\ fib'[f].mod = fib[f].mod /\ fib'[f].fn = fib[f].fn /\ fib'[f].pc = fib[f].pc
        /\ fib[f] \in Fiber /\ fib[f].pc \in Nat
        /\ fib[f].rq \in Seq([req_id : Int, result : Argument])
        /\ Script[fib[f].mod][fib[f].fn] \in Seq(SUBSET Call)
    <3>1. SamePlace(fib[f], fib'[f])
      BY <1>1, <1>3 DEF SchedFibers
    <3>2. /\ fib[f] \in Fiber
          /\ Script[fib[f].mod][fib[f].fn] \in Seq(SUBSET Call)
      BY <1>3, BodyLedgers, ScriptAssumption
    <3> QED BY <3>1, <3>2 DEF SamePlace, Fiber
  <2>2. CASE fib'[f].rq = fib[f].rq
    BY <1>3, <2>1, <2>2, QueueStays
  <2>3. CASE ReplyQueued(m, f)
    <3> DEFINE e == Head(evs[m])
               q == fib[f].rq
               x == [req_id |-> e.req_id, result |-> e.result]
    <3>1. /\ f \in Live(m) /\ e.requester \in Modules /\ e.result \in Argument
          /\ MayAnswer(fib[f], e.req_id, e.requester, e.result)
      BY <2>3, HandledReply DEF ReplyQueued, Replied
    <3>2. k = m
      BY <1>3, <3>1 DEF FiberInv, HeapOk
    <3>3. AskedBefore(fib[f], e.requester, e.result)
      BY <2>3, <3>1 DEF ReplyQueued, AwaitsThis, MayAnswer, InsideOf
    <3>4. AskedBefore(fib'[f], e.requester, e.result)
      BY <2>1, <3>3, AskedLater
    <3>5. fib'[f].rq = Append(q, x)
      <4>1. f \in Fibers /\ fib \in [Fibers -> Fiber]
        BY <3>1, RefersType DEF TypeInv, TypeOK, Refers
      <4> QED BY <2>1, <2>3, <4>1 DEF ReplyQueued, Fiber
    <3>6. x.result = e.result
      OBVIOUS
    <3> HIDE DEF x, e
    <3>7. \A i \in DOMAIN Append(q, x) : \/ i \in DOMAIN q /\ Append(q, x)[i] = q[i]
                                         \/ Append(q, x)[i] = x
      <4>1. /\ Len(q) \in Nat /\ DOMAIN q = 1..Len(q)
            /\ DOMAIN Append(q, x) = 1..(Len(q) + 1)
            /\ \A i \in 1..Len(q) : Append(q, x)[i] = q[i]
            /\ Append(q, x)[Len(q) + 1] = x
        <5>1. x \in [req_id : Int, result : Argument]
          <6>1. e \in Event
            <7>1. evs[m] # <<>>
              BY <2>3 DEF ReplyQueued, Replied, Handles
            <7> QED BY <7>1, HeadEvent DEF TypeInv, e
          <6> QED BY <6>1 DEF x, Event
        <5> HIDE DEF q
        <5>2. q \in Seq([req_id : Int, result : Argument])
          BY <2>1 DEF q
        <5> QED BY <5>1, <5>2, AppendProperties, LenProperties
      <4> HIDE DEF q
      <4> QED BY <4>1
    <3>8. \A i \in DOMAIN q : \E n \in Modules : AskedBefore(fib'[f], n, q[i].result)
      <4>1. \A i \in DOMAIN q : \E n \in Modules : AskedBefore(fib[f], n, q[i].result)
        BY <1>3 DEF CalleeInv, QueueAsked
      <4>2. ASSUME NEW n, NEW y, AskedBefore(fib[f], n, y) PROVE AskedBefore(fib'[f], n, y)
        BY <2>1, <4>2, AskedLater
      <4> QED BY <4>1, <4>2
    <3>9. fib'[f].mod = k
      BY <1>3, <2>1 DEF CalleeInv, QueueAsked
    <3> HIDE DEF q
    <3> QED BY <3>1, <3>4, <3>5, <3>6, <3>7, <3>8, <3>9 DEF QueueAsked
  <2> QED BY <1>3, <2>2, <2>3, SchedQueues
<1> QED BY <1>2, <1>3

\* The scheduler keeps CalleeInv.
LEMMA SchedCallee ==
  ASSUME TypeInv, FiberInv, CollectInv, CalleeInv, NEW m \in Modules,
         Sched(m) \/ SpuriousWake(m)
  PROVE  CalleeInv'
<1>1. \A k \in Modules : Held(k)' \subseteq Held(k)
  BY SchedHeld DEF TypeInv
<1>2. next_req_id' = next_req_id
  BY DEF Sched, SpuriousWake, Sleep, StartPass, TakeInbox, Stopped, TimerFires, TimerHeldBack,
         Defer, StartRefused, NotifyRefused, ReplyUnknown, Dropped, StartSequence, StartHandler,
         ReplyEndsRequest, ReplyEndsWait, ReplyQueued, Reap, EndPass
<1>3. \A k \in Modules : next_req_id'[k] \in Nat /\ next_req_id'[k] >= next_req_id[k]
  BY <1>2 DEF TypeInv, TypeOK
<1>4. \A k \in Modules : \A e \in Held(k)' : e.type = "REPLY" => e.requester \in Modules
  BY <1>1 DEF CalleeInv
<1>5. \A k, n \in Modules : \A id \in Int, x \in Argument :
        Serves(n, k, id, x)' => Serves(n, k, id, x)
  BY SchedServes
<1>6. \A k \in Modules : \A p \in pending'[k] :
        p \in pending[k] /\ StillAsked(fib[p.f], fib'[p.f], p.req_id)
  BY SchedAsked
<1>7. \A k \in Modules : \A f \in Live(k)' : QueueAsked(k, fib'[f])
  BY SchedQueueAsked
<1> QED BY <1>3, <1>4, <1>5, <1>6, <1>7, CalleeKept

\* What a step does that ends a fiber's wait, or hands over a queued answer.
ComesFromCallee(f) ==
  LET src == fib'[f].src IN
  /\ "reply" \in fib[f].waits /\ "reply" \notin fib'[f].waits =>
       src.result = "REQ_TIMEOUT" \/ AskedInRequest(fib[f], src.thread_idx, src.result)
  /\ "any" \in fib[f].waits /\ "any" \notin fib'[f].waits =>
       AskedBefore(fib[f], src.thread_idx, src.result)
  /\ Len(fib'[f].rq) < Len(fib[f].rq) =>
       \E n \in Modules : AskedBefore(fib[f], n, src.result)

\* What keeps the queue from growing shorter, and no wait from ending.
LEMMA NothingHandedOver ==
  ASSUME TypeInv, NEW f \in Fibers, fib'[f].waits = fib[f].waits, fib'[f].rq = fib[f].rq
  PROVE  ComesFromCallee(f)
<1>1. Len(fib[f].rq) \in Nat
  BY FiberType, LenProperties DEF TypeInv
<1> QED BY <1>1 DEF ComesFromCallee

\* The scheduler takes nothing out of a queue.
LEMMA SchedNoShorter ==
  ASSUME TypeInv, FiberInv, NEW m \in Modules, Sched(m) \/ SpuriousWake(m),
         NEW k \in Modules, NEW f \in Live(k)
  PROVE  ~(Len(fib'[f].rq) < Len(fib[f].rq))
<1> DEFINE q == fib[f].rq
           x == [req_id |-> Head(evs[m]).req_id, result |-> Head(evs[m]).result]
<1>1. f \in Fibers /\ fib \in [Fibers -> Fiber]
  BY RefersType DEF TypeInv, TypeOK, Refers
<1>2. q \in Seq([req_id : Int, result : Argument]) /\ Len(q) \in Nat
  BY <1>1, FiberType, LenProperties DEF TypeInv
<1>3. CASE fib'[f].rq = q
  BY <1>2, <1>3
<1>4. CASE ReplyQueued(m, f)
  <2>1. fib'[f].rq = Append(q, x)
    BY <1>1, <1>4 DEF ReplyQueued, Fiber
  <2>2. x \in [req_id : Int, result : Argument]
    <3>1. Head(evs[m]) \in Event
      BY <1>4, HeadEvent DEF TypeInv, ReplyQueued, Replied, Handles
    <3> QED BY <3>1 DEF Event
  <2> HIDE DEF q, x
  <2>3. Len(Append(q, x)) = Len(q) + 1
    BY <1>2, <2>2, AppendProperties
  <2> QED BY <1>2, <2>1, <2>3 DEF q
<1> QED BY <1>3, <1>4, SchedQueues

\* An answer that wakes a fiber names a module that served the request, and has a
\* result it may have.
LEMMA SchedAnswers ==
  ASSUME TypeInv, FiberInv, CollectInv, CalleeInv, NEW m \in Modules,
         Sched(m) \/ SpuriousWake(m), NEW k \in Modules, NEW f \in Live(k)
  PROVE  ComesFromCallee(f)
<1>0. f \in Fibers /\ fib[f] \in Fiber /\ fib \in [Fibers -> Fiber] /\ f \notin Unused
  BY RefersType DEF TypeInv, TypeOK, Refers, Unused
<1>1. ~(Len(fib'[f].rq) < Len(fib[f].rq))
  BY SchedNoShorter
<1>2. CASE TimerFires(m, f)
  <2> DEFINE r == [AfterTimer(f) EXCEPT !.waits = {}]
  <2>1. fib' = [fib EXCEPT ![f] = r] /\ f \in Live(m) /\ "timer" \in fib[f].waits
    BY <1>2 DEF TimerFires, Resume, FiberInv, ThreadOk, SchedulerOk
  <2>2. "any" \notin fib[f].waits
    BY <2>1 DEF CollectInv, Collected
  <2>3. "reply" \in fib[f].waits => r.src.result = "REQ_TIMEOUT"
    BY <1>0 DEF AfterTimer, Src, Fiber
  <2> HIDE DEF r
  <2> QED BY <1>0, <1>1, <2>1, <2>2, <2>3 DEF ComesFromCallee
<1>3. CASE ReplyEndsRequest(m, f) \/ ReplyEndsWait(m, f)
  <2> DEFINE e == Head(evs[m])
             id == e.req_id
             n == e.requester
             x == e.result
  <2>1. /\ Handles(m, "REPLY") /\ AwaitedBy(m, e, f)
        /\ AwaitsThis(f, e) \/ "any" \in fib[f].waits
    BY <1>3 DEF ReplyEndsRequest, ReplyEndsWait, Replied
  <2>2. f \in Live(m) /\ n \in Modules /\ MayAnswer(fib[f], id, n, x)
    BY <2>1, HandledReply
  <2>3. ~({"reply", "any"} \subseteq fib[f].waits)
    BY <2>2 DEF FiberInv, ThreadOk, FibersOk, RecordOk
  <2> DEFINE r1 == [[fib[f] EXCEPT !.src = ReplySrc(e)] EXCEPT !.waits = {}]
             r2 == [[fib[f] EXCEPT !.src = ReplySrc(e), !.async_outstanding = @ - 1]
                      EXCEPT !.waits = {}]
  <2>4. fib'[f].src = ReplySrc(e)
    <3>1. fib' \in {[fib EXCEPT ![f] = r1], [fib EXCEPT ![f] = r2]}
      BY <1>3 DEF ReplyEndsRequest, ReplyEndsWait, Resume
    <3>2. r1.src = ReplySrc(e) /\ r2.src = ReplySrc(e)
      BY <1>0 DEF Fiber
    <3> HIDE DEF r1, r2
    <3> QED BY <1>0, <3>1, <3>2
  <2>5. fib'[f].src.thread_idx = n /\ fib'[f].src.result = x
    <3>1. n \in 0..31 => n % 256 = n
      OBVIOUS
    <3>2. n \in 0..31
      BY <2>2, ModulesAssumption DEF Modules, MAX_MODULE
    <3> QED BY <2>4, <3>1, <3>2 DEF ReplySrc, Src, Uint8
  <2>6. "reply" \in fib[f].waits => fib[f].wait_req_id = id
    BY <2>1, <2>3 DEF AwaitsThis
  <2> HIDE DEF e, id, n, x
  <2> QED BY <1>1, <2>2, <2>3, <2>5, <2>6 DEF ComesFromCallee, MayAnswer, InsideOf
<1>4. CASE fib'[f].waits = fib[f].waits
  BY <1>1, <1>4 DEF ComesFromCallee
<1> QED BY <1>0, <1>2, <1>3, <1>4, SchedWaits

-----------------------------------------------------------------------------
(* Who answers: the calls *)

\* An event that is posted is all that is new in the queues.
LEMMA PostHeld ==
  ASSUME TypeOK, NEW t \in Int, NEW e \in Event, Post(t, e), UNCHANGED <<evs, deferred>>,
         NEW k \in Modules, NEW x \in Held(k)'
  PROVE  x \in Held(k) \/ (k = t /\ x = e)
<1>1. Held(k)' = ToSet(inbox'[k]) \cup ToSet(evs[k]) \cup ToSet(deferred[k])
  BY DEF Held
<1>2. inbox'[k] = inbox[k] \/ (k = t /\ inbox'[k] = Append(inbox[k], e))
  BY DEF Post, TypeOK
<1>3. ToSet(Append(inbox[k], e)) = ToSet(inbox[k]) \cup {e}
  BY QueueTypes, AppendedSet
<1> QED BY <1>1, <1>2, <1>3 DEF Held

\* No call changes whom a fiber replies to.
LEMMA SameReplies ==
  ASSUME TypeInv, NEW m \in Modules, NEW f \in Fibers, NEW c,
         Calls(m, f, c) \/ NotifyCalls(m, f, c)
  PROVE  /\ UNCHANGED <<fibers, evs, deferred>>
         /\ \E r : fib' = [fib EXCEPT ![f] = r] /\ Onward(fib[f], r, c)
         /\ \A g \in Fibers : /\ fib'[g].reply_to = fib[g].reply_to /\ fib'[g].fn = fib[g].fn
                              /\ fib'[g].reply_req_id = fib[g].reply_req_id
<1>1. UNCHANGED <<fibers, evs, deferred>>
  BY CallMoves, NotifyMoves
<1>2. PICK r : fib' = [fib EXCEPT ![f] = r] /\ Onward(fib[f], r, c)
  BY CallMoves, NotifyMoves
<1>3. fib \in [Fibers -> Fiber]
  BY DEF TypeInv, TypeOK
<1> QED BY <1>1, <1>2, <1>3 DEF Onward

\* What a step serves that posts e to t, and one that posts nothing.
LEMMA PostServes ==
  ASSUME TypeInv, UNCHANGED <<fibers, evs, deferred>>,
         \A g \in Fibers : /\ fib'[g].reply_to = fib[g].reply_to /\ fib'[g].fn = fib[g].fn
                           /\ fib'[g].reply_req_id = fib[g].reply_req_id,
         NEW k \in Modules, NEW n \in Modules, NEW id, NEW x, Serves(n, k, id, x)'
  PROVE  /\ inbox' = inbox => Serves(n, k, id, x)
         /\ \A t \in Int, e \in Event : Post(t, e) =>
              \/ Serves(n, k, id, x)
              \/ /\ n = t /\ e.type = "START" /\ e.requester = k /\ e.req_id = id
                 /\ x \in ResultsOf(n, e.seq)
              \/ k = t /\ e.type = "REPLY" /\ e.requester = n /\ e.req_id = id /\ e.result = x
<1>1. \/ \E v \in Held(n)' : /\ v.type = "START" /\ v.requester = k /\ v.req_id = id
                              /\ x \in ResultsOf(n, v.seq)
      \/ \E g \in Live(n)' : /\ fib'[g].reply_to = k /\ fib'[g].reply_req_id = id
                              /\ x \in ResultsOf(n, fib'[g].fn)
      \/ \E v \in Held(k)' : /\ v.type = "REPLY" /\ v.requester = n /\ v.req_id = id
                              /\ v.result = x
  BY DEF Serves, ResultsOf
<1>2. Live(n)' = Live(n) /\ Live(n) \subseteq Fibers
  BY RefersType DEF Live, TypeInv, Refers
<1>3. ASSUME NEW g \in Live(n)', fib'[g].reply_to = k, fib'[g].reply_req_id = id,
             x \in ResultsOf(n, fib'[g].fn)
      PROVE  Serves(n, k, id, x)
  BY <1>2, <1>3 DEF Serves
<1>4. inbox' = inbox => Serves(n, k, id, x)
  <2>1. ASSUME inbox' = inbox PROVE Held(n)' = Held(n) /\ Held(k)' = Held(k)
    BY <2>1 DEF Held
  <2> QED BY <1>1, <1>3, <2>1 DEF Serves
<1>5. ASSUME NEW t \in Int, NEW e \in Event, Post(t, e)
      PROVE  \/ Serves(n, k, id, x)
             \/ /\ n = t /\ e.type = "START" /\ e.requester = k /\ e.req_id = id
                /\ x \in ResultsOf(n, e.seq)
             \/ k = t /\ e.type = "REPLY" /\ e.requester = n /\ e.req_id = id /\ e.result = x
  <2>1. \A v \in Held(n)' : v \in Held(n) \/ (n = t /\ v = e)
    BY <1>5, PostHeld DEF TypeInv
  <2>2. \A v \in Held(k)' : v \in Held(k) \/ (k = t /\ v = e)
    BY <1>5, PostHeld DEF TypeInv
  <2> QED BY <1>1, <1>3, <2>1, <2>2 DEF Serves
<1> QED BY <1>4, <1>5

\* The calls of notifications wait for nothing.
LEMMA NotifyWaits ==
  ASSUME TypeInv, NEW m \in Modules, NEW f \in Fibers, NEW c, NotifyCalls(m, f, c)
  PROVE  fib'[f].waits = fib[f].waits
<1>1. fib[f] \in Fiber /\ fib \in [Fibers -> Fiber]
  BY DEF TypeInv, TypeOK
<1>2. ASSUME NEW r, fib' = [fib EXCEPT ![f] = r], r.waits = fib[f].waits
      PROVE  fib'[f].waits = fib[f].waits
  BY <1>1, <1>2
<1>3. /\ Past(f).waits = fib[f].waits
      /\ [fib[f] EXCEPT !.reg = AfterTest(next_client_id), !.cat = c.arg].waits = fib[f].waits
      /\ \A x : [fib[f] EXCEPT !.reg = x].waits = fib[f].waits
      /\ [Past(f) EXCEPT !.reg = NotReg, !.cat = ""].waits = fib[f].waits
      /\ \A i : [fib[f] EXCEPT !.fan = i, !.cat = c.arg].waits = fib[f].waits
      /\ [Past(f) EXCEPT !.fan = 0, !.cat = ""].waits = fib[f].waits
  BY <1>1 DEF Past, Fiber
<1>4. CASE \/ RegRefused(m, f, c)
           \/ \E cid, i : UnregNotify(m, f, c, cid, i) \/ UnregUnknown(m, f, c, cid)
  <2>1. fib' = [fib EXCEPT ![f] = Past(f)]
    BY <1>4 DEF RegRefused, UnregNotify, UnregUnknown
  <2> QED BY <1>2, <1>3, <2>1
<1>5. CASE RegTest(m, f, c)
  <2>1. fib' = [fib EXCEPT ![f] = [fib[f] EXCEPT !.reg = AfterTest(next_client_id), !.cat = c.arg]]
    BY <1>5 DEF RegTest
  <2> QED BY <1>2, <1>3, <2>1
<1>6. CASE RegWrap(m, f, c) \/ RegRead(m, f, c)
  <2>1. \E x : fib' = [fib EXCEPT ![f] = [fib[f] EXCEPT !.reg = x]]
    BY <1>6 DEF RegWrap, RegRead
  <2> QED BY <1>2, <1>3, <2>1
<1>7. CASE RegWrite(m, f, c)
  <2>1. fib' = [fib EXCEPT ![f] = [Past(f) EXCEPT !.reg = NotReg, !.cat = ""]]
    BY <1>7 DEF RegWrite
  <2> QED BY <1>2, <1>3, <2>1
<1>8. ASSUME NEW i, NotifyOne(m, f, c, i) PROVE fib'[f].waits = fib[f].waits
  <2>1. fib' = [fib EXCEPT ![f] = [fib[f] EXCEPT !.fan = i, !.cat = c.arg]]
    BY <1>8 DEF NotifyOne
  <2> QED BY <1>2, <1>3, <2>1
<1>9. CASE NotifyDone(m, f, c)
  <2>1. fib' = [fib EXCEPT ![f] = [Past(f) EXCEPT !.fan = 0, !.cat = ""]]
    BY <1>9 DEF NotifyDone
  <2> QED BY <1>2, <1>3, <2>1
<1> QED BY <1>4, <1>5, <1>6, <1>7, <1>8, <1>9 DEF NotifyCalls

\* The request the running fiber is inside after a call is the one the call makes.
LEMMA CallInside ==
  ASSUME TypeInv, FiberInv, NEW m \in Modules, NEW f \in Fibers, Running(m, f), NEW c,
         Calls(m, f, c) \/ NotifyCalls(m, f, c)
  PROVE  /\ InsideOf(fib[f]) = {}
         /\ Request(m, f, c) => InsideOf(fib'[f]) = {next_req_id[m]}
         /\ ~Request(m, f, c) => InsideOf(fib'[f]) = {}
<1>1. fib[f] \in Fiber /\ fib[f].waits = {} /\ fib \in [Fibers -> Fiber]
  BY Current DEF RecordOk, TypeInv, TypeOK
<1> DEFINE src == Src(Head(fib[f].rq).result, 0, 0, Head(fib[f].rq).req_id)
<1>2. Request(m, f, c) => "reply" \in fib'[f].waits /\ fib'[f].wait_req_id = next_req_id[m]
  BY <1>1 DEF Request, RequestFlags, Past, Fiber
<1>3. ASSUME NEW r, fib' = [fib EXCEPT ![f] = r], "reply" \notin r.waits
      PROVE  "reply" \notin fib'[f].waits
  BY <1>1, <1>3
<1>4. /\ "reply" \notin Past(f).waits /\ "reply" \notin AfterOne(f, c).waits
      /\ "reply" \notin [Past(f) EXCEPT !.async_outstanding = @ + 1].waits
      /\ "reply" \notin [Past(f) EXCEPT !.waits = @ \cup {"timer"}].waits
      /\ "reply" \notin [AfterOne(f, c) EXCEPT !.waits = @ \cup {"any"}].waits
      /\ "reply" \notin [fib[f] EXCEPT !.done = TRUE].waits
  BY <1>1 DEF Past, AfterOne, Fiber
<1>5. "reply" \notin [AfterOne(f, c) EXCEPT !.rq = Tail(@), !.async_outstanding = @ - 1,
                                             !.src = src].waits
  BY <1>1 DEF Past, AfterOne, Fiber
<1>6. ASSUME Calls(m, f, c), ~Request(m, f, c) PROVE "reply" \notin fib'[f].waits
  <2>1. \E r : fib' = [fib EXCEPT ![f] = r] /\ "reply" \notin r.waits
    <3>1. CASE Send(m, f, c) \/ NothingToCollect(m, f, c) \/ ReplyToModule(m, f, c)
               \/ ReplyToExternal(m, f, c) \/ Lock(m, f, c) \/ Unlock(m, f, c)
      <4>1. fib' = [fib EXCEPT ![f] = Past(f)]
        BY <3>1 DEF Send, NothingToCollect, ReplyToModule, ReplyToExternal, Lock, Unlock
      <4> QED BY <1>4, <4>1
    <3>2. CASE RequestAsync(m, f, c)
      <4>1. fib' = [fib EXCEPT ![f] = [Past(f) EXCEPT !.async_outstanding = @ + 1]]
        BY <3>2 DEF RequestAsync
      <4> QED BY <1>4, <4>1
    <3>3. CASE WaitTimeout(m, f, c)
      <4>1. fib' = [fib EXCEPT ![f] = [Past(f) EXCEPT !.waits = @ \cup {"timer"}]]
        BY <3>3 DEF WaitTimeout
      <4> QED BY <1>4, <4>1
    <3>4. CASE WaitForReply(m, f, c)
      <4>1. fib' = [fib EXCEPT ![f] = [AfterOne(f, c) EXCEPT !.waits = @ \cup {"any"}]]
        BY <3>4 DEF WaitForReply
      <4> QED BY <1>4, <4>1
    <3>5. CASE CollectQueued(m, f, c)
      <4>1. fib' = [fib EXCEPT ![f] = [AfterOne(f, c) EXCEPT
                      !.rq = Tail(@), !.async_outstanding = @ - 1, !.src = src]]
        BY <3>5 DEF CollectQueued
      <4> QED BY <1>5, <4>1
    <3>6. CASE Return(m, f, c)
      <4>1. fib' = [fib EXCEPT ![f] = [fib[f] EXCEPT !.done = TRUE]]
        BY <3>6 DEF Return
      <4> QED BY <1>4, <4>1
    <3> QED BY <1>6, <3>1, <3>2, <3>3, <3>4, <3>5, <3>6 DEF Calls
  <2> QED BY <1>3, <2>1
<1>7. NotifyCalls(m, f, c) => ~Request(m, f, c)
  BY DEF NotifyCalls, RegRefused, RegTest, RegWrap, RegRead, RegWrite, UnregNotify, UnregUnknown,
         NotifyOne, NotifyDone, Registering, Notifying, Request, Makes
<1>8. NotifyCalls(m, f, c) => fib'[f].waits = fib[f].waits
  BY NotifyWaits
<1> QED BY <1>1, <1>2, <1>6, <1>7, <1>8 DEF InsideOf

\* What was pending before a call is still asked after it.
LEMMA CallAsked ==
  ASSUME TypeInv, FiberInv, NEW m \in Modules, NEW f \in Fibers, Running(m, f), NEW c,
         Calls(m, f, c) \/ NotifyCalls(m, f, c), NEW k \in Modules, NEW p \in pending[k]
  PROVE  StillAsked(fib[p.f], fib'[p.f], p.req_id)
<1>1. PICK r : fib' = [fib EXCEPT ![f] = r] /\ Onward(fib[f], r, c)
  BY SameReplies
<1>2. /\ fib \in [Fibers -> Fiber] /\ fib[f].pc \in Nat /\ next_req_id[m] \in Nat
      /\ p.f \in Fibers /\ p.req_id \in Nat /\ p.req_id < next_req_id[k] /\ p.f \in Live(k)
      /\ fib[p.f].pc \in Nat
  <2>1. p \in PendingEntry /\ next_req_id[m] \in Nat /\ fib \in [Fibers -> Fiber]
    BY DEF TypeInv, TypeOK
  <2>2. p.f \in Fibers /\ p.req_id \in Nat
    BY <2>1 DEF PendingEntry
  <2>3. p.req_id < next_req_id[k] /\ p.f \in Live(k)
    BY DEF FiberInv, ThreadOk, PendingOk
  <2> QED BY <2>1, <2>2, <2>3, FiberType DEF TypeInv
<1>3. CASE p.f = f
  <2>1. k = m
    BY <1>2, <1>3, Current DEF FiberInv, HeapOk
  <2>2. p.req_id \notin InsideOf(fib'[f]) /\ p.req_id \notin InsideOf(fib[f])
    BY <1>2, <2>1, CallInside
  <2>3. fib'[f] = r
    BY <1>1, <1>2
  <2> QED BY <1>1, <1>2, <1>3, <2>2, <2>3 DEF StillAsked, Onward
<1>4. CASE p.f # f
  <2>1. fib'[p.f] = fib[p.f]
    BY <1>1, <1>2, <1>4
  <2> QED BY <1>2, <2>1 DEF StillAsked
<1> QED BY <1>3, <1>4

\* What is queued after a call was queued before it.
LEMMA CallQueues ==
  ASSUME TypeInv, FiberInv, CalleeInv, NEW m \in Modules, NEW f \in Fibers, Running(m, f),
         NEW c, Calls(m, f, c) \/ NotifyCalls(m, f, c), NEW k \in Modules, NEW g \in Live(k)'
  PROVE  QueueAsked(k, fib'[g])
<1>1. PICK r : fib' = [fib EXCEPT ![f] = r] /\ Onward(fib[f], r, c)
  BY SameReplies
<1>2. /\ fib \in [Fibers -> Fiber] /\ fib[f].pc \in Nat /\ g \in Live(k) /\ g \in Fibers
  <2>1. g \in Live(k)
    BY SameReplies DEF Live
  <2> QED BY <2>1, RefersType, FiberType DEF TypeInv, TypeOK, Refers
<1>3. CASE g = f
  <2>1. /\ r.mod = fib[f].mod /\ r.fn = fib[f].fn /\ r.pc \in Nat /\ r.pc >= fib[f].pc
        /\ r.rq = fib[f].rq \/ TakesFirst(fib[f], r)
    BY <1>1, <1>2 DEF Onward
  <2>2. QueueAsked(k, r)
    BY <1>2, <1>3, <2>1, QueueStays
  <2> QED BY <1>1, <1>2, <1>3, <2>2
<1>4. CASE g # f
  <2>1. fib'[g] = fib[g]
    BY <1>1, <1>2, <1>4
  <2> QED BY <1>2, <2>1 DEF CalleeInv
<1> QED BY <1>3, <1>4

\* A call that makes a request, or sends, serves its own number besides.
LEMMA AskCallee ==
  ASSUME TypeInv, FiberInv, CalleeInv, NEW m \in Modules, NEW f \in Fibers, Running(m, f),
         NEW c \in NextCalls(m), Request(m, f, c) \/ RequestAsync(m, f, c) \/ Send(m, f, c)
  PROVE  CalleeInv'
<1> DEFINE id == next_req_id[m]
           e == StartEv(c.seq, id, m)
           p == Pending(id, f)
<1>0. /\ c \in Call /\ c.to \in Int /\ id \in Nat /\ fib \in [Fibers -> Fiber]
      /\ pending \in [Modules -> SUBSET PendingEntry] /\ next_req_id \in [Modules -> Nat]
      /\ p.f = f /\ p.req_id = id
      /\ \A k \in Modules : \A q \in pending[k] : q.req_id \in Nat /\ q.req_id < next_req_id[k]
  <2>1. c \in Call /\ c.to \in Int
    BY CallType DEF Running, Call
  <2>2. /\ id \in Nat /\ fib \in [Fibers -> Fiber]
        /\ pending \in [Modules -> SUBSET PendingEntry] /\ next_req_id \in [Modules -> Nat]
    BY DEF TypeInv, TypeOK
  <2>3. \A k \in Modules : \A q \in pending[k] : q \in PendingEntry /\ q.req_id < next_req_id[k]
    BY <2>2 DEF FiberInv, ThreadOk, PendingOk
  <2>4. \A q \in PendingEntry : q.req_id \in Nat
    BY DEF PendingEntry
  <2>5. p.f = f /\ p.req_id = id
    BY DEF Pending
  <2> HIDE DEF p, id
  <2> QED BY <2>1, <2>2, <2>3, <2>4, <2>5
<1>1. e \in Event /\ e.type = "START" /\ e.requester = m /\ e.req_id = id /\ e.seq = c.seq
  <2>1. c.seq \in Name /\ id \in Int
    BY <1>0 DEF Call
  <2>2. e \in Event
    BY <2>1, EvType
  <2> QED BY <2>2 DEF StartEv, Ev
<1>2. Post(c.to, e) /\ next_req_id' = [next_req_id EXCEPT ![m] = @ + 1]
  BY DEF Request, RequestAsync, Send
<1>3. \/ /\ Send(m, f, c) /\ pending' = pending
      \/ /\ Request(m, f, c) \/ RequestAsync(m, f, c)
         /\ pending'[m] = pending[m] \cup {p} /\ \A k \in Modules \ {m} : pending'[k] = pending[k]
  BY <1>0 DEF Request, RequestAsync, Send, PendingAdd
<1>4. Calls(m, f, c)
  BY DEF Calls
<1>5. /\ UNCHANGED <<fibers, evs, deferred>>
      /\ \A g \in Fibers : /\ fib'[g].reply_to = fib[g].reply_to /\ fib'[g].fn = fib[g].fn
                           /\ fib'[g].reply_req_id = fib[g].reply_req_id
      /\ \E r : fib' = [fib EXCEPT ![f] = r] /\ Onward(fib[f], r, c)
  BY <1>4, SameReplies
<1>6. Request(m, f, c) \/ RequestAsync(m, f, c)
        => \A x \in ResultsOf(c.to, c.seq) : MayAnswer(fib'[f], id, c.to, x)
  <2>1. PICK r : fib' = [fib EXCEPT ![f] = r] /\ Onward(fib[f], r, c)
    BY <1>5
  <2>2. fib'[f] = r /\ fib[f].pc \in Nat
    BY <1>0, <2>1, FiberType DEF TypeInv
  <2>3. Request(m, f, c) \/ RequestAsync(m, f, c) => r.pc = fib[f].pc + 1 /\ c.op # "return"
    <3> DEFINE r1 == [Past(f) EXCEPT !.wait_req_id = id, !.waits = @ \cup RequestFlags(c)]
               r2 == [Past(f) EXCEPT !.async_outstanding = @ + 1]
    <3>1. fib[f] \in Fiber
      BY <1>0
    <3>2. r1.pc = fib[f].pc + 1 /\ r2.pc = fib[f].pc + 1
      BY <3>1 DEF Past, Fiber
    <3>3. /\ Request(m, f, c) => fib' = [fib EXCEPT ![f] = r1] /\ c.op # "return"
          /\ RequestAsync(m, f, c) => fib' = [fib EXCEPT ![f] = r2] /\ c.op # "return"
      BY DEF Request, RequestAsync
    <3> HIDE DEF r1, r2
    <3> QED BY <1>0, <2>2, <3>2, <3>3
  <2>4. c.op # "return" => /\ fib[f].pc \in DOMAIN Script[fib[f].mod][fib[f].fn]
                           /\ c \in Script[fib[f].mod][fib[f].fn][fib[f].pc]
    BY CallAtPlace
  <2>5. /\ Request(m, f, c) => /\ c.op \in {"request", "request_timeout"}
                               /\ id \in InsideOf(fib'[f])
        /\ RequestAsync(m, f, c) => c.op = "request_async" /\ id \notin InsideOf(fib'[f])
    <3>1. RequestAsync(m, f, c) => ~Request(m, f, c)
      BY DEF Request, RequestAsync
    <3>2. /\ Request(m, f, c) => c.op \in {"request", "request_timeout"}
          /\ RequestAsync(m, f, c) => c.op = "request_async"
      BY DEF Request, RequestAsync
    <3> QED BY <1>4, <3>1, <3>2, CallInside
  <2>6. r.mod = fib[f].mod /\ r.fn = fib[f].fn
    BY <2>1 DEF Onward
  <2>7. fib[f].pc < fib[f].pc + 1
    BY <2>2
  <2> QED BY <2>2, <2>3, <2>4, <2>5, <2>6, <2>7 DEF MayAnswer, AskedInRequest, AskedBefore, MayGet
<1> HIDE DEF e, p, id
<1>7. \A k \in Modules : \A x \in Held(k)' : x.type = "REPLY" => x.requester \in Modules
  <2>1. \A k \in Modules : \A x \in Held(k)' : x \in Held(k) \/ x = e
    BY <1>0, <1>1, <1>2, <1>5, PostHeld DEF TypeInv
  <2> QED BY <1>1, <2>1 DEF CalleeInv
<1>8. \A k \in Modules : next_req_id'[k] \in Nat /\ next_req_id'[k] >= next_req_id[k]
  BY <1>0, <1>2
<1>9. id < next_req_id'[m]
  BY <1>0, <1>2 DEF id
<1>10. ASSUME NEW k \in Modules, NEW n \in Modules, NEW j \in Int, NEW x \in Argument,
              Serves(n, k, j, x)'
       PROVE  \/ Serves(n, k, j, x)
              \/ /\ j = next_req_id[k] /\ j < next_req_id'[k]
                 /\ \A q \in pending'[k] : q.req_id = j => MayAnswer(fib'[q.f], j, n, x)
  <2>1. Serves(n, k, j, x) \/ (n = c.to /\ k = m /\ j = id /\ x \in ResultsOf(n, c.seq))
    BY <1>0, <1>1, <1>2, <1>5, <1>10, PostServes
  <2>2. ASSUME n = c.to, k = m, j = id, x \in ResultsOf(n, c.seq),
               NEW q \in pending'[m], q.req_id = id
        PROVE  MayAnswer(fib'[q.f], id, n, x)
    <3>1. q \notin pending[m]
      BY <1>0, <2>2 DEF id
    <3>2. q = p /\ (Request(m, f, c) \/ RequestAsync(m, f, c))
      BY <1>3, <2>2, <3>1
    <3> QED BY <1>0, <1>6, <2>2, <3>2
  <2> QED BY <1>9, <2>1, <2>2 DEF id
<1>11. ASSUME NEW k \in Modules, NEW q \in pending'[k]
       PROVE  \/ q \in pending[k] /\ StillAsked(fib[q.f], fib'[q.f], q.req_id)
              \/ q.req_id = next_req_id[k]
  <2>1. q \in pending[k] \/ (k = m /\ q = p)
    BY <1>3, <1>11
  <2>2. q \in pending[k] => StillAsked(fib[q.f], fib'[q.f], q.req_id)
    BY <1>4, CallAsked
  <2> QED BY <1>0, <2>1, <2>2 DEF id
<1>12. \A k \in Modules : \A g \in Live(k)' : QueueAsked(k, fib'[g])
  BY <1>4, CallQueues
<1> QED BY <1>7, <1>8, <1>10, <1>11, <1>12, CalleeKept

\* The other calls serve nothing new: coseq_reply sends what its fiber was asked for.
LEMMA OtherCallee ==
  ASSUME TypeInv, FiberInv, CalleeInv, NEW m \in Modules, NEW f \in Fibers, Running(m, f),
         NEW c \in NextCalls(m), Calls(m, f, c) \/ NotifyCalls(m, f, c),
         ~(Request(m, f, c) \/ RequestAsync(m, f, c) \/ Send(m, f, c))
  PROVE  CalleeInv'
<1>0. TypeOK /\ c \in Call /\ notify_clients \in [Modules -> Seq(ListenerEntry)]
  BY CallType DEF TypeInv, TypeOK, Running
<1>1. /\ UNCHANGED <<fibers, evs, deferred>>
      /\ \A g \in Fibers : /\ fib'[g].reply_to = fib[g].reply_to /\ fib'[g].fn = fib[g].fn
                           /\ fib'[g].reply_req_id = fib[g].reply_req_id
  BY SameReplies
<1>2. pending' = pending /\ next_req_id' = next_req_id
  BY DEF Calls, NothingToCollect, CollectQueued, WaitForReply, ReplyToModule, ReplyToExternal,
         WaitTimeout, Lock, Unlock, Return, NotifyCalls, RegRefused, RegTest, RegWrap, RegRead,
         RegWrite, UnregNotify, UnregUnknown, NotifyOne, NotifyDone
<1>3. \/ inbox' = inbox
      \/ \E t \in Int, e \in Event :
           /\ Post(t, e) /\ e.type # "START"
           /\ e.type = "REPLY" => /\ e.requester = m /\ t = fib[f].reply_to
                                  /\ e.req_id = fib[f].reply_req_id
                                  /\ e.result \in ResultsOf(m, fib[f].fn)
  <2>1. CASE ReplyToModule(m, f, c)
    <3> DEFINE e == ReplyEv(fib[f].reply_req_id, m, c.arg)
    <3>1. fib[f].reply_to \in Int /\ fib[f].reply_req_id \in Int /\ c.arg \in Argument
      BY <1>0, FiberType, ModuleIndex DEF Call
    <3>2. e \in Event
      BY <3>1, EvType
    <3>3. /\ e.type = "REPLY" /\ e.requester = m /\ e.req_id = fib[f].reply_req_id
          /\ e.result = c.arg
      BY DEF ReplyEv, Ev
    <3>4. c.arg \in ResultsOf(m, fib[f].fn)
      <4>1. f \in Live(m) /\ fib[f].mod = m
        BY Current DEF CalleeInv, QueueAsked
      <4>2. fib[f].fn \in DOMAIN Script[m]
        BY <4>1, BodyLedgers
      <4>3. fib[f].pc \in DOMAIN Script[m][fib[f].fn] /\ c \in Script[m][fib[f].fn][fib[f].pc]
        BY <2>1, <4>1, CallAtPlace DEF ReplyToModule
      <4> QED BY <2>1, <3>1, <4>2, <4>3 DEF ReplyToModule, ResultsOf
    <3> QED BY <2>1, <3>1, <3>2, <3>3, <3>4 DEF ReplyToModule
  <2>2. ASSUME NEW i, NotifyOne(m, f, c, i)
        PROVE  \E t \in Int, e \in Event : Post(t, e) /\ e.type = "NOTIFY"
    <3>1. /\ i \in DOMAIN notify_clients[m]
          /\ Post(notify_clients[m][i].listener_module, NotifyEv(m, notify_clients[m][i].client_id))
      BY <2>2 DEF NotifyOne, LeftToNotify
    <3>2. PICK l \in ListenerEntry : l = notify_clients[m][i]
      BY <1>0, <3>1, ElementOfSeq, LenProperties
    <3>3. PICK t \in Int : t = l.listener_module
      BY <3>2, ModuleIndex, 0 \in Int DEF ListenerEntry
    <3>4. PICK e \in Event : e = NotifyEv(m, l.client_id)
      BY <3>2, EvType DEF ListenerEntry
    <3>5. e.type = "NOTIFY"
      BY <3>4 DEF NotifyEv, Ev
    <3> QED BY <3>1, <3>2, <3>3, <3>4, <3>5
  <2>3. inbox' = inbox \/ ReplyToModule(m, f, c) \/ \E i : NotifyOne(m, f, c, i)
    BY DEF Calls, NothingToCollect, CollectQueued, WaitForReply, ReplyToExternal, WaitTimeout,
           Lock, Unlock, Return, NotifyCalls, RegRefused, RegTest, RegWrap, RegRead, RegWrite,
           UnregNotify, UnregUnknown, NotifyDone
  <2> QED BY <2>1, <2>2, <2>3
<1>4. f \in Live(m) /\ m \in Modules
  BY Current
<1>5. \A k \in Modules : \A x \in Held(k)' : x.type = "REPLY" => x.requester \in Modules
  <2>1. CASE inbox' = inbox
    <3>1. \A k \in Modules : Held(k)' = Held(k)
      BY <1>1, <2>1 DEF Held
    <3> QED BY <3>1 DEF CalleeInv
  <2>2. ASSUME NEW t \in Int, NEW e \in Event, Post(t, e), e.type = "REPLY" => e.requester = m
        PROVE  \A k \in Modules : \A x \in Held(k)' : x.type = "REPLY" => x.requester \in Modules
    <3>1. \A k \in Modules : \A x \in Held(k)' : x \in Held(k) \/ x = e
      BY <1>0, <1>1, <2>2, PostHeld
    <3> QED BY <2>2, <3>1 DEF CalleeInv
  <2> QED BY <1>3, <2>1, <2>2
<1>6. ASSUME NEW k \in Modules, NEW n \in Modules, NEW j \in Int, NEW x \in Argument,
             Serves(n, k, j, x)'
      PROVE  Serves(n, k, j, x)
  <2>1. CASE inbox' = inbox
    BY <1>1, <1>6, <2>1, PostServes
  <2>2. ASSUME NEW t \in Int, NEW e \in Event, Post(t, e), e.type # "START",
               e.type = "REPLY" => /\ e.requester = m /\ t = fib[f].reply_to
                                   /\ e.req_id = fib[f].reply_req_id
                                   /\ e.result \in ResultsOf(m, fib[f].fn)
        PROVE  Serves(n, k, j, x)
    <3>1. \/ Serves(n, k, j, x)
          \/ k = t /\ e.type = "REPLY" /\ e.requester = n /\ e.req_id = j /\ e.result = x
      BY <1>1, <1>6, <2>2, PostServes
    <3> QED BY <1>4, <2>2, <3>1 DEF Serves
  <2> QED BY <1>3, <2>1, <2>2
<1>7. \A k \in Modules : next_req_id'[k] \in Nat /\ next_req_id'[k] >= next_req_id[k]
  BY <1>0, <1>2 DEF TypeOK
<1>8. \A k \in Modules : \A q \in pending'[k] :
        q \in pending[k] /\ StillAsked(fib[q.f], fib'[q.f], q.req_id)
  BY <1>2, CallAsked
<1>9. \A k \in Modules : \A g \in Live(k)' : QueueAsked(k, fib'[g])
  BY CallQueues
<1> QED BY <1>5, <1>6, <1>7, <1>8, <1>9, CalleeKept

-----------------------------------------------------------------------------
(* Who answers: every step *)

\* An external thread asks for no module, and the owner only takes away.
LEMMA CalleeElsewhere ==
  ASSUME TypeInv, FiberInv, CalleeInv,
         \/ \E f \in Fibers : TimePasses(f)
         \/ \E c \in Clients : External(c)
         \/ Owner \/ UNCHANGED vars
  PROVE  CalleeInv' /\ fib' = fib
<1>0. TypeOK /\ fib' = fib /\ next_req_id' = next_req_id
  BY DEF TypeInv, TimePasses, External, RequestSync, ExtRequestAsync, SyncReturns, Owner,
         BeginTeardown, StopModule, FreeModules, vars
<1>1. ASSUME \A k \in Modules : pending'[k] \subseteq pending[k],
             \A k \in Modules : \A x \in Held(k)' : x.type = "REPLY" => x.requester \in Modules,
             \A k, n \in Modules : \A id \in Int, x \in Argument :
               Serves(n, k, id, x)' => Serves(n, k, id, x),
             \A k \in Modules : Live(k)' \subseteq Live(k)
      PROVE  CalleeInv'
  <2>1. \A k \in Modules : next_req_id'[k] \in Nat /\ next_req_id'[k] >= next_req_id[k]
    BY <1>0 DEF TypeOK
  <2>2. ASSUME NEW k \in Modules, NEW p \in pending'[k]
        PROVE  p \in pending[k] /\ StillAsked(fib[p.f], fib'[p.f], p.req_id)
    <3>1. p \in pending[k] /\ p.f \in Fibers
      BY <1>1, <2>2 DEF TypeInv, TypeOK, PendingEntry
    <3>2. fib[p.f].pc \in Nat
      BY <1>0, <3>1, FiberType
    <3> QED BY <1>0, <3>1, <3>2 DEF StillAsked
  <2>3. \A k \in Modules : \A f \in Live(k)' : QueueAsked(k, fib'[f])
    BY <1>0, <1>1 DEF CalleeInv
  <2> QED BY <1>1, <2>1, <2>2, <2>3, CalleeKept
<1>2. ASSUME NEW c \in Clients, NEW x \in ExtCalls, RequestSync(c, x) \/ ExtRequestAsync(c, x)
      PROVE  CalleeInv'
  <2> DEFINE e == StartEv(x.seq, ext_id, EXTERNAL)
  <2>1. Post(x.to, e) /\ UNCHANGED <<fibers, evs, deferred, pending>>
    BY <1>2 DEF RequestSync, ExtRequestAsync, schedVars
  <2>2. /\ e \in Event /\ e.type = "START" /\ x.to \in Int /\ e.requester = EXTERNAL
        /\ EXTERNAL \notin Modules
    <3>1. ext_id \in Int /\ x.seq \in Name /\ x.to \in Int
      BY <1>0, ExternalAssumption DEF TypeOK
    <3>2. e \in Event
      BY <3>1, EvType
    <3> QED BY <3>1, <3>2 DEF StartEv, Ev, EXTERNAL, Modules
  <2> HIDE DEF e
  <2>3. \A k \in Modules : \A y \in Held(k)' : y \in Held(k) \/ y = e
    BY <1>0, <2>1, <2>2, PostHeld
  <2>4. \A k, n \in Modules : \A id \in Int, a \in Argument :
          Serves(n, k, id, a)' => Serves(n, k, id, a)
    BY <1>0, <2>1, <2>2, PostServes
  <2>5. \A k \in Modules : \A y \in Held(k)' : y.type = "REPLY" => y.requester \in Modules
    BY <2>2, <2>3 DEF CalleeInv
  <2>6. \A k \in Modules : Live(k)' \subseteq Live(k)
    BY <2>1 DEF Live
  <2> QED BY <1>1, <2>1, <2>4, <2>5, <2>6
<1>3. CASE \/ \E f \in Fibers : TimePasses(f)
           \/ \E c \in Clients : SyncReturns(c)
           \/ BeginTeardown \/ (\E m \in Modules : StopModule(m)) \/ UNCHANGED vars
  <2>1. UNCHANGED <<fibers, inbox, evs, deferred, pending>>
    BY <1>3 DEF TimePasses, SyncReturns, BeginTeardown, StopModule, vars, schedVars
  <2>2. \A k \in Modules : Held(k)' = Held(k)
    BY <2>1 DEF Held
  <2>3. \A k, n \in Modules : \A id \in Int, x \in Argument :
          Serves(n, k, id, x)' => Serves(n, k, id, x)
    <3>1. ASSUME NEW k \in Modules, NEW n \in Modules, NEW id, NEW x, Serves(n, k, id, x)'
          PROVE  Serves(n, k, id, x)
      <4>1. Live(n)' = Live(n)
        BY <2>1 DEF Live
      <4>2. \/ \E v \in Held(n)' : /\ v.type = "START" /\ v.requester = k /\ v.req_id = id
                                    /\ x \in ResultsOf(n, v.seq)
            \/ \E g \in Live(n)' : /\ fib'[g].reply_to = k /\ fib'[g].reply_req_id = id
                                    /\ x \in ResultsOf(n, fib'[g].fn)
            \/ \E v \in Held(k)' : /\ v.type = "REPLY" /\ v.requester = n /\ v.req_id = id
                                    /\ v.result = x
        BY <3>1 DEF Serves, ResultsOf
      <4> QED BY <1>0, <2>2, <4>1, <4>2 DEF Serves
    <3> QED BY <3>1
  <2>4. \A k \in Modules : \A x \in Held(k)' : x.type = "REPLY" => x.requester \in Modules
    BY <2>2 DEF CalleeInv
  <2>5. \A k \in Modules : pending'[k] \subseteq pending[k] /\ Live(k)' \subseteq Live(k)
    BY <2>1 DEF Live
  <2> QED BY <1>0, <1>1, <2>3, <2>4, <2>5
<1>4. CASE FreeModules
  <2>1. /\ evs' = evs
        /\ \A k \in Modules : /\ fibers'[k] = <<>> /\ pending'[k] = {}
                              /\ inbox'[k] = <<>> /\ deferred'[k] = <<>>
    BY <1>4 DEF FreeModules
  <2>2. \A k \in Modules : Held(k)' \subseteq Held(k) /\ Live(k)' = {}
    BY <2>1 DEF Held, Live, ToSet
  <2>3. \A k, n \in Modules : \A id \in Int, x \in Argument :
          Serves(n, k, id, x)' => Serves(n, k, id, x)
    <3>1. ASSUME NEW k \in Modules, NEW n \in Modules, NEW id, NEW x, Serves(n, k, id, x)'
          PROVE  Serves(n, k, id, x)
      <4>1. \/ \E v \in Held(n)' : /\ v.type = "START" /\ v.requester = k /\ v.req_id = id
                                    /\ x \in ResultsOf(n, v.seq)
            \/ \E g \in Live(n)' : TRUE
            \/ \E v \in Held(k)' : /\ v.type = "REPLY" /\ v.requester = n /\ v.req_id = id
                                    /\ v.result = x
        BY <3>1 DEF Serves, ResultsOf
      <4> QED BY <2>2, <4>1 DEF Serves
    <3> QED BY <3>1
  <2>4. \A k \in Modules : \A x \in Held(k)' : x.type = "REPLY" => x.requester \in Modules
    BY <2>2 DEF CalleeInv
  <2>5. \A k \in Modules : pending'[k] \subseteq pending[k] /\ Live(k)' \subseteq Live(k)
    BY <2>1, <2>2
  <2> QED BY <1>0, <1>1, <2>3, <2>4, <2>5
<1> QED BY <1>0, <1>2, <1>3, <1>4 DEF External, Owner

\* What a call takes out of the queue of its fiber was asked for; it ends no wait.
LEMMA CallHandsOver ==
  ASSUME TypeInv, FiberInv, CalleeInv, NEW m \in Modules, NEW f \in Fibers, Running(m, f),
         NEW c, Calls(m, f, c) \/ NotifyCalls(m, f, c)
  PROVE  ComesFromCallee(f)
<1>1. PICK r : fib' = [fib EXCEPT ![f] = r] /\ Onward(fib[f], r, c)
  BY SameReplies
<1>2. /\ fib'[f] = r /\ f \in Live(m) /\ fib[f].waits = {}
      /\ fib[f].rq \in Seq([req_id : Int, result : Argument])
  <2>1. fib \in [Fibers -> Fiber] /\ fib[f].rq \in Seq([req_id : Int, result : Argument])
    BY FiberType DEF TypeInv, TypeOK
  <2>2. f \in Live(m) /\ fib[f].waits = {}
    BY Current DEF RecordOk
  <2> QED BY <1>1, <2>1, <2>2
<1>3. CASE r.rq = fib[f].rq
  <2>1. Len(fib[f].rq) \in Nat
    BY <1>2, LenProperties
  <2> QED BY <1>2, <1>3, <2>1 DEF ComesFromCallee
<1>4. CASE TakesFirst(fib[f], r)
  <2> DEFINE q == fib[f].rq
  <2>1. q # <<>> /\ r.src.result = Head(q).result
    BY <1>4 DEF TakesFirst, Src
  <2>2. 1 \in DOMAIN q /\ Head(q) = q[1]
    <3> HIDE DEF q
    <3>1. q \in Seq([req_id : Int, result : Argument])
      BY <1>2 DEF q
    <3>2. Len(q) \in Nat /\ Len(q) # 0 /\ DOMAIN q = 1..Len(q)
      BY <2>1, <3>1, LenProperties, EmptySeq
    <3> QED BY <2>1, <3>1, <3>2
  <2>3. \E n \in Modules : AskedBefore(fib[f], n, q[1].result)
    BY <1>2, <2>2 DEF CalleeInv, QueueAsked
  <2> HIDE DEF q
  <2> QED BY <1>2, <2>1, <2>2, <2>3 DEF ComesFromCallee
<1> QED BY <1>1, <1>3, <1>4 DEF Onward

\* Every step keeps CalleeInv, and every answer it hands over is a callee's.
LEMMA CalleeStep ==
  ASSUME TypeInv, FiberInv, CollectInv, CalleeInv, [Next]_vars
  PROVE  CalleeInv' /\ \A m \in Modules : \A f \in Live(m) : ComesFromCallee(f)
<1>0. \A m \in Modules : Live(m) \subseteq Fibers
  BY RefersType DEF TypeInv, Refers
<1>1. ASSUME NEW m \in Modules, Sched(m) \/ SpuriousWake(m)
      PROVE  CalleeInv' /\ \A k \in Modules : \A f \in Live(k) : ComesFromCallee(f)
  BY <1>1, SchedCallee, SchedAnswers
<1>2. ASSUME NEW m \in Modules, Sequence(m)
      PROVE  CalleeInv' /\ \A f \in Fibers : ComesFromCallee(f)
  <2> DEFINE f == current[m]
  <2>1. f \in Fibers /\ Running(m, f)
    BY <1>2, CallType DEF Sequence, Running
  <2>2. PICK c \in NextCalls(m) : Calls(m, f, c) \/ NotifyCalls(m, f, c)
    BY <1>2 DEF Sequence
  <2>3. fib \in [Fibers -> Fiber]
    BY DEF TypeInv, TypeOK
  <2> HIDE DEF f
  <2>4. CalleeInv'
    BY <2>1, <2>2, AskCallee, OtherCallee
  <2>5. \A g \in Fibers \ {f} : ComesFromCallee(g)
    <3>1. \A g \in Fibers \ {f} : fib'[g] = fib[g]
      BY <2>1, <2>2, <2>3, CallsChangeOne
    <3> QED BY <3>1, NothingHandedOver
  <2>6. ComesFromCallee(f)
    BY <2>1, <2>2, CallHandsOver
  <2> QED BY <2>4, <2>5, <2>6
<1>3. ASSUME \/ \E f \in Fibers : TimePasses(f)
             \/ \E c \in Clients : External(c)
             \/ Owner \/ UNCHANGED vars
      PROVE  CalleeInv' /\ \A f \in Fibers : ComesFromCallee(f)
  <2>1. CalleeInv' /\ fib' = fib
    BY <1>3, CalleeElsewhere
  <2> QED BY <2>1, NothingHandedOver
<1> QED BY <1>0, <1>1, <1>2, <1>3 DEF Next, Thread

\* coseq_request, coseq_request_timeout, coseq_wait_reply and coseq_gather, for a
\* program whose sequences collect the replies to what they asked: the answer a sequence
\* is handed names, when it comes as the sequence waits, a module the sequence made that
\* request of, and carries a result that the sequence it named replies with, whatever
\* sends, late replies and second replies come in between.
THEOREM CalleesAnswer == CollectsBeforeReturn => (Spec => AnswersComeFromCallee)
<1> SUFFICES ASSUME CollectsBeforeReturn PROVE Spec => AnswersComeFromCallee
  OBVIOUS
<1>1. Init => CalleeInv
  <2>1. ASSUME Init PROVE \A m \in Modules : Held(m) = {} /\ Live(m) = {}
    BY <2>1 DEF Init, Held, Live, ToSet
  <2> QED BY <2>1 DEF CalleeInv, Serves
<1>2. TypeInv /\ FiberInv /\ CollectInv /\ CalleeInv /\ [Next]_vars
        => CalleeInv' /\ \A m \in Modules : \A f \in Live(m) : ComesFromCallee(f)
  BY CalleeStep
<1> QED BY <1>1, <1>2, FiberInvariant, PTL DEF Spec, AnswersComeFromCallee, ComesFromCallee
=============================================================================
