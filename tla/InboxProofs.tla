---------------------------- MODULE InboxProofs ----------------------------
(***************************************************************************)
(* Proofs about Inbox, for every number of posting threads, events, fibers *)
(* and timeouts: the linked lists hold what was posted, the sleep of       *)
(* sched_loop misses neither a post nor a timer, and the whole implements  *)
(* EventQueue.  The sleep rests on the arithmetic of the time helpers.     *)
(***************************************************************************)
EXTENDS Inbox, SequenceTheorems, TLAPS

-----------------------------------------------------------------------------
(* The time helpers against the count of nanoseconds, for every time,       *)
(* every number of milliseconds and any units: ts_add_ms is addition and    *)
(* ts_lt is the order of the integers.                                      *)

LEMMA UnitsPositive == NsPerSec \in Nat /\ NsPerSec > 0
  BY UnitsAssumption DEF NsPerSec

LEMMA SecondsDistribute ==
  ASSUME NEW a \in Int, NEW b \in Int
  PROVE  (a + b) * NsPerSec = a * NsPerSec + b * NsPerSec
  BY UnitsPositive

\* ts_add_ms: the result is a time, and it is ms milliseconds later.
THEOREM AddMsIsLater ==
  ASSUME NEW t \in Timespec, NEW ms \in Nat
  PROVE  /\ ts_add_ms(t, ms) \in Timespec
         /\ Nanoseconds(ts_add_ms(t, ms)) = Nanoseconds(t) + ms * NsPerMs
<1> DEFINE q == ms \div MsPerSec
           r == ms % MsPerSec
           s == t.tv_sec + q
           n == t.tv_nsec + r * NsPerMs
<1>1. MsPerSec \in Nat /\ MsPerSec > 0 /\ NsPerMs \in Nat /\ NsPerMs > 0
  BY UnitsAssumption
<1>2. q \in Nat /\ r \in 0..(MsPerSec - 1) /\ ms = q * MsPerSec + r
  BY <1>1
<1>3. t.tv_sec \in Nat /\ t.tv_nsec \in 0..(NsPerSec - 1)
  BY DEF Timespec
<1>4. r * NsPerMs \in Nat /\ r * NsPerMs < NsPerSec
  <2>1. (MsPerSec - r) * NsPerMs > 0
    BY <1>1, <1>2
  <2>2. (MsPerSec - r) * NsPerMs = NsPerSec - r * NsPerMs
    BY <1>1, <1>2 DEF NsPerSec
  <2> QED BY <2>1, <2>2, <1>1, <1>2, UnitsPositive
<1>5. n \in Nat /\ n < 2 * NsPerSec
  BY <1>3, <1>4, UnitsPositive
<1>6. ms * NsPerMs = q * NsPerSec + r * NsPerMs
  BY <1>1, <1>2 DEF NsPerSec
<1>7. s \in Nat
  BY <1>2, <1>3
<1>8. CASE n >= NsPerSec
  <2>1. ts_add_ms(t, ms) = [tv_sec |-> s + 1, tv_nsec |-> n - NsPerSec]
    BY <1>8 DEF ts_add_ms, Carried
  <2>2. (s + 1) * NsPerSec = t.tv_sec * NsPerSec + q * NsPerSec + NsPerSec
    BY <1>2, <1>3, SecondsDistribute, UnitsPositive
  <2>3. ts_add_ms(t, ms) \in Timespec
    BY <2>1, <1>5, <1>7, <1>8, UnitsPositive DEF Timespec
  <2>4. Nanoseconds(ts_add_ms(t, ms)) = (s + 1) * NsPerSec + (n - NsPerSec)
    BY <2>1 DEF Nanoseconds
  <2> HIDE DEF s
  <2>5. q * NsPerSec \in Nat /\ t.tv_sec * NsPerSec \in Nat
    BY <1>2, <1>3, UnitsPositive
  <2>6. Nanoseconds(t) = t.tv_sec * NsPerSec + t.tv_nsec
    BY DEF Nanoseconds
  <2> QED BY <2>2, <2>3, <2>4, <2>5, <2>6, <1>3, <1>4, <1>6, UnitsPositive
<1>9. CASE ~(n >= NsPerSec)
  <2>1. ts_add_ms(t, ms) = [tv_sec |-> s, tv_nsec |-> n]
    BY <1>9 DEF ts_add_ms, Carried
  <2>2. s * NsPerSec = t.tv_sec * NsPerSec + q * NsPerSec
    <3> HIDE DEF q
    <3>1. t.tv_sec \in Int /\ q \in Int
      BY <1>2, <1>3
    <3> QED BY <3>1, SecondsDistribute
  <2>3. ts_add_ms(t, ms) \in Timespec
    BY <2>1, <1>5, <1>7, <1>9, UnitsPositive DEF Timespec
  <2>4. Nanoseconds(ts_add_ms(t, ms)) = s * NsPerSec + n
    BY <2>1 DEF Nanoseconds
  <2> HIDE DEF s
  <2>5. q * NsPerSec \in Nat /\ t.tv_sec * NsPerSec \in Nat
    BY <1>2, <1>3, UnitsPositive
  <2>6. Nanoseconds(t) = t.tv_sec * NsPerSec + t.tv_nsec
    BY DEF Nanoseconds
  <2> QED BY <2>2, <2>3, <2>4, <2>5, <2>6, <1>3, <1>4, <1>6, UnitsPositive
<1> QED BY <1>8, <1>9

LEMMA NanosecondsIsNat ==
  ASSUME NEW t \in Timespec PROVE Nanoseconds(t) \in Nat
<1>1. t.tv_sec \in Nat /\ t.tv_nsec \in Nat
  BY UnitsPositive DEF Timespec
<1>2. t.tv_sec * NsPerSec \in Nat
  BY <1>1, UnitsPositive
<1> QED BY <1>1, <1>2 DEF Nanoseconds

LEMMA EarlierSecond ==
  ASSUME NEW a \in Timespec, NEW b \in Timespec, a.tv_sec < b.tv_sec
  PROVE  Nanoseconds(a) < Nanoseconds(b)
<1>1. a.tv_sec \in Nat /\ b.tv_sec \in Nat /\ a.tv_nsec \in 0..(NsPerSec - 1)
      /\ b.tv_nsec \in Nat
  BY UnitsPositive DEF Timespec
<1> DEFINE d == b.tv_sec - a.tv_sec - 1
<1>2. d \in Nat /\ d * NsPerSec >= 0
  BY <1>1, UnitsPositive
<1>3. b.tv_sec * NsPerSec = (a.tv_sec + 1 + d) * NsPerSec
  BY <1>1
<1>4. (a.tv_sec + 1 + d) * NsPerSec = a.tv_sec * NsPerSec + NsPerSec + d * NsPerSec
  BY <1>1, <1>2, SecondsDistribute, UnitsPositive
<1>5. a.tv_sec * NsPerSec \in Nat /\ d * NsPerSec \in Nat
  BY <1>1, <1>2, UnitsPositive
<1> HIDE DEF d
<1> QED BY <1>1, <1>2, <1>3, <1>4, <1>5, UnitsPositive DEF Nanoseconds

\* ts_lt: the order of the nanoseconds counted.
THEOREM LtIsEarlier ==
  ASSUME NEW a \in Timespec, NEW b \in Timespec
  PROVE  ts_lt(a, b) <=> Nanoseconds(a) < Nanoseconds(b)
<1>1. a.tv_sec \in Nat /\ b.tv_sec \in Nat /\ a.tv_nsec \in Nat /\ b.tv_nsec \in Nat
  BY UnitsPositive DEF Timespec
<1>2. CASE a.tv_sec < b.tv_sec
  BY <1>2, EarlierSecond DEF ts_lt
<1>3. CASE b.tv_sec < a.tv_sec
  BY <1>3, <1>1, EarlierSecond, NanosecondsIsNat DEF ts_lt
<1>4. CASE a.tv_sec = b.tv_sec
  <2>1. a.tv_sec * NsPerSec \in Nat
    BY <1>1, UnitsPositive
  <2> QED BY <1>4, <1>1, <2>1 DEF ts_lt, Nanoseconds
<1> QED BY <1>1, <1>2, <1>3, <1>4

-----------------------------------------------------------------------------
(* Sequences without repetition *)

\* What is in a sequence that grew at its end.
LEMMA GrownSeq ==
  ASSUME NEW S, NEW s \in Seq(S), NEW e \in S, IsInjective(s), e \notin ToSet(s)
  PROVE  /\ Append(s, e) \in Seq(S) /\ IsInjective(Append(s, e))
         /\ ToSet(Append(s, e)) = ToSet(s) \cup {e}
<1> DEFINE n == Len(s)
           t == Append(s, e)
<1>1. /\ t \in Seq(S) /\ Len(t) = n + 1 /\ n \in Nat
      /\ \A i \in 1..n : t[i] = s[i]
      /\ t[n + 1] = e /\ DOMAIN s = 1..n /\ DOMAIN t = 1..(n + 1)
  BY AppendProperties, LenProperties
<1> HIDE DEF n, t
<1>2. \A i \in 1..n : s[i] # e
  BY <1>1 DEF ToSet
<1>3. \A i \in 1..(n + 1) : i \in 1..n \/ i = n + 1
  BY <1>1
<1>4. IsInjective(t)
  <2> SUFFICES ASSUME NEW i \in 1..(n + 1), NEW j \in 1..(n + 1), t[i] = t[j] PROVE i = j
    BY <1>1 DEF IsInjective
  <2> QED BY <1>1, <1>2, <1>3 DEF IsInjective
<1>5. ToSet(t) = ToSet(s) \cup {e}
  <2>1. ToSet(t) \subseteq ToSet(s) \cup {e}
    BY <1>1, <1>3 DEF ToSet
  <2>2. 1..n \subseteq 1..(n + 1) /\ n + 1 \in 1..(n + 1)
    BY <1>1
  <2>3. ToSet(s) \cup {e} \subseteq ToSet(t)
    BY <1>1, <2>2 DEF ToSet
  <2> QED BY <2>1, <2>3
<1> QED BY <1>1, <1>4, <1>5 DEF t

\* ... in two put one after the other ...
LEMMA JoinedSeq ==
  ASSUME NEW S, NEW a \in Seq(S), NEW b \in Seq(S), IsInjective(a), IsInjective(b),
         ToSet(a) \cap ToSet(b) = {}
  PROVE  /\ a \o b \in Seq(S) /\ IsInjective(a \o b)
         /\ ToSet(a \o b) = ToSet(a) \cup ToSet(b)
<1> DEFINE n == Len(a)
           k == Len(b)
           t == a \o b
<1>1. /\ t \in Seq(S) /\ Len(t) = n + k /\ n \in Nat /\ k \in Nat
      /\ \A i \in 1..(n + k) : t[i] = IF i <= n THEN a[i] ELSE b[i - n]
      /\ DOMAIN a = 1..n /\ DOMAIN b = 1..k /\ DOMAIN t = 1..(n + k)
  BY ConcatProperties, LenProperties
<1> HIDE DEF n, k, t
<1>2. \A i \in 1..n : i \in 1..(n + k) /\ t[i] = a[i]
  BY <1>1
<1>3. \A i \in 1..k : n + i \in 1..(n + k) /\ t[n + i] = b[i]
  <2> SUFFICES ASSUME NEW i \in 1..k PROVE n + i \in 1..(n + k) /\ t[n + i] = b[i]
    OBVIOUS
  <2>1. n + i \in 1..(n + k) /\ ~(n + i <= n) /\ (n + i) - n = i
    BY <1>1
  <2> QED BY <1>1, <2>1
<1>4. \A i \in 1..(n + k) : i \in 1..n \/ \E j \in 1..k : i = n + j
  <2> SUFFICES ASSUME NEW i \in 1..(n + k), i \notin 1..n PROVE \E j \in 1..k : i = n + j
    OBVIOUS
  <2>1. i - n \in 1..k /\ i = n + (i - n)
    BY <1>1
  <2> QED BY <2>1
<1>5. \A i \in 1..n : \A j \in 1..k : a[i] # b[j]
  BY <1>1 DEF ToSet
<1>6. IsInjective(t)
  <2> SUFFICES ASSUME NEW i \in 1..(n + k), NEW j \in 1..(n + k), t[i] = t[j] PROVE i = j
    BY <1>1 DEF IsInjective
  <2>1. CASE i \in 1..n /\ j \in 1..n
    BY <2>1, <1>1, <1>2 DEF IsInjective
  <2>2. CASE i \in 1..n /\ j \notin 1..n
    BY <2>2, <1>2, <1>3, <1>4, <1>5
  <2>3. CASE i \notin 1..n /\ j \in 1..n
    BY <2>3, <1>2, <1>3, <1>4, <1>5
  <2>4. CASE i \notin 1..n /\ j \notin 1..n
    <3>1. PICK u \in 1..k : i = n + u
      BY <2>4, <1>4
    <3>2. PICK v \in 1..k : j = n + v
      BY <2>4, <1>4
    <3>3. b[u] = b[v]
      BY <3>1, <3>2, <1>3
    <3> QED BY <3>1, <3>2, <3>3, <1>1 DEF IsInjective
  <2> QED BY <2>1, <2>2, <2>3, <2>4
<1>7. ToSet(t) = ToSet(a) \cup ToSet(b)
  <2>1. ToSet(t) \subseteq ToSet(a) \cup ToSet(b)
    <3> SUFFICES ASSUME NEW i \in 1..(n + k) PROVE t[i] \in ToSet(a) \cup ToSet(b)
      BY <1>1 DEF ToSet
    <3>1. CASE i \in 1..n
      BY <3>1, <1>1, <1>2 DEF ToSet
    <3>2. CASE i \notin 1..n
      <4>1. PICK u \in 1..k : i = n + u
        BY <3>2, <1>4
      <4>2. t[i] = b[u]
        BY <4>1, <1>3
      <4> QED BY <4>2, <1>1 DEF ToSet
    <3> QED BY <3>1, <3>2
  <2>2. ToSet(a) \cup ToSet(b) \subseteq ToSet(t)
    <3>1. \A i \in 1..n : a[i] \in ToSet(t)
      BY <1>1, <1>2 DEF ToSet
    <3>2. \A i \in 1..k : b[i] \in ToSet(t)
      <4> SUFFICES ASSUME NEW i \in 1..k PROVE b[i] \in ToSet(t)
        OBVIOUS
      <4>1. n + i \in DOMAIN t /\ t[n + i] = b[i]
        BY <1>1, <1>3
      <4> QED BY <4>1 DEF ToSet
    <3> QED BY <3>1, <3>2, <1>1 DEF ToSet
  <2> QED BY <2>1, <2>2
<1> QED BY <1>1, <1>6, <1>7 DEF t

\* ... and in what follows the first of a sequence.
LEMMA RestOfSeq ==
  ASSUME NEW S, NEW s \in Seq(S), IsInjective(s), s # <<>>
  PROVE  /\ Head(s) = s[1] /\ s[1] \in S /\ s[1] \in ToSet(s)
         /\ Tail(s) \in Seq(S) /\ IsInjective(Tail(s))
         /\ Len(Tail(s)) = Len(s) - 1
         /\ \A i \in 1..(Len(s) - 1) : Tail(s)[i] = s[i + 1]
         /\ ToSet(Tail(s)) = ToSet(s) \ {s[1]}
         /\ After(s, s[1]) = Tail(s)
<1> DEFINE n == Len(s)
           t == Tail(s)
<1>1. /\ t \in Seq(S) /\ Len(t) = n - 1 /\ n \in Nat /\ n >= 1
      /\ \A i \in 1..(n - 1) : t[i] = s[i + 1]
      /\ DOMAIN s = 1..n /\ DOMAIN t = 1..(n - 1) /\ \A i \in 1..n : s[i] \in S
      /\ Head(s) = s[1]
  BY HeadTailProperties, LenProperties, ElementOfSeq, EmptySeq
<1>2. After(s, s[1]) = t
  <2>1. (CHOOSE i \in DOMAIN s : s[i] = s[1]) = 1
    <3>1. 1 \in DOMAIN s /\ \A i \in DOMAIN s : s[i] = s[1] => i = 1
      BY <1>1 DEF IsInjective
    <3> QED BY <3>1
  <2>2. After(s, s[1]) = SubSeq(s, 2, n)
    <3>1. After(s, s[1]) = SubSeq(s, 1 + 1, n)
      BY <2>1 DEF After
    <3> HIDE DEF n
    <3> QED BY <3>1
  <2>3. /\ SubSeq(s, 2, n) \in Seq(S) /\ Len(SubSeq(s, 2, n)) = n - 1
        /\ \A i \in 1..(n - 1) : SubSeq(s, 2, n)[i] = s[i + 1]
    <3>1. \A i \in 2..n : s[i] \in S
      BY <1>1
    <3>2. /\ SubSeq(s, 2, n) \in Seq(S)
          /\ Len(SubSeq(s, 2, n)) = IF 2 <= n THEN n - 2 + 1 ELSE 0
          /\ \A i \in 1..(n - 2 + 1) : SubSeq(s, 2, n)[i] = s[2 + i - 1]
      <4> HIDE DEF n
      <4> QED BY <1>1, <3>1, SubSeqProperties
    <3>3. (IF 2 <= n THEN n - 2 + 1 ELSE 0) = n - 1 /\ n - 2 + 1 = n - 1
      BY <1>1
    <3>4. \A i \in 1..(n - 1) : 2 + i - 1 = i + 1
      BY <1>1
    <3> QED BY <3>2, <3>3, <3>4
  <2>4. \A i \in 1..(n - 1) : SubSeq(s, 2, n)[i] = t[i]
    BY <1>1, <2>3
  <2> HIDE DEF n, t
  <2> QED BY <1>1, <2>2, <2>3, <2>4, SeqEqual
<1> HIDE DEF n, t
<1>3. \A i \in 1..(n - 1) : i + 1 \in 1..n
  BY <1>1
<1>4. \A j \in 1..n : j = 1 \/ \E i \in 1..(n - 1) : j = i + 1
  <2> SUFFICES ASSUME NEW j \in 1..n, j # 1 PROVE \E i \in 1..(n - 1) : j = i + 1
    OBVIOUS
  <2>1. j - 1 \in 1..(n - 1) /\ j = (j - 1) + 1
    BY <1>1
  <2> QED BY <2>1
<1>5. IsInjective(t)
  <2> SUFFICES ASSUME NEW i \in 1..(n - 1), NEW j \in 1..(n - 1), t[i] = t[j] PROVE i = j
    BY <1>1 DEF IsInjective
  <2>1. i + 1 \in DOMAIN s /\ j + 1 \in DOMAIN s /\ s[i + 1] = s[j + 1]
    BY <1>1, <1>3
  <2>2. i + 1 = j + 1
    BY <2>1 DEF IsInjective
  <2> QED BY <1>1, <2>2
<1>6. ToSet(t) = ToSet(s) \ {s[1]}
  <2>1. \A i \in 1..(n - 1) : s[i + 1] # s[1]
    BY <1>1, <1>3 DEF IsInjective
  <2>2. ToSet(t) \subseteq ToSet(s) \ {s[1]}
    BY <1>1, <1>3, <2>1 DEF ToSet
  <2>3. ToSet(s) \ {s[1]} \subseteq ToSet(t)
    <3> SUFFICES ASSUME NEW j \in 1..n, s[j] # s[1] PROVE s[j] \in ToSet(t)
      BY <1>1 DEF ToSet
    <3>1. PICK i \in 1..(n - 1) : j = i + 1
      BY <1>4
    <3>2. t[i] = s[j]
      BY <3>1, <1>1
    <3> QED BY <3>2, <1>1 DEF ToSet
  <2> QED BY <2>2, <2>3
<1>7. s[1] \in ToSet(s)
  BY <1>1 DEF ToSet
<1> QED BY <1>1, <1>2, <1>5, <1>6, <1>7 DEF t, n

-----------------------------------------------------------------------------
(* Linked lists, for any next pointers *)

ChainIn(nx, s, head) ==
  /\ head = IF s = <<>> THEN NULL ELSE s[1]
  /\ \A i \in DOMAIN s : nx[s[i]] = IF i = Len(s) THEN NULL ELSE s[i + 1]
ListIn(nx, s, head, tail) ==
  /\ ChainIn(nx, s, head)
  /\ tail = IF s = <<>> THEN NULL ELSE s[Len(s)]
Pointers == [Events -> Pointer]

\* A list does not depend on the pointers of the events it does not hold.
LEMMA ListFrame ==
  ASSUME NEW nx, NEW ny, NEW s \in Seq(Events), NEW h, NEW t,
         \A e \in ToSet(s) : ny[e] = nx[e]
  PROVE  /\ ChainIn(nx, s, h) => ChainIn(ny, s, h)
         /\ ListIn(nx, s, h, t) => ListIn(ny, s, h, t)
<1>1. \A i \in DOMAIN s : ny[s[i]] = nx[s[i]]
  BY DEF ToSet
<1> QED BY <1>1 DEF ChainIn, ListIn

\* What the pointers of a list tell of it.
LEMMA ListEnds ==
  ASSUME NEW nx, NEW s \in Seq(Events), NEW h, ChainIn(nx, s, h)
  PROVE  /\ h = NULL <=> s = <<>>
         /\ s # <<>> => h = s[1] /\ h \in Events
         /\ h \in Pointer
         /\ \A t : ListIn(nx, s, h, t) =>
              /\ t = NULL <=> s = <<>>
              /\ t \in Pointer
              /\ t # NULL => t \in ToSet(s)
<1>1. CASE s = <<>>
  BY <1>1 DEF ChainIn, ListIn, Pointer
<1>2. CASE s # <<>>
  <2>1. 1 \in DOMAIN s /\ Len(s) \in DOMAIN s /\ DOMAIN s = 1..Len(s)
    BY <1>2, LenProperties, EmptySeq
  <2>2. s[1] \in Events /\ s[Len(s)] \in Events
    BY <2>1, ElementOfSeq
  <2> QED BY <1>2, <2>1, <2>2, InboxAssumption DEF ChainIn, ListIn, Pointer, ToSet
<1> QED BY <1>1, <1>2

\* The event behind the first is the first of the rest.
LEMMA ListRest ==
  ASSUME NEW nx, NEW s \in Seq(Events), NEW h, ChainIn(nx, s, h), IsInjective(s), s # <<>>
  PROVE  ChainIn(nx, Tail(s), nx[h])
<1> DEFINE n == Len(s)
           r == Tail(s)
<1>1. /\ h = s[1] /\ Len(r) = n - 1 /\ r \in Seq(Events)
      /\ \A i \in 1..(n - 1) : r[i] = s[i + 1]
  BY RestOfSeq DEF ChainIn
<1>2. n \in Nat /\ n >= 1 /\ DOMAIN s = 1..n /\ DOMAIN r = 1..(n - 1)
  BY <1>1, LenProperties, EmptySeq
<1>3. r = <<>> <=> n = 1
  BY <1>1, <1>2, EmptySeq
<1>4. \A i \in 1..n : nx[s[i]] = IF i = n THEN NULL ELSE s[i + 1]
  BY <1>2 DEF ChainIn
<1> HIDE DEF n, r
<1>5. nx[h] = IF r = <<>> THEN NULL ELSE r[1]
  <2>1. nx[h] = IF 1 = n THEN NULL ELSE s[1 + 1]
    BY <1>1, <1>2, <1>4
  <2>2. n # 1 => 1 \in 1..(n - 1)
    BY <1>2
  <2> QED BY <2>1, <2>2, <1>1, <1>3
<1>6. \A i \in 1..(n - 1) : nx[r[i]] = IF i = n - 1 THEN NULL ELSE r[i + 1]
  <2> SUFFICES ASSUME NEW i \in 1..(n - 1)
               PROVE  nx[r[i]] = IF i = n - 1 THEN NULL ELSE r[i + 1]
    OBVIOUS
  <2>1. i + 1 \in 1..n /\ r[i] = s[i + 1]
    BY <1>1, <1>2
  <2>2. nx[r[i]] = IF i + 1 = n THEN NULL ELSE s[(i + 1) + 1]
    BY <2>1, <1>4
  <2>3. CASE i = n - 1
    BY <2>2, <2>3, <1>2
  <2>4. CASE i # n - 1
    <3>1. i + 1 \in 1..(n - 1) /\ i + 1 # n
      BY <2>4, <1>2
    <3> QED BY <2>2, <2>4, <3>1, <1>1
  <2> QED BY <2>3, <2>4
<1> QED BY <1>1, <1>2, <1>5, <1>6 DEF ChainIn, r, n

\* post and defer_ev: an event linked behind the last.
LEMMA ListGrows ==
  ASSUME NEW nx \in Pointers, NEW s \in Seq(Events), NEW h, NEW t, NEW e \in Events,
         ListIn(nx, s, h, t), IsInjective(s), e \notin ToSet(s), nx[e] = NULL
  PROVE  ListIn(IF t # NULL THEN [nx EXCEPT ![t] = e] ELSE nx, Append(s, e),
                IF t # NULL THEN h ELSE e, e)
<1> DEFINE n == Len(s)
           r == Append(s, e)
           ny == IF t # NULL THEN [nx EXCEPT ![t] = e] ELSE nx
<1>1. /\ r \in Seq(Events) /\ Len(r) = n + 1 /\ n \in Nat
      /\ \A i \in 1..n : r[i] = s[i] /\ s[i] \in Events
      /\ r[n + 1] = e /\ DOMAIN s = 1..n /\ DOMAIN r = 1..(n + 1)
      /\ r # <<>>
  BY AppendProperties, LenProperties, ElementOfSeq, EmptySeq
<1>2. s = <<>> <=> n = 0
  BY EmptySeq
<1>3. /\ \A i \in 1..n : nx[s[i]] = IF i = n THEN NULL ELSE s[i + 1]
      /\ h = IF s = <<>> THEN NULL ELSE s[1]
      /\ t = IF s = <<>> THEN NULL ELSE s[n]
  BY <1>1 DEF ListIn, ChainIn
<1>4. DOMAIN nx = Events
  BY DEF Pointers
<1>5. \A i \in 1..n : s[i] # e
  BY <1>1 DEF ToSet
<1> HIDE DEF n, r
<1>6. CASE s = <<>>
  <2>1. n = 0 /\ t = NULL /\ ny = nx
    BY <1>2, <1>3, <1>6
  <2>2. DOMAIN r = {1} /\ r[1] = e /\ Len(r) = 1
    BY <2>1, <1>1
  <2> QED BY <2>1, <2>2, <1>1 DEF ListIn, ChainIn, r
<1>7. CASE s # <<>>
  <2>1. n \in 1..n /\ t = s[n] /\ t \in Events /\ t # NULL /\ 1 \in 1..n /\ h = s[1]
    <3>1. n \in 1..n /\ 1 \in 1..n
      BY <1>1, <1>2, <1>7
    <3> QED BY <3>1, <1>1, <1>3, <1>7, InboxAssumption
  <2>2. ny = [nx EXCEPT ![t] = e]
    BY <2>1
  <2>3. ny[t] = e /\ ny[e] = NULL /\ \A i \in 1..n : i # n => ny[s[i]] = nx[s[i]]
    BY <2>1, <2>2, <1>1, <1>4, <1>5 DEF IsInjective
  <2> HIDE DEF ny
  <2>4. \A i \in 1..(n + 1) : ny[r[i]] = IF i = n + 1 THEN NULL ELSE r[i + 1]
    <3> SUFFICES ASSUME NEW i \in 1..(n + 1)
                 PROVE  ny[r[i]] = IF i = n + 1 THEN NULL ELSE r[i + 1]
      OBVIOUS
    <3>1. CASE i = n + 1
      BY <3>1, <1>1, <2>3
    <3>2. CASE i = n
      <4>1. i # n + 1 /\ r[i] = t /\ r[i + 1] = e
        BY <3>2, <2>1, <1>1
      <4> QED BY <4>1, <2>3
    <3>3. CASE i # n /\ i # n + 1
      <4>1. i \in 1..n /\ i + 1 \in 1..n
        BY <3>3, <1>1
      <4> QED BY <4>1, <3>3, <1>1, <1>3, <2>3
    <3> QED BY <3>1, <3>2, <3>3
  <2>5. r[1] = h
    BY <2>1, <1>1
  <2>6. ListIn(ny, r, h, e)
    BY <2>4, <2>5, <1>1 DEF ListIn, ChainIn
  <2> QED BY <2>1, <2>6 DEF ny, r
<1> QED BY <1>6, <1>7

\* sched_loop: a list linked in front of another.
LEMMA ListsJoin ==
  ASSUME NEW nx \in Pointers, NEW a \in Seq(Events), NEW b \in Seq(Events),
         NEW ha, NEW ta, NEW hb, NEW tb,
         ListIn(nx, a, ha, ta), ListIn(nx, b, hb, tb), IsInjective(a), IsInjective(b),
         ToSet(a) \cap ToSet(b) = {}, ha # NULL
  PROVE  ListIn([nx EXCEPT ![ta] = hb], a \o b, ha, IF tb = NULL THEN ta ELSE tb)
<1> DEFINE n == Len(a)
           k == Len(b)
           r == a \o b
           ny == [nx EXCEPT ![ta] = hb]
<1>1. /\ r \in Seq(Events) /\ Len(r) = n + k /\ n \in Nat /\ k \in Nat
      /\ \A i \in 1..(n + k) : r[i] = IF i <= n THEN a[i] ELSE b[i - n]
      /\ DOMAIN a = 1..n /\ DOMAIN b = 1..k /\ DOMAIN r = 1..(n + k)
      /\ \A i \in 1..n : a[i] \in Events
      /\ \A i \in 1..k : b[i] \in Events
  BY ConcatProperties, LenProperties, ElementOfSeq
<1>2. (a = <<>> <=> n = 0) /\ (b = <<>> <=> k = 0) /\ (r = <<>> <=> n + k = 0)
  BY <1>1, EmptySeq
<1>3. /\ \A i \in 1..n : nx[a[i]] = IF i = n THEN NULL ELSE a[i + 1]
      /\ \A i \in 1..k : nx[b[i]] = IF i = k THEN NULL ELSE b[i + 1]
      /\ ha = IF a = <<>> THEN NULL ELSE a[1]
      /\ ta = IF a = <<>> THEN NULL ELSE a[n]
      /\ hb = IF b = <<>> THEN NULL ELSE b[1]
      /\ tb = IF b = <<>> THEN NULL ELSE b[k]
  BY <1>1 DEF ListIn, ChainIn
<1>4. DOMAIN nx = Events
  BY DEF Pointers
<1>5. \A i \in 1..n : \A j \in 1..k : a[i] # b[j]
  BY <1>1 DEF ToSet
<1> HIDE DEF n, k, r
<1>6. a # <<>> /\ n >= 1 /\ n \in 1..n /\ 1 \in 1..n /\ ta = a[n] /\ ta \in Events
      /\ ha = a[1]
  <2>1. a # <<>>
    BY <1>3
  <2>2. n >= 1 /\ n \in 1..n /\ 1 \in 1..n
    BY <2>1, <1>1, <1>2
  <2> QED BY <2>1, <2>2, <1>1, <1>3
<1>7. /\ \A i \in 1..n : i \in 1..(n + k) /\ r[i] = a[i]
      /\ \A i \in 1..k : n + i \in 1..(n + k) /\ r[n + i] = b[i]
  <2>1. \A i \in 1..n : i \in 1..(n + k) /\ r[i] = a[i]
    BY <1>1
  <2>2. ASSUME NEW i \in 1..k PROVE n + i \in 1..(n + k) /\ r[n + i] = b[i]
    <3>1. n + i \in 1..(n + k) /\ ~(n + i <= n) /\ (n + i) - n = i
      BY <1>1
    <3> QED BY <3>1, <1>1
  <2> QED BY <2>1, <2>2
<1>8. ny[ta] = hb
  BY <1>4, <1>6
<1>9. /\ \A i \in 1..n : i # n => ny[a[i]] = nx[a[i]]
      /\ \A i \in 1..k : ny[b[i]] = nx[b[i]]
  BY <1>1, <1>4, <1>5, <1>6 DEF IsInjective
<1> HIDE DEF ny
<1>10. \A i \in 1..(n + k) : ny[r[i]] = IF i = n + k THEN NULL ELSE r[i + 1]
  <2> SUFFICES ASSUME NEW i \in 1..(n + k)
               PROVE  ny[r[i]] = IF i = n + k THEN NULL ELSE r[i + 1]
    OBVIOUS
  <2>1. CASE i < n
    <3>1. i \in 1..n /\ i + 1 \in 1..n /\ i # n /\ i # n + k
      BY <2>1, <1>1
    <3> QED BY <3>1, <1>3, <1>7, <1>9
  <2>2. CASE i = n
    <3>1. r[i] = ta /\ ny[r[i]] = hb
      BY <2>2, <1>6, <1>7, <1>8
    <3>2. CASE k = 0
      BY <2>2, <3>1, <3>2, <1>1, <1>2, <1>3
    <3>3. CASE k # 0
      <4>1. 1 \in 1..k /\ n # n + k
        BY <3>3, <1>1
      <4>2. r[n + 1] = b[1] /\ hb = b[1]
        BY <4>1, <3>3, <1>2, <1>3, <1>7
      <4> QED BY <2>2, <3>1, <4>1, <4>2
    <3> QED BY <3>2, <3>3
  <2>3. CASE i > n
    <3> DEFINE j == i - n
    <3>1. j \in 1..k /\ i = n + j /\ (i = n + k <=> j = k)
      BY <2>3, <1>1
    <3> HIDE DEF j
    <3>2. ny[r[i]] = IF j = k THEN NULL ELSE b[j + 1]
      BY <3>1, <1>3, <1>7, <1>9
    <3>3. j # k => r[i + 1] = b[j + 1]
      <4>1. j # k => j + 1 \in 1..k /\ i + 1 = n + (j + 1)
        BY <3>1, <1>1
      <4> QED BY <4>1, <1>7
    <3> QED BY <3>1, <3>2, <3>3
  <2> QED BY <2>1, <2>2, <2>3, <1>1
<1>11. r # <<>> /\ r[1] = ha
  BY <1>1, <1>2, <1>6, <1>7
<1>12. r[n + k] = IF tb = NULL THEN ta ELSE tb
  <2>1. CASE k = 0
    BY <2>1, <1>1, <1>2, <1>3, <1>6, <1>7
  <2>2. CASE k # 0
    <3>1. k \in 1..k /\ tb = b[k] /\ tb \in Events
      <4>1. k \in 1..k
        BY <2>2, <1>1
      <4> QED BY <4>1, <2>2, <1>1, <1>2, <1>3
    <3> QED BY <3>1, <1>7, InboxAssumption
  <2> QED BY <2>1, <2>2
<1> QED BY <1>1, <1>10, <1>11, <1>12 DEF ListIn, ChainIn, r, ny

-----------------------------------------------------------------------------
(* The events and the lists that hold them *)

Apart(a, b, c, d, e) ==
  /\ a \cap b = {} /\ a \cap c = {} /\ a \cap d = {} /\ a \cap e = {}
  /\ b \cap c = {} /\ b \cap d = {} /\ b \cap e = {}
  /\ c \cap d = {} /\ c \cap e = {} /\ d \cap e = {}
  /\ a \cup b \cup c \cup d \cup e = Events

HandsDiffer == \A t, u \in Threads : hand[t] = hand[u] /\ hand[t] # NULL => t = u

\* The inductive invariant: an event that is in no list has no successor, and the batch
\* is over when a pass is.
Storage ==
  /\ next \in Pointers /\ hand \in [Threads -> Pointer] /\ heap \subseteq Events
  /\ queue \in Seq(Events) /\ batch \in Seq(Events) /\ aside \in Seq(Events)
  /\ IsInjective(queue) /\ IsInjective(batch) /\ IsInjective(aside)
  /\ ListIn(next, queue, inbox_head, inbox_tail)
  /\ ListIn(next, aside, deferred_head, deferred_tail)
  /\ ChainIn(next, batch, evs)
  /\ HandsDiffer
  /\ Apart(heap, InHand, ToSet(queue), ToSet(batch), ToSet(aside))
  /\ \A e \in heap \cup InHand : next[e] = NULL
  /\ batch # <<>> => loop \in {"timers", "run"}

LEMMA StorageIsSound ==
  ASSUME Storage
  PROVE  ListsHoldWhatWasPosted /\ EventsInOnePlace /\ Lists \subseteq Pointer
<1>1. ListsHoldWhatWasPosted
  BY DEF Storage, ListsHoldWhatWasPosted, ListIn, ChainIn, IsList, IsChain
<1>2. EventsInOnePlace
  <2>1. /\ Places[1] = heap /\ Places[2] = InHand /\ Places[3] = ToSet(queue)
        /\ Places[4] = ToSet(batch) /\ Places[5] = ToSet(aside)
    BY DEF Places
  <2>2. \A i \in 1..5 : i = 1 \/ i = 2 \/ i = 3 \/ i = 4 \/ i = 5
    OBVIOUS
  <2>3. \A i, j \in 1..5 : i # j => Places[i] \cap Places[j] = {}
    <3> SUFFICES ASSUME NEW i \in 1..5, NEW j \in 1..5, i # j
                 PROVE  Places[i] \cap Places[j] = {}
      OBVIOUS
    <3> HIDE DEF Places
    <3> QED BY <2>1, <2>2 DEF Storage, Apart
  <2>4. UNION {Places[i] : i \in 1..5} = Events
    <3>1. 1 \in 1..5 /\ 2 \in 1..5 /\ 3 \in 1..5 /\ 4 \in 1..5 /\ 5 \in 1..5
      OBVIOUS
    <3> HIDE DEF Places
    <3>2. UNION {Places[i] : i \in 1..5}
            = heap \cup InHand \cup ToSet(queue) \cup ToSet(batch) \cup ToSet(aside)
      BY <2>1, <2>2, <3>1
    <3> QED BY <3>2 DEF Storage, Apart
  <2> QED BY <2>3, <2>4 DEF EventsInOnePlace, Storage, HandsDiffer
<1>3. Lists \subseteq Pointer
  BY ListEnds DEF Storage, Lists, ListIn
<1> QED BY <1>1, <1>2, <1>3

LEMMA EmptyList ==
  ASSUME NEW nx
  PROVE  /\ <<>> \in Seq(Events) /\ IsInjective(<<>>) /\ ToSet(<<>>) = {}
         /\ ChainIn(nx, <<>>, NULL) /\ ListIn(nx, <<>>, NULL, NULL)
<1>1. DOMAIN <<>> = {} /\ <<>> \in Seq(Events)
  BY EmptySeq
<1> QED BY <1>1 DEF IsInjective, ToSet, ChainIn, ListIn

LEMMA StorageInit == Init => Storage
<1> SUFFICES ASSUME Init PROVE Storage
  OBVIOUS
<1>1. next \in Pointers /\ hand \in [Threads -> Pointer] /\ heap = Events
  BY DEF Init, Pointers, Pointer
<1>2. InHand = {}
  BY DEF Init, InHand
<1>3. HandsDiffer
  BY DEF Init, HandsDiffer
<1>4. \A e \in heap \cup InHand : next[e] = NULL
  BY <1>1, <1>2 DEF Init
<1>5. Apart(heap, InHand, ToSet(queue), ToSet(batch), ToSet(aside))
  BY <1>1, <1>2, EmptyList DEF Init, Apart
<1> QED BY <1>1, <1>3, <1>4, <1>5, EmptyList DEF Init, Storage

\* A step that touches neither the lists nor the events.
LEMMA StorageKept ==
  ASSUME Storage, UNCHANGED <<lists, memory, contents>>,
         batch # <<>> => loop' \in {"timers", "run"}
  PROVE  Storage'
<1>1. InHand' = InHand
  BY DEF InHand, memory
<1> QED BY <1>1 DEF Storage, lists, memory, contents, HandsDiffer

LEMMA MakeEvStorage ==
  ASSUME Storage, NEW t \in Threads, NEW e \in Events, MakeEv(t, e)
  PROVE  Storage'
<1>1. /\ hand[t] = NULL /\ e \in heap /\ heap' = heap \ {e}
      /\ hand' = [hand EXCEPT ![t] = e] /\ UNCHANGED <<lists, contents, loop>>
  BY DEF MakeEv
<1>2. InHand' = InHand \cup {e} /\ hand' \in [Threads -> Pointer]
  BY <1>1, InboxAssumption DEF Storage, InHand, Pointer
<1>3. e \notin InHand
  BY <1>1 DEF Storage, Apart
<1>4. HandsDiffer'
  BY <1>1, <1>3 DEF Storage, HandsDiffer, InHand
<1>5. heap' \cup InHand' = heap \cup InHand
  BY <1>1, <1>2
<1>6. Apart(heap', InHand', ToSet(queue), ToSet(batch), ToSet(aside))
  BY <1>1, <1>2, <1>3 DEF Storage, Apart
<1> QED BY <1>1, <1>2, <1>4, <1>5, <1>6 DEF Storage, lists, contents

LEMMA LinkStorage ==
  ASSUME Storage, NEW t \in Threads, LinkAndSignal(t)
  PROVE  Storage'
<1> DEFINE e == hand[t]
<1>1. /\ e # NULL /\ next' = Linked(e)
      /\ inbox_head' = (IF inbox_tail # NULL THEN inbox_head ELSE e)
      /\ inbox_tail' = e /\ hand' = [hand EXCEPT ![t] = NULL]
      /\ queue' = Append(queue, e)
      /\ UNCHANGED <<deferred_head, deferred_tail, heap, evs, loop, batch, aside>>
  BY DEF LinkAndSignal
<1>2. e \in Events /\ e \in InHand /\ next[e] = NULL
  BY <1>1 DEF Storage, InHand, Pointer
<1>3. e \notin ToSet(queue) /\ e \notin ToSet(batch) /\ e \notin ToSet(aside) /\ e \notin heap
  BY <1>2 DEF Storage, Apart
<1>4. InHand' = InHand \ {e}
  BY <1>1, <1>2 DEF Storage, InHand, HandsDiffer
<1>5. hand' \in [Threads -> Pointer]
  BY <1>1 DEF Storage, Pointer
<1>6. HandsDiffer'
  BY <1>1, <1>5 DEF Storage, HandsDiffer
<1> HIDE DEF e
<1>7. inbox_tail # NULL => inbox_tail \in ToSet(queue) /\ inbox_tail \in Events
  BY ListEnds DEF Storage, ListIn, Pointer
<1>8. /\ next' = IF inbox_tail # NULL THEN [next EXCEPT ![inbox_tail] = e] ELSE next
      /\ next' \in Pointers
      /\ \A x \in Events : x \notin ToSet(queue) => next'[x] = next[x]
  BY <1>1, <1>2, <1>7 DEF Linked, Storage, Pointers, Pointer
<1>9. ListIn(next', queue', inbox_head', inbox_tail')
  <2>1. /\ next \in Pointers /\ queue \in Seq(Events) /\ IsInjective(queue)
        /\ ListIn(next, queue, inbox_head, inbox_tail)
    BY DEF Storage
  <2>2. ListIn(IF inbox_tail # NULL THEN [next EXCEPT ![inbox_tail] = e] ELSE next,
               Append(queue, e), IF inbox_tail # NULL THEN inbox_head ELSE e, e)
    BY <2>1, <1>2, <1>3, ListGrows
  <2> QED BY <2>2, <1>1, <1>8
<1>10. /\ queue' \in Seq(Events) /\ IsInjective(queue')
       /\ ToSet(queue') = ToSet(queue) \cup {e}
  BY <1>1, <1>2, <1>3, GrownSeq DEF Storage
<1>11. Apart(heap', InHand', ToSet(queue'), ToSet(batch'), ToSet(aside'))
  BY <1>1, <1>2, <1>4, <1>10 DEF Storage, Apart
<1>12. \A x \in ToSet(batch) \cup ToSet(aside) \cup heap \cup InHand :
          x \in Events /\ x \notin ToSet(queue)
  BY DEF Storage, Apart
<1>13. ListIn(next', aside, deferred_head, deferred_tail) /\ ChainIn(next', batch, evs)
  BY <1>8, <1>12, ListFrame DEF Storage
<1>14. \A x \in heap' \cup InHand' : next'[x] = NULL
  BY <1>1, <1>4, <1>8, <1>12 DEF Storage
<1> QED BY <1>1, <1>5, <1>6, <1>8, <1>9, <1>10, <1>11, <1>13, <1>14 DEF Storage

-----------------------------------------------------------------------------
(* The splice at the top of sched_loop *)

SplicedHead == IF PutsBack THEN NULL ELSE deferred_head
SplicedTail == IF PutsBack THEN NULL ELSE deferred_tail

LEMMA SpliceIsSound ==
  ASSUME Storage
  PROVE  /\ NextNow \in Pointers /\ QueueNow \in Seq(Events) /\ AsideNow \in Seq(Events)
         /\ IsInjective(QueueNow) /\ IsInjective(AsideNow)
         /\ ListIn(NextNow, QueueNow, HeadNow, TailNow)
         /\ ListIn(NextNow, AsideNow, SplicedHead, SplicedTail)
         /\ ChainIn(NextNow, batch, evs)
         /\ Apart(heap, InHand, ToSet(QueueNow), ToSet(batch), ToSet(AsideNow))
         /\ \A e \in heap \cup InHand : NextNow[e] = NULL
<1>1. deferred_head = NULL <=> aside = <<>>
  BY ListEnds DEF Storage, ListIn
<1>2. CASE PutsBack
  <2>1. /\ deferred_head # NULL /\ QueueNow = aside \o queue /\ AsideNow = <<>>
        /\ NextNow = [next EXCEPT ![deferred_tail] = inbox_head]
        /\ HeadNow = deferred_head /\ SplicedHead = NULL /\ SplicedTail = NULL
        /\ TailNow = IF inbox_tail = NULL THEN deferred_tail ELSE inbox_tail
    BY <1>2 DEF PutsBack, QueueNow, AsideNow, NextNow, HeadNow, TailNow, SplicedHead,
                SplicedTail
  <2>2. ToSet(aside) \cap ToSet(queue) = {}
    BY DEF Storage, Apart
  <2>3. /\ QueueNow \in Seq(Events) /\ IsInjective(QueueNow)
        /\ ToSet(QueueNow) = ToSet(aside) \cup ToSet(queue)
    BY <2>1, <2>2, JoinedSeq DEF Storage
  <2>4. ListIn(NextNow, QueueNow, HeadNow, TailNow)
    BY <2>1, <2>2, ListsJoin DEF Storage
  <2>5. deferred_tail \in ToSet(aside) /\ deferred_tail \in Events /\ inbox_head \in Pointer
    BY <1>1, <2>1, ListEnds DEF Storage, ListIn, Pointer
  <2>6. /\ NextNow \in Pointers
        /\ \A x \in Events : x \notin ToSet(aside) => NextNow[x] = next[x]
    BY <2>1, <2>5 DEF Storage, Pointers
  <2>7. \A x \in ToSet(batch) \cup heap \cup InHand : x \in Events /\ x \notin ToSet(aside)
    BY DEF Storage, Apart
  <2>8. ChainIn(NextNow, batch, evs)
    BY <2>6, <2>7, ListFrame DEF Storage
  <2>9. \A e \in heap \cup InHand : NextNow[e] = NULL
    BY <2>6, <2>7 DEF Storage
  <2>10. Apart(heap, InHand, ToSet(QueueNow), ToSet(batch), ToSet(AsideNow))
    BY <2>1, <2>3, EmptyList DEF Storage, Apart
  <2> QED BY <2>1, <2>3, <2>4, <2>6, <2>8, <2>9, <2>10, EmptyList
<1>3. CASE ~PutsBack
  <2>1. /\ NextNow = next /\ HeadNow = inbox_head /\ TailNow = inbox_tail
        /\ SplicedHead = deferred_head /\ SplicedTail = deferred_tail
    BY <1>3 DEF NextNow, HeadNow, TailNow, SplicedHead, SplicedTail
  <2>2. QueueNow = queue /\ AsideNow = aside
    <3>1. CASE locked_by = NoFiber
      <4>1. aside = <<>>
        BY <1>1, <1>3, <3>1 DEF PutsBack
      <4>2. queue \in Seq(Events)
        BY DEF Storage
      <4>3. <<>> \o queue = queue
        BY <4>2, ConcatEmptySeq
      <4> QED BY <3>1, <4>1, <4>3 DEF QueueNow, AsideNow
    <3>2. CASE locked_by # NoFiber
      BY <3>2 DEF QueueNow, AsideNow
    <3> QED BY <3>1, <3>2
  <2> QED BY <2>1, <2>2 DEF Storage
<1> QED BY <1>2, <1>3

LEMMA SplicedStorage ==
  ASSUME Storage, Spliced, inbox_head' = HeadNow, inbox_tail' = TailNow,
         queue' = QueueNow, aside' = AsideNow, batch = <<>>,
         UNCHANGED <<memory, evs, batch>>
  PROVE  Storage'
<1>1. InHand' = InHand /\ heap' = heap /\ hand' = hand /\ HandsDiffer'
  BY DEF InHand, memory, HandsDiffer, Storage
<1>2. next' = NextNow /\ deferred_head' = SplicedHead /\ deferred_tail' = SplicedTail
  BY DEF Spliced, SplicedHead, SplicedTail
<1> QED BY <1>1, <1>2, SpliceIsSound DEF Storage

LEMMA TakeStorage ==
  ASSUME Storage, batch = <<>>, TakeInbox
  PROVE  Storage'
<1>1. /\ InHand' = InHand /\ heap' = heap /\ hand' = hand /\ HandsDiffer'
      /\ loop' = "timers"
  BY DEF TakeInbox, InHand, memory, HandsDiffer, Storage
<1>2. /\ next' = NextNow /\ deferred_head' = SplicedHead /\ deferred_tail' = SplicedTail
      /\ evs' = HeadNow /\ inbox_head' = NULL /\ inbox_tail' = NULL
      /\ batch' = QueueNow /\ queue' = <<>> /\ aside' = AsideNow
  BY DEF TakeInbox, Spliced, SplicedHead, SplicedTail
<1>3. Apart(heap', InHand', ToSet(queue'), ToSet(batch'), ToSet(aside'))
  BY <1>1, <1>2, EmptyList, SpliceIsSound DEF Apart
<1>4. ChainIn(next', batch', evs')
  BY <1>2, SpliceIsSound DEF ListIn
<1> QED BY <1>1, <1>2, <1>3, <1>4, SpliceIsSound, EmptyList DEF Storage

-----------------------------------------------------------------------------
(* The batch *)

\* The event that is looked at, and what follows it.
LEMMA BatchFirst ==
  ASSUME Storage, evs # NULL
  PROVE  /\ batch # <<>> /\ evs = batch[1] /\ evs \in Events /\ evs \in ToSet(batch)
         /\ evs \notin heap /\ evs \notin InHand
         /\ evs \notin ToSet(queue) /\ evs \notin ToSet(aside)
         /\ After(batch, evs) = Tail(batch) /\ Tail(batch) \in Seq(Events)
         /\ IsInjective(Tail(batch)) /\ ToSet(Tail(batch)) = ToSet(batch) \ {evs}
         /\ ChainIn(next, Tail(batch), next[evs]) /\ evs = Head(batch)
<1>1. batch # <<>> /\ evs = batch[1]
  <2>1. batch \in Seq(Events) /\ ChainIn(next, batch, evs)
    BY DEF Storage
  <2>2. evs = NULL <=> batch = <<>>
    BY <2>1, ListEnds
  <2> QED BY <2>1, <2>2 DEF ChainIn
<1>2. ChainIn(next, Tail(batch), next[evs])
  BY <1>1, ListRest DEF Storage
<1>3. /\ batch[1] \in Events /\ batch[1] \in ToSet(batch) /\ Head(batch) = batch[1]
      /\ After(batch, batch[1]) = Tail(batch) /\ Tail(batch) \in Seq(Events)
      /\ IsInjective(Tail(batch)) /\ ToSet(Tail(batch)) = ToSet(batch) \ {batch[1]}
  BY <1>1, RestOfSeq DEF Storage
<1>4. /\ batch[1] \notin heap /\ batch[1] \notin InHand
      /\ batch[1] \notin ToSet(queue) /\ batch[1] \notin ToSet(aside)
  BY <1>3 DEF Storage, Apart
<1> QED BY <1>1, <1>2, <1>3, <1>4

LEMMA HandleStorage ==
  ASSUME Storage, Handle
  PROVE  Storage'
<1> DEFINE e == evs
<1>1. /\ evs # NULL /\ evs' = next[e] /\ heap' = heap \cup {e}
      /\ next' = [next EXCEPT ![e] = NULL] /\ batch' = After(batch, e) /\ loop = "run"
      /\ UNCHANGED <<inbox_head, inbox_tail, deferred_head, deferred_tail, hand, loop,
                     queue, aside>>
  BY DEF Handle, AtSched, Following
<1>2. /\ e \in Events /\ e \in ToSet(batch) /\ e \notin heap /\ e \notin InHand
      /\ e \notin ToSet(queue) /\ e \notin ToSet(aside)
      /\ batch' = Tail(batch) /\ batch' \in Seq(Events) /\ IsInjective(batch')
      /\ ToSet(batch') = ToSet(batch) \ {e} /\ ChainIn(next, batch', evs')
  BY <1>1, BatchFirst
<1> HIDE DEF e
<1>3. InHand' = InHand /\ HandsDiffer'
  BY <1>1 DEF InHand, HandsDiffer, Storage
<1>4. next' \in Pointers /\ \A x \in Events : x # e => next'[x] = next[x]
  BY <1>1, <1>2 DEF Storage, Pointers, Pointer
<1>5. \A x \in ToSet(queue) \cup ToSet(aside) \cup ToSet(batch') : x \in Events /\ x # e
  BY <1>2 DEF Storage, Apart
<1>6. /\ ListIn(next', queue, inbox_head, inbox_tail)
      /\ ListIn(next', aside, deferred_head, deferred_tail)
      /\ ChainIn(next', batch', evs')
  BY <1>2, <1>4, <1>5, ListFrame DEF Storage
<1>7. \A x \in heap' \cup InHand' : next'[x] = NULL
  <2>1. next'[e] = NULL
    BY <1>1, <1>2 DEF Storage, Pointers
  <2>2. \A x \in heap \cup InHand : x \in Events /\ x # e
    BY <1>2 DEF Storage, Apart
  <2> QED BY <2>1, <2>2, <1>1, <1>3, <1>4 DEF Storage
<1>8. Apart(heap', InHand', ToSet(queue), ToSet(batch'), ToSet(aside))
  BY <1>1, <1>2, <1>3 DEF Storage, Apart
<1> QED BY <1>1, <1>2, <1>3, <1>4, <1>6, <1>7, <1>8 DEF Storage

LEMMA DeferStorage ==
  ASSUME Storage, DeferEv
  PROVE  Storage'
<1> DEFINE e == evs
           nx == [next EXCEPT ![e] = NULL]
<1>1. /\ evs # NULL /\ evs' = next[e] /\ heap' = heap
      /\ next' = Deferred(e) /\ batch' = After(batch, e) /\ loop = "run"
      /\ deferred_head' = (IF deferred_tail # NULL THEN deferred_head ELSE e)
      /\ deferred_tail' = e /\ aside' = Append(aside, e)
      /\ UNCHANGED <<inbox_head, inbox_tail, hand, loop, queue>>
  BY DEF DeferEv, AtSched, Following, Kept
<1>2. /\ e \in Events /\ e \in ToSet(batch) /\ e \notin heap /\ e \notin InHand
      /\ e \notin ToSet(queue) /\ e \notin ToSet(aside)
      /\ batch' = Tail(batch) /\ batch' \in Seq(Events) /\ IsInjective(batch')
      /\ ToSet(batch') = ToSet(batch) \ {e} /\ ChainIn(next, batch', evs')
  BY <1>1, BatchFirst
<1> HIDE DEF e
<1>3. InHand' = InHand /\ HandsDiffer'
  BY <1>1 DEF InHand, HandsDiffer, Storage
<1>4. nx \in Pointers /\ nx[e] = NULL /\ \A x \in Events : x # e => nx[x] = next[x]
  BY <1>2 DEF Storage, Pointers, Pointer
<1>5. next' = IF deferred_tail # NULL THEN [nx EXCEPT ![deferred_tail] = e] ELSE nx
  BY <1>1 DEF Deferred
<1> HIDE DEF nx
<1>6. \A x \in ToSet(queue) \cup ToSet(aside) \cup ToSet(batch') \cup heap \cup InHand :
        x \in Events /\ x # e
  BY <1>2 DEF Storage, Apart
<1>7. ListIn(nx, aside, deferred_head, deferred_tail)
  BY <1>4, <1>6, ListFrame DEF Storage
<1>8. ListIn(next', aside', deferred_head', deferred_tail')
  <2>1. aside \in Seq(Events) /\ IsInjective(aside)
    BY DEF Storage
  <2>2. ListIn(IF deferred_tail # NULL THEN [nx EXCEPT ![deferred_tail] = e] ELSE nx,
               Append(aside, e), IF deferred_tail # NULL THEN deferred_head ELSE e, e)
    BY <2>1, <1>2, <1>4, <1>7, ListGrows
  <2> QED BY <2>2, <1>1, <1>5
<1>9. deferred_tail # NULL => deferred_tail \in ToSet(aside) /\ deferred_tail \in Events
  BY ListEnds DEF Storage, ListIn, Pointer
<1>10. /\ next' \in Pointers
       /\ \A x \in Events : x # e /\ x \notin ToSet(aside) => next'[x] = next[x]
  BY <1>2, <1>4, <1>5, <1>9 DEF Pointers, Pointer
<1>11. \A x \in ToSet(queue) \cup ToSet(batch') \cup heap \cup InHand : x \notin ToSet(aside)
  BY <1>2 DEF Storage, Apart
<1>12. ListIn(next', queue, inbox_head, inbox_tail) /\ ChainIn(next', batch', evs')
  BY <1>2, <1>6, <1>10, <1>11, ListFrame DEF Storage
<1>13. \A x \in heap' \cup InHand' : next'[x] = NULL
  BY <1>1, <1>3, <1>6, <1>10, <1>11 DEF Storage
<1>14. aside' \in Seq(Events) /\ IsInjective(aside') /\ ToSet(aside') = ToSet(aside) \cup {e}
  BY <1>1, <1>2, GrownSeq DEF Storage
<1>15. Apart(heap', InHand', ToSet(queue'), ToSet(batch'), ToSet(aside'))
  BY <1>1, <1>2, <1>3, <1>14 DEF Storage, Apart
<1> QED BY <1>1, <1>2, <1>3, <1>8, <1>10, <1>12, <1>13, <1>14, <1>15 DEF Storage

LEMMA StorageNext ==
  ASSUME Storage, [Next]_vars
  PROVE  Storage'
<1>1. ASSUME NEW t \in Posters \cup {Sched}, Poster(t) PROVE Storage'
  <2>1. t \in Threads
    BY DEF Threads
  <2>2. CASE LockToPost(t)
    <3>1. UNCHANGED <<lists, memory, contents, loop>>
      BY <2>2 DEF LockToPost
    <3> QED BY <3>1, StorageKept DEF Storage
  <2> QED BY <1>1, <2>1, <2>2, MakeEvStorage, LinkStorage DEF Poster
<1>2. CASE LockToStop \/ StopAndSignal \/ LockTop \/ Tick
  <2>1. UNCHANGED <<lists, memory, contents, loop>>
    BY <1>2 DEF LockToStop, StopAndSignal, LockTop, Tick
  <2> QED BY <2>1, StorageKept DEF Storage
<1>3. CASE Sleep \/ Stops
  <2>1. /\ Spliced /\ inbox_head' = HeadNow /\ inbox_tail' = TailNow
        /\ queue' = QueueNow /\ aside' = AsideNow /\ loop \in {"top", "wait"}
        /\ UNCHANGED <<memory, evs, batch>>
    BY <1>3 DEF Sleep, Stops, SeesStop
  <2>2. batch = <<>>
    BY <2>1 DEF Storage
  <2> QED BY <2>1, <2>2, SplicedStorage
<1>4. CASE TakeAtOnce \/ TakeAfterWait \/ TakeSpuriously
  <2>1. TakeInbox /\ loop \in {"top", "wait"}
    BY <1>4 DEF TakeAtOnce, TakeAfterWait, TakeSpuriously
  <2>2. batch = <<>>
    BY <2>1 DEF Storage
  <2> QED BY <2>1, <2>2, TakeStorage
<1>5. ASSUME NEW f \in Fibers, TimerFires(f) \/ TimerHeldBack(f) PROVE Storage'
  <2>1. UNCHANGED <<lists, memory, contents, loop>>
    BY <1>5 DEF TimerFires, TimerHeldBack
  <2> QED BY <2>1, StorageKept DEF Storage
<1>6. CASE TimersDone
  <2>1. UNCHANGED <<lists, memory, contents>> /\ loop' = "run"
    BY <1>6 DEF TimersDone
  <2> QED BY <2>1, StorageKept DEF Storage
<1>7. CASE EndPass
  <2>1. UNCHANGED <<lists, memory, contents>> /\ evs = NULL
    BY <1>7 DEF EndPass
  <2>2. batch = <<>>
    BY <2>1, ListEnds DEF Storage
  <2> QED BY <2>1, <2>2, StorageKept
<1>8. CASE ReapDone \/ UNCHANGED vars
  <2>1. UNCHANGED <<lists, memory, contents, loop>>
    BY <1>8 DEF ReapDone, vars
  <2> QED BY <2>1, StorageKept DEF Storage
<1> QED BY <1>1, <1>2, <1>3, <1>4, <1>5, <1>6, <1>7, <1>8, HandleStorage, DeferStorage
        DEF Next, SchedLoop


-----------------------------------------------------------------------------
(* The sleep: what the timed wait is given, and what it may miss *)

\* Tick: a nanosecond later.
LEMMA TickIsLater ==
  ASSUME clock \in Timespec, Tick
  PROVE  clock' \in Timespec /\ Nanoseconds(clock') = Nanoseconds(clock) + 1
<1>1. clock.tv_sec \in Nat /\ clock.tv_nsec \in 0..(NsPerSec - 1)
  BY DEF Timespec
<1>2. CASE clock.tv_nsec + 1 = NsPerSec
  <2>1. clock' = [tv_sec |-> clock.tv_sec + 1, tv_nsec |-> 0]
    BY <1>2 DEF Tick
  <2>2. clock' \in Timespec
    BY <2>1, <1>1, UnitsPositive DEF Timespec
  <2>3. Nanoseconds(clock') = (clock.tv_sec + 1) * NsPerSec + 0
    BY <2>1 DEF Nanoseconds
  <2>4. (clock.tv_sec + 1) * NsPerSec = clock.tv_sec * NsPerSec + 1 * NsPerSec
    <3>1. clock.tv_sec \in Int /\ 1 \in Int
      BY <1>1
    <3> QED BY <3>1, SecondsDistribute
  <2>5. clock.tv_sec * NsPerSec \in Nat
    BY <1>1, UnitsPositive
  <2> QED BY <1>1, <1>2, <2>2, <2>3, <2>4, <2>5, UnitsPositive DEF Nanoseconds
<1>3. CASE clock.tv_nsec + 1 # NsPerSec
  <2>1. clock' = [clock EXCEPT !.tv_nsec = @ + 1]
    BY <1>3 DEF Tick
  <2>2. clock' = [tv_sec |-> clock.tv_sec, tv_nsec |-> clock.tv_nsec + 1]
    BY <2>1 DEF Timespec
  <2>3. clock' \in Timespec
    BY <2>2, <1>1, <1>3, UnitsPositive DEF Timespec
  <2>4. clock.tv_sec * NsPerSec \in Nat
    BY <1>1, UnitsPositive
  <2> QED BY <1>1, <2>2, <2>3, <2>4 DEF Nanoseconds
<1> QED BY <1>2, <1>3

TimeTypes ==
  /\ loop \in {"top", "wait", "timers", "run", "stopped"}
  /\ locked_by \in Fibers \cup {NoFiber}
  /\ waiting_timer \subseteq Fibers /\ deadline \in [Fibers -> Timespec]
  /\ has_timer \in BOOLEAN /\ nearest \in Timespec /\ clock \in Timespec
  /\ ripe \subseteq Fibers /\ due \in [Fibers -> Nat]

TimerInv ==
  /\ \A f \in waiting_timer : due[f] = Nanoseconds(deadline[f])
  /\ loop # "timers" => ripe = {}
  /\ NoTimerEarly
  /\ NoTimerOverslept

SleepInv == TimeTypes /\ TimerInv /\ NoLostWakeup

LEMMA EpochIsTime == Epoch \in Timespec /\ Nanoseconds(Epoch) = 0
  BY UnitsPositive DEF Epoch, Timespec, Nanoseconds

LEMMA SleepInit == Init => SleepInv
<1> SUFFICES ASSUME Init PROVE SleepInv
  OBVIOUS
<1>1. TimeTypes
  BY EpochIsTime DEF Init, TimeTypes
<1>2. TimerInv
  BY DEF Init, TimerInv, NoTimerEarly, NoTimerOverslept
<1>3. NoLostWakeup
  BY DEF Init, NoLostWakeup
<1> QED BY <1>1, <1>2, <1>3 DEF SleepInv

\* A sequence that runs: its own timer is the only one that changes, and is later.
LEMMA ResumedTimers ==
  ASSUME TimeTypes, TimerInv, NEW f \in Fibers, Resumed(f)
  PROVE  /\ waiting_timer' \subseteq Fibers /\ deadline' \in [Fibers -> Timespec]
         /\ due' \in [Fibers -> Nat]
         /\ locked_by' \in Fibers \cup {NoFiber}
         /\ \A g \in waiting_timer' : due'[g] = Nanoseconds(deadline'[g])
         /\ \A g \in Fibers : g # f => due'[g] = due[g]
<1> USE DEF TimeTypes, TimerInv
<1>1. locked_by' \in Fibers \cup {NoFiber}
  BY DEF Resumed
<1>2. CASE /\ waiting_timer' = waiting_timer \ {f}
           /\ deadline' = [deadline EXCEPT ![f] = Epoch] /\ due' = [due EXCEPT ![f] = 0]
  BY <1>1, <1>2, EpochIsTime
<1>3. CASE \E ms \in Timeouts : Arms(f, ms)
  <2>1. PICK ms \in Timeouts : Arms(f, ms)
    BY <1>3
  <2> DEFINE d == ts_add_ms(clock, ms)
             n == Nanoseconds(clock) + ms * NsPerMs
  <2>2. ms \in Nat
    BY InboxAssumption
  <2>3. d \in Timespec /\ Nanoseconds(d) = n
    BY <2>2, AddMsIsLater
  <2>4. n \in Nat
    <3>1. Nanoseconds(d) = d.tv_sec * NsPerSec + d.tv_nsec /\ d.tv_sec \in Nat /\ d.tv_nsec \in Nat
      BY <2>3, UnitsPositive DEF Nanoseconds, Timespec
    <3>2. d.tv_sec * NsPerSec \in Nat
      BY <3>1, UnitsPositive
    <3> HIDE DEF d
    <3> QED BY <2>3, <3>1, <3>2
  <2>5. /\ waiting_timer' = waiting_timer \cup {f}
        /\ deadline' = [deadline EXCEPT ![f] = d] /\ due' = [due EXCEPT ![f] = n]
    BY <2>1 DEF Arms
  <2> HIDE DEF d, n
  <2> QED BY <1>1, <2>3, <2>4, <2>5
<1> QED BY <1>2, <1>3 DEF Resumed

LEMMA TakeKeepsTime ==
  ASSUME SleepInv, TakeInbox
  PROVE  SleepInv'
<1> USE DEF SleepInv, TimeTypes, TimerInv
<1>1. /\ ripe' = {f \in waiting_timer : ~ts_lt(clock, deadline[f])}
      /\ loop' = "timers" /\ cv' = "awake" /\ has_timer' = FALSE /\ nearest' = Epoch
      /\ UNCHANGED <<stop, locked_by, waiting_timer, deadline, due, clock>>
  BY DEF TakeInbox, timers
<1>2. TimeTypes'
  BY <1>1, EpochIsTime
<1>3. NoTimerEarly'
  <2> SUFFICES ASSUME NEW f \in ripe' PROVE due[f] <= Nanoseconds(clock)
    BY <1>1 DEF NoTimerEarly
  <2>1. f \in waiting_timer /\ deadline[f] \in Timespec /\ ~ts_lt(clock, deadline[f])
    BY <1>1
  <2>2. ~(Nanoseconds(clock) < Nanoseconds(deadline[f]))
    BY <2>1, LtIsEarlier
  <2>3. Nanoseconds(clock) \in Nat /\ Nanoseconds(deadline[f]) \in Nat
    BY <2>1, NanosecondsIsNat
  <2> QED BY <2>1, <2>2, <2>3
<1>4. TimerInv'
  BY <1>1, <1>3 DEF NoTimerOverslept
<1>5. NoLostWakeup'
  BY <1>1 DEF NoLostWakeup
<1> QED BY <1>2, <1>4, <1>5

LEMMA SleepNext ==
  ASSUME SleepInv, [Next]_vars
  PROVE  SleepInv'
<1> USE DEF SleepInv
<1> DEFINE Same == UNCHANGED <<loop, locked_by, timers, sleepVars, clock, ripe>>
<1>same. ASSUME Same PROVE TimeTypes' /\ TimerInv'
  BY <1>same DEF TimeTypes, TimerInv, NoTimerEarly, NoTimerOverslept, Runnable, LockedOut,
                 timers, sleepVars
<1>head. ASSUME UNCHANGED <<cv, stop, inbox_head>> PROVE NoLostWakeup'
  BY <1>head DEF NoLostWakeup
<1>1. ASSUME NEW t \in Posters \cup {Sched}, Poster(t) PROVE SleepInv'
  <2>1. CASE (\E e \in Events : MakeEv(t, e)) \/ LockToPost(t)
    <3>1. Same /\ UNCHANGED <<cv, stop, inbox_head>>
      BY <2>1 DEF MakeEv, LockToPost, lists
    <3> QED BY <3>1, <1>same, <1>head
  <2>2. CASE LinkAndSignal(t)
    <3>1. Same /\ cv' # "waiting"
      BY <2>2 DEF LinkAndSignal, Signalled
    <3> QED BY <3>1, <1>same DEF NoLostWakeup
  <2> QED BY <1>1, <2>1, <2>2 DEF Poster
<1>2. CASE LockToStop \/ LockTop
  <2>1. Same /\ UNCHANGED <<cv, stop, inbox_head>>
    BY <1>2 DEF LockToStop, LockTop, lists
  <2> QED BY <2>1, <1>same, <1>head
<1>3. CASE StopAndSignal
  <2>1. Same /\ cv' # "waiting"
    BY <1>3 DEF StopAndSignal, Signalled
  <2> QED BY <2>1, <1>same DEF NoLostWakeup
<1>4. CASE Sleep
  <2>1. /\ inbox_head' = NULL /\ ~stop /\ stop' = stop
        /\ has_timer' = (Runnable # {})
        /\ \/ Runnable = {} /\ nearest' = Epoch
           \/ \E f \in Fibers : Earliest(f) /\ nearest' = deadline[f]
        /\ loop = "top" /\ loop' = "wait"
        /\ UNCHANGED <<locked_by, waiting_timer, deadline, due, clock, ripe>>
    BY <1>4 DEF Sleep, timers
  <2>2. NoLostWakeup'
    BY <2>1 DEF NoLostWakeup
  <2>3. Runnable' = Runnable
    BY <2>1 DEF Runnable, LockedOut
  <2>4. TimeTypes'
    BY <2>1, EpochIsTime DEF TimeTypes
  <2>5. NoTimerOverslept'
    <3> SUFFICES ASSUME NEW f \in Runnable
                 PROVE  has_timer' /\ Nanoseconds(nearest') <= due[f]
      BY <2>1, <2>3 DEF NoTimerOverslept
    <3>1. PICK g \in Fibers : Earliest(g) /\ nearest' = deadline[g]
      BY <2>1
    <3>2. /\ f \in waiting_timer /\ f \in Fibers /\ ~ts_lt(deadline[f], deadline[g])
          /\ deadline[f] \in Timespec /\ deadline[g] \in Timespec
          /\ due[f] = Nanoseconds(deadline[f])
      BY <3>1 DEF Earliest, Runnable, TimeTypes, TimerInv
    <3>3. ~(Nanoseconds(deadline[f]) < Nanoseconds(deadline[g]))
      BY <3>2, LtIsEarlier
    <3>4. Nanoseconds(deadline[f]) \in Nat /\ Nanoseconds(deadline[g]) \in Nat
      BY <3>2, NanosecondsIsNat
    <3>5. Nanoseconds(nearest') <= due[f]
      BY <3>1, <3>2, <3>3, <3>4
    <3>6. has_timer'
      <4>1. Runnable # {}
        OBVIOUS
      <4> QED BY <2>1, <4>1
    <3> QED BY <3>5, <3>6
  <2> QED BY <2>1, <2>2, <2>4, <2>5 DEF TimerInv, NoTimerEarly
<1>5. CASE TakeAtOnce \/ TakeAfterWait \/ TakeSpuriously
  BY <1>5, TakeKeepsTime DEF TakeAtOnce, TakeAfterWait, TakeSpuriously
<1>6. CASE Stops
  <2>1. /\ loop' = "stopped" /\ cv' = "awake" /\ loop \in {"top", "wait"}
        /\ UNCHANGED <<locked_by, timers, sleepVars, clock, ripe>>
    BY <1>6 DEF Stops, SeesStop
  <2> QED BY <2>1 DEF TimeTypes, TimerInv, NoTimerEarly, NoTimerOverslept, NoLostWakeup,
                      timers, sleepVars
<1>7. ASSUME NEW f \in Fibers, TimerFires(f) PROVE SleepInv'
  <2>1. /\ loop = "timers" /\ Resumed(f) /\ ripe' = ripe \ {f}
        /\ UNCHANGED <<cv, stop, inbox_head, loop, sleepVars, clock>>
    BY <1>7 DEF TimerFires, AtSched, lists
  <2>2. TimeTypes'
    BY <2>1, ResumedTimers DEF TimeTypes, sleepVars
  <2>3. \A g \in waiting_timer' : due'[g] = Nanoseconds(deadline'[g])
    BY <2>1, ResumedTimers
  <2>4. NoTimerEarly'
    BY <2>1, ResumedTimers DEF NoTimerEarly, TimerInv, TimeTypes
  <2> QED BY <2>1, <2>2, <2>3, <2>4, <1>head DEF TimerInv, NoTimerOverslept
<1>8. ASSUME NEW f \in Fibers, TimerHeldBack(f) PROVE SleepInv'
  <2>1. /\ loop = "timers" /\ ripe' = ripe \ {f}
        /\ UNCHANGED <<cv, stop, inbox_head, loop, locked_by, timers, sleepVars, clock>>
    BY <1>8 DEF TimerHeldBack, AtSched, lists
  <2> QED BY <2>1, <1>head DEF TimeTypes, TimerInv, NoTimerEarly, NoTimerOverslept, timers,
                               sleepVars
<1>9. CASE TimersDone \/ EndPass
  <2>1. /\ loop' \in {"run", "top"} /\ ripe = {}
        /\ UNCHANGED <<cv, stop, inbox_head, locked_by, timers, sleepVars, clock, ripe>>
    BY <1>9 DEF TimersDone, EndPass, AtSched, lists, TimerInv
  <2> QED BY <2>1, <1>head DEF TimeTypes, TimerInv, NoTimerEarly, NoTimerOverslept, timers,
                               sleepVars
<1>10. CASE Handle
  <2>1. /\ loop = "run"
        /\ UNCHANGED <<cv, stop, inbox_head, loop, sleepVars, clock, ripe>>
        /\ (\E f \in Fibers : Resumed(f)) \/ UNCHANGED <<timers, locked_by>>
    BY <1>10 DEF Handle, AtSched
  <2>2. ripe = {}
    BY <2>1 DEF TimerInv
  <2>3. CASE \E f \in Fibers : Resumed(f)
    <3>1. PICK f \in Fibers : Resumed(f)
      BY <2>3
    <3>2. TimeTypes'
      BY <2>1, <3>1, ResumedTimers DEF TimeTypes, sleepVars
    <3>3. \A g \in waiting_timer' : due'[g] = Nanoseconds(deadline'[g])
      BY <3>1, ResumedTimers
    <3> QED BY <2>1, <2>2, <3>2, <3>3, <1>head DEF TimerInv, NoTimerEarly, NoTimerOverslept
  <2>4. CASE UNCHANGED <<timers, locked_by>>
    BY <2>1, <2>4, <1>same, <1>head
  <2> QED BY <2>1, <2>3, <2>4
<1>11. CASE DeferEv
  <2>1. Same /\ UNCHANGED <<cv, stop, inbox_head>>
    BY <1>11 DEF DeferEv
  <2> QED BY <2>1, <1>same, <1>head
<1>12. CASE Tick
  <2>1. UNCHANGED <<cv, stop, inbox_head, loop, locked_by, timers, sleepVars, ripe>>
    BY <1>12 DEF Tick, lists
  <2>2. clock' \in Timespec /\ Nanoseconds(clock') = Nanoseconds(clock) + 1
    BY <1>12, TickIsLater DEF TimeTypes
  <2>3. Nanoseconds(clock) \in Nat
    BY NanosecondsIsNat DEF TimeTypes
  <2>4. NoTimerEarly'
    <3> SUFFICES ASSUME NEW f \in ripe PROVE due[f] <= Nanoseconds(clock')
      BY <2>1 DEF NoTimerEarly, timers
    <3>1. due[f] \in Nat /\ due[f] <= Nanoseconds(clock)
      BY DEF TimeTypes, TimerInv, NoTimerEarly
    <3> QED BY <2>2, <2>3, <3>1
  <2> QED BY <2>1, <2>2, <2>4, <1>head DEF TimeTypes, TimerInv, NoTimerOverslept, Runnable,
                                       LockedOut, timers, sleepVars
<1>13. CASE ReapDone
  <2>1. /\ loop = "run" /\ locked_by' \in Fibers \cup {NoFiber}
        /\ UNCHANGED <<cv, stop, inbox_head, loop, timers, sleepVars, clock, ripe>>
    BY <1>13 DEF ReapDone, AtSched, lists
  <2> QED BY <2>1, <1>head DEF TimeTypes, TimerInv, NoTimerEarly, NoTimerOverslept, timers,
                               sleepVars
<1>14. CASE UNCHANGED vars
  BY <1>14, <1>same, <1>head DEF vars, lists, timers, sleepVars
<1> QED BY <1>1, <1>2, <1>3, <1>4, <1>5, <1>6, <1>7, <1>8, <1>9, <1>10, <1>11, <1>12, <1>13,
           <1>14
        DEF Next, SchedLoop

\* pthread_cond_wait: the scheduler never sleeps on an event that was posted or on a
\* stop that was asked for.
THEOREM NoWakeupIsLost == Spec => []NoLostWakeup
<1>1. SleepInv => NoLostWakeup
  BY DEF SleepInv
<1> QED BY <1>1, SleepInit, SleepNext, PTL DEF Spec

\* pthread_cond_timedwait: nor past the deadline of a timer the lock lets fire.
THEOREM NoTimerIsOverslept == Spec => []NoTimerOverslept
<1>1. SleepInv => NoTimerOverslept
  BY DEF SleepInv, TimerInv
<1> QED BY <1>1, SleepInit, SleepNext, PTL DEF Spec

\* sched_loop: no timer fires before its time, however the deadline carries.
THEOREM NoTimerIsEarly == Spec => []NoTimerEarly
<1>1. SleepInv => NoTimerEarly
  BY DEF SleepInv, TimerInv
<1> QED BY <1>1, SleepInit, SleepNext, PTL DEF Spec

-----------------------------------------------------------------------------
(* Types, and the theorems about the lists *)

ThreadTypes ==
  mtx \in Threads \cup {NoThread} /\ cv \in {"awake", "waiting", "signalled"} /\ stop \in BOOLEAN

InboxInv == ThreadTypes /\ Storage /\ SleepInv

LEMMA ThreadTypesNext ==
  ASSUME ThreadTypes, [Next]_vars
  PROVE  ThreadTypes'
<1> USE DEF ThreadTypes
<1>1. ASSUME NEW t \in Posters \cup {Sched}, Poster(t) PROVE ThreadTypes'
  BY <1>1 DEF Threads, Poster, MakeEv, LockToPost, LinkAndSignal, Signalled
<1>2. CASE LockToStop \/ StopAndSignal \/ LockTop \/ Tick
  BY <1>2 DEF Threads, LockToStop, StopAndSignal, LockTop, Tick, Signalled
<1>3. CASE Sleep \/ Stops
  BY <1>3 DEF Sleep, Stops
<1>4. CASE TakeAtOnce \/ TakeAfterWait \/ TakeSpuriously
  BY <1>4 DEF TakeAtOnce, TakeAfterWait, TakeSpuriously, TakeInbox
<1>5. ASSUME NEW f \in Fibers, TimerFires(f) \/ TimerHeldBack(f) PROVE ThreadTypes'
  BY <1>5 DEF TimerFires, TimerHeldBack
<1>6. CASE TimersDone \/ ReapDone \/ EndPass \/ Handle \/ DeferEv
  BY <1>6 DEF TimersDone, ReapDone, EndPass, Handle, DeferEv
<1>7. CASE UNCHANGED vars
  BY <1>7 DEF vars
<1> QED BY <1>1, <1>2, <1>3, <1>4, <1>5, <1>6, <1>7 DEF Next, SchedLoop

LEMMA InboxIsInvariant == Spec => []InboxInv
<1>1. Init => InboxInv
  BY SleepInit, StorageInit DEF Init, InboxInv, ThreadTypes
<1>2. InboxInv /\ [Next]_vars => InboxInv'
  BY SleepNext, StorageNext, ThreadTypesNext DEF InboxInv
<1> QED BY <1>1, <1>2, PTL DEF Spec

\* The types of the inbox: a deadline is always a time.
THEOREM TypeCorrect == Spec => []TypeOK
<1>1. InboxInv => TypeOK
  <2> SUFFICES ASSUME InboxInv PROVE TypeOK
    OBVIOUS
  <2>1. Lists \subseteq Pointer
    BY StorageIsSound DEF InboxInv
  <2>2. {queue, batch, aside} \subseteq Seq(Events)
    BY DEF InboxInv, Storage
  <2> QED BY <2>1, <2>2 DEF InboxInv, ThreadTypes, Storage, Pointers, SleepInv, TimeTypes, TypeOK
<1> QED BY <1>1, InboxIsInvariant, PTL

\* post, defer_ev and the splice: the lists hold what was posted, in its order.
THEOREM ListsAreSound == Spec => []ListsHoldWhatWasPosted
<1>1. InboxInv => ListsHoldWhatWasPosted
  BY StorageIsSound DEF InboxInv
<1> QED BY <1>1, InboxIsInvariant, PTL

\* calloc and free: no event leaks, none is freed while a list leads to it.
THEOREM NoEventIsLost == Spec => []EventsInOnePlace
<1>1. InboxInv => EventsInOnePlace
  BY StorageIsSound DEF InboxInv
<1> QED BY <1>1, InboxIsInvariant, PTL

-----------------------------------------------------------------------------
(* The inbox implements the queue *)

QInbox == [r \in {Sched} |-> queue]
QEvs == [r \in {Sched} |-> batch]
QDeferred == [r \in {Sched} |-> aside]
QLoop == [r \in {Sched} |-> AtLoop]
QLocked == {r \in {Sched} : locked_by # NoFiber}
QVars == <<QInbox, QEvs, QDeferred, QLoop, QLocked>>

LEMMA InitIsQueue == Init => Queue!Init
  BY DEF Init, Queue!Init, AtLoop

\* A step that the queue does not see.
LEMMA Unseen ==
  ASSUME UNCHANGED <<contents, locked_by>>, AtLoop' = AtLoop
  PROVE  UNCHANGED Queue!vars
  BY DEF contents, Queue!vars

LEMMA LastOfGrown ==
  ASSUME NEW S, NEW q \in Seq(S), NEW e \in S
  PROVE  Append(q, e) # <<>> /\ Front(Append(q, e)) = q /\ Last(Append(q, e)) = e
<1> DEFINE s == Append(q, e)
           n == Len(q)
<1>1. /\ s \in Seq(S) /\ Len(s) = n + 1 /\ s # <<>> /\ n \in Nat
      /\ \A i \in 1..n : s[i] = q[i] /\ s[i] \in S
      /\ s[n + 1] = e
  BY AppendProperties, LenProperties, ElementOfSeq
<1> HIDE DEF s
<1>2. Front(s) = SubSeq(s, 1, n)
  <2>1. Len(s) - 1 = n
    BY <1>1
  <2> QED BY <2>1 DEF Front
<1>3. /\ SubSeq(s, 1, n) \in Seq(S) /\ Len(SubSeq(s, 1, n)) = n
      /\ \A i \in 1..n : SubSeq(s, 1, n)[i] = s[i]
  <2>1. 1 \in Int /\ n \in Int
    BY <1>1
  <2> HIDE DEF n
  <2> QED BY <1>1, <2>1, SubSeqProperties
<1>4. Front(s) = q
  BY <1>1, <1>2, <1>3, SeqEqual
<1> QED BY <1>1, <1>4 DEF Last, s

LEMMA PostIsQueue ==
  ASSUME InboxInv, NEW t \in Threads, LinkAndSignal(t)
  PROVE  Queue!Post(Sched)
<1> DEFINE e == hand[t]
<1>1. /\ e # NULL /\ queue' = Append(queue, e)
      /\ UNCHANGED <<loop, locked_by, batch, aside>>
  BY DEF LinkAndSignal
<1>2. e \in Events /\ queue \in Seq(Events)
  BY <1>1 DEF InboxInv, Storage, Pointer
<1> HIDE DEF e
<1>3. queue' # <<>> /\ Queue!Front(queue') = queue /\ Queue!Last(queue') = e
  BY <1>1, <1>2, LastOfGrown DEF Queue!Front, Queue!Last, Front, Last
<1>4. AtLoop' = AtLoop
  BY <1>1 DEF AtLoop
<1> QED BY <1>1, <1>2, <1>3, <1>4 DEF Queue!Post

LEMMA RefilledIsNow ==
  /\ Queue!Refilled(Sched) = QueueNow
  /\ Queue!StillDeferred(Sched) = AsideNow
  BY DEF Queue!Refilled, Queue!StillDeferred, QueueNow, AsideNow

LEMMA NothingToTake ==
  ASSUME Storage
  PROVE  HeadNow = NULL <=> QueueNow = <<>>
  BY SpliceIsSound, ListEnds DEF ListIn

LEMMA SleepIsQueue ==
  ASSUME InboxInv, Sleep
  PROVE  Queue!Sleep(Sched)
<1>1. /\ loop = "top" /\ loop' = "wait" /\ HeadNow = NULL
      /\ queue' = QueueNow /\ aside' = AsideNow /\ UNCHANGED <<locked_by, batch>>
  BY DEF Sleep
<1>2. QueueNow = <<>>
  BY <1>1, NothingToTake DEF InboxInv
<1>3. queue' = queue /\ aside' = aside
  <2>1. queue \in Seq(Events) /\ aside \in Seq(Events)
    BY DEF InboxInv, Storage
  <2>2. CASE locked_by = NoFiber
    <3>1. aside \o queue = <<>>
      BY <1>2, <2>2 DEF QueueNow
    <3>2. aside = <<>> /\ queue = <<>>
      BY <2>1, <3>1, ConcatEqualIffEmpty
    <3> QED BY <1>1, <1>2, <2>2, <3>2 DEF AsideNow
  <2>3. CASE locked_by # NoFiber
    BY <1>1, <2>3 DEF QueueNow, AsideNow
  <2> QED BY <2>2, <2>3
<1> QED BY <1>1, <1>2, <1>3, RefilledIsNow DEF Queue!Sleep, AtLoop

LEMMA TakeIsQueue ==
  ASSUME InboxInv, TakeInbox, loop = "wait" \/ (loop = "top" /\ HeadNow # NULL)
  PROVE  Queue!Take(Sched)
<1>1. /\ batch' = QueueNow /\ queue' = <<>> /\ aside' = AsideNow
      /\ loop' = "timers" /\ locked_by' = locked_by
  BY DEF TakeInbox
<1>2. HeadNow # NULL => QueueNow # <<>>
  BY NothingToTake DEF InboxInv
<1> QED BY <1>1, <1>2, RefilledIsNow DEF Queue!Take, AtLoop

LEMMA StopsIsQueue ==
  ASSUME InboxInv, Stops
  PROVE  Queue!Stop(Sched)
<1>1. /\ loop \in {"top", "wait"} /\ loop' = "stopped"
      /\ queue' = QueueNow /\ aside' = AsideNow /\ UNCHANGED <<locked_by, batch>>
  BY DEF Stops, SeesStop
<1> QED BY <1>1, RefilledIsNow DEF Queue!Stop, AtLoop

LEMMA AnyRelock == Queue!MayRelock(Sched)
  BY DEF Queue!MayRelock

LEMMA HandleIsQueue ==
  ASSUME InboxInv, Handle
  PROVE  Queue!Handle(Sched)
<1>1. /\ loop = "run" /\ evs # NULL /\ batch' = After(batch, evs)
      /\ UNCHANGED <<queue, aside, loop>>
  BY DEF Handle, AtSched
<1>2. batch # <<>> /\ batch' = Tail(batch)
  BY <1>1, BatchFirst DEF InboxInv
<1> QED BY <1>1, <1>2, AnyRelock DEF Queue!Handle, AtLoop

LEMMA DeferIsQueue ==
  ASSUME InboxInv, DeferEv
  PROVE  Queue!PutAside(Sched)
<1>1. /\ loop = "run" /\ evs # NULL /\ locked_by # NoFiber /\ batch' = After(batch, evs)
      /\ aside' = Append(aside, evs) /\ UNCHANGED <<queue, loop, locked_by>>
  BY DEF DeferEv, AtSched
<1>2. batch # <<>> /\ batch' = Tail(batch) /\ evs = Head(batch)
  BY <1>1, BatchFirst DEF InboxInv
<1> QED BY <1>1, <1>2 DEF Queue!PutAside, AtLoop

LEMMA NextIsQueue ==
  ASSUME InboxInv, [Next]_vars
  PROVE  [Queue!Next]_(Queue!vars)
<1>1. ASSUME NEW t \in Posters \cup {Sched}, Poster(t) PROVE [Queue!Next]_(Queue!vars)
  <2>1. CASE (\E e \in Events : MakeEv(t, e)) \/ LockToPost(t)
    <3>1. UNCHANGED <<contents, locked_by, loop>>
      BY <2>1 DEF MakeEv, LockToPost
    <3> QED BY <3>1, Unseen DEF AtLoop
  <2>2. CASE LinkAndSignal(t)
    <3>1. Queue!Post(Sched)
      BY <2>2, PostIsQueue DEF Threads
    <3> QED BY <3>1 DEF Queue!Next
  <2> QED BY <1>1, <2>1, <2>2 DEF Poster
<1>2. CASE LockToStop \/ StopAndSignal \/ LockTop \/ Tick
  <2>1. UNCHANGED <<contents, locked_by, loop>>
    BY <1>2 DEF LockToStop, StopAndSignal, LockTop, Tick
  <2> QED BY <2>1, Unseen DEF AtLoop
<1>3. CASE Sleep
  BY <1>3, SleepIsQueue DEF Queue!Next
<1>4. CASE Stops
  BY <1>4, StopsIsQueue DEF Queue!Next
<1>5. CASE TakeAtOnce \/ TakeAfterWait \/ TakeSpuriously
  <2>1. TakeInbox /\ (loop = "wait" \/ (loop = "top" /\ HeadNow # NULL))
    BY <1>5 DEF TakeAtOnce, TakeAfterWait, TakeSpuriously
  <2>2. Queue!Take(Sched)
    BY <2>1, TakeIsQueue
  <2> QED BY <2>2 DEF Queue!Next
<1>6. ASSUME NEW f \in Fibers, TimerFires(f) PROVE [Queue!Next]_(Queue!vars)
  <2>1. loop = "timers" /\ UNCHANGED <<contents, loop>>
    BY <1>6 DEF TimerFires, AtSched
  <2>2. Queue!Relock(Sched)
    BY <2>1, AnyRelock DEF Queue!Relock, AtLoop, contents
  <2> QED BY <2>2 DEF Queue!Next
<1>7. ASSUME NEW f \in Fibers, TimerHeldBack(f) PROVE [Queue!Next]_(Queue!vars)
  <2>1. UNCHANGED <<contents, locked_by, loop>>
    BY <1>7 DEF TimerHeldBack
  <2> QED BY <2>1, Unseen DEF AtLoop
<1>8. CASE TimersDone
  <2>1. UNCHANGED <<contents, locked_by>> /\ loop = "timers" /\ loop' = "run"
    BY <1>8 DEF TimersDone, AtSched
  <2> QED BY <2>1, Unseen DEF AtLoop
<1>9. CASE EndPass
  <2>1. /\ UNCHANGED <<contents, locked_by>> /\ loop = "run" /\ loop' = "top" /\ evs = NULL
    BY <1>9 DEF EndPass, AtSched
  <2>2. batch = <<>>
    <3>1. batch \in Seq(Events) /\ ChainIn(next, batch, evs)
      BY DEF InboxInv, Storage
    <3> QED BY <2>1, <3>1, ListEnds
  <2>3. Queue!EndPass(Sched)
    BY <2>1, <2>2 DEF Queue!EndPass, AtLoop, contents
  <2> QED BY <2>3 DEF Queue!Next
<1>10. CASE Handle
  BY <1>10, HandleIsQueue DEF Queue!Next
<1>11. CASE DeferEv
  BY <1>11, DeferIsQueue DEF Queue!Next
<1>12. CASE ReapDone
  <2>1. loop = "run" /\ UNCHANGED <<contents, loop>>
    BY <1>12 DEF ReapDone, AtSched
  <2>2. Queue!Relock(Sched)
    BY <2>1, AnyRelock DEF Queue!Relock, AtLoop, contents
  <2> QED BY <2>2 DEF Queue!Next
<1>13. CASE UNCHANGED vars
  <2>1. UNCHANGED <<contents, locked_by, loop>>
    BY <1>13 DEF vars
  <2> QED BY <2>1, Unseen DEF AtLoop
<1> QED BY <1>1, <1>2, <1>3, <1>4, <1>5, <1>6, <1>7, <1>8, <1>9, <1>10, <1>11, <1>12, <1>13
        DEF Next, SchedLoop

\* The mutex, the condition variable and the linked lists are the queue that the
\* schedulers of Coseq use.
THEOREM InboxIsAQueue == Spec => ImplementsEventQueue
<1>1. InboxInv /\ [Next]_vars => [Queue!Next]_(Queue!vars)
  BY NextIsQueue
<1> QED BY <1>1, InitIsQueue, InboxIsInvariant, PTL DEF Spec, ImplementsEventQueue, Queue!Spec
=============================================================================
