--------------------------- MODULE CoseqPrograms ---------------------------
(***************************************************************************)
(* What the theorems ask of the program, the bodies in Script.  coseq does *)
(* not check any of it: a sequence may return with requests outstanding, a *)
(* handler may lock.  Each condition is one on the text of the program, so *)
(* that TLC can say of a given one whether it meets it.                    *)
(***************************************************************************)
EXTENDS CoseqBase

\* A call that at most before replies are owed to leaves at most after of them;
\* coseq_gather leaves none, and a sequence that returns must be owed none.
Leaves(c, before, after) ==
  /\ c.op = "request_async" => before < after
  /\ c.op = "wait_reply" => before <= after + 1
  /\ c.op = "return" => before = 0
  /\ c.op \notin {"request_async", "wait_reply", "gather", "return"} => before <= after

\* The ways to bound, at each place of a body, the replies owed to it.
Ledgers(body) ==
  {owed \in [1..(Len(body) + 1) -> 0..Len(body)] :
     /\ owed[Len(body) + 1] = 0
     /\ \A i \in DOMAIN body : \A c \in body[i] : Leaves(c, owed[i], owed[i + 1])}

\* Every sequence collects the replies to what it asked before it returns, each by
\* a coseq_wait_reply of its own or all by a coseq_gather.
CollectsBeforeReturn ==
  \A m \in Modules : \A s \in DOMAIN Script[m] : Ledgers(Script[m][s]) # {}

\* The largest ledger of a body, when it has one: at each place the most that its
\* calls can still collect.
MostBefore(c, after, most) ==
  CASE c.op = "request_async" -> after - 1
    [] c.op = "wait_reply"    -> Min({after + 1, most})
    [] c.op = "gather"        -> most
    [] c.op = "return"        -> 0
    [] OTHER                  -> after
LargestLedger(body) ==
  LET n == Len(body)
      owed[i \in 1..(n + 1)] ==
        IF i = n + 1 THEN 0 ELSE Min({MostBefore(c, owed[i + 1], n) : c \in body[i]})
  IN owed

\* A condition TLC can evaluate, from which CollectsBeforeReturn follows.
HasLargestLedgers ==
  \A m \in Modules : \A s \in DOMAIN Script[m] :
    LargestLedger(Script[m][s]) \in Ledgers(Script[m][s])

-----------------------------------------------------------------------------
\* The calls there are in the sequences of a module.
Uses(m, op) ==
  \E s \in DOMAIN Script[m] : \E i \in DOMAIN Script[m][s] :
    \E c \in Script[m][s][i] : c.op = op

\* Places of a body that its sequence reaches only with the lock of its module.
HeldPlaces(body) ==
  {held \in SUBSET (1..(Len(body) + 1)) :
     /\ 1 \notin held
     /\ \A i \in DOMAIN body : i + 1 \in held =>
          \A c \in body[i] : c.op = "lock" \/ (i \in held /\ c.op # "unlock")}

\* In a module that some sequence locks, one that fans out has the lock from before its
\* first request until it has collected the last reply.
FansOutLocked ==
  \A m \in Modules : Uses(m, "lock") =>
    \A s \in DOMAIN Script[m] :
      \E owed \in Ledgers(Script[m][s]), held \in HeldPlaces(Script[m][s]) :
        \A i \in DOMAIN owed : owed[i] > 0 => i \in held

\* No notification handler locks its module.
HandlersDoNotLock ==
  \A m \in Modules : HasHandler(m) =>
    \A i \in DOMAIN Script[m]["recv_notify"] :
      \A c \in Script[m]["recv_notify"][i] : c.op # "lock"

\* Modules whose sequences take registrations share next_client_id: there is one.
Registers(m) == Uses(m, "reg_notify")
OnePublisher == \A m, n \in Modules : Registers(m) /\ Registers(n) => m = n

\* A sequence that takes a listener off its list replies afterwards, before it returns.
RepliesFrom(body, i) ==
  \E k \in DOMAIN body :
    /\ k >= i /\ \A c \in body[k] : c.op = "reply"
    /\ \A j \in i..k : \A c \in body[j] : c.op # "return"
UnregThenReplies ==
  \A m \in Modules : \A s \in DOMAIN Script[m] : \A i \in DOMAIN Script[m][s] :
    (\E c \in Script[m][s][i] : c.op = "unreg_notify") => RepliesFrom(Script[m][s], i + 1)

\* The mailbox serves one external thread.
AtMostOneClient == \A c, d \in Clients : c = d
=============================================================================
