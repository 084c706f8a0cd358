------------------------------ MODULE TimeSpec ------------------------------
(***************************************************************************)
(* The time helpers of coseq.c: a time is a struct timespec, seconds and   *)
(* nanoseconds, and a deadline is a time plus a number of milliseconds.    *)
(* The units are parameters so that TLC can count through a whole second.  *)
(***************************************************************************)
EXTENDS Integers

CONSTANTS
  MsPerSec,      \* 1000 in the code
  NsPerMs        \* 1000000 in the code

ASSUME UnitsAssumption == MsPerSec \in Nat \ {0} /\ NsPerMs \in Nat \ {0}

NsPerSec == MsPerSec * NsPerMs

\* What clock_gettime returns.
Timespec == [tv_sec : Nat, tv_nsec : 0..(NsPerSec - 1)]

\* now_ts when clock_gettime fails
Epoch == [tv_sec |-> 0, tv_nsec |-> 0]

\* mutant of Carried: nanoseconds run over
NotCarried(sec, nsec) == [tv_sec |-> sec, tv_nsec |-> nsec % NsPerSec]

\* another: nothing is carried
Uncarried(sec, nsec) == [tv_sec |-> sec, tv_nsec |-> nsec]

Carried(sec, nsec) ==
  IF nsec >= NsPerSec
  THEN [tv_sec |-> sec + 1, tv_nsec |-> nsec - NsPerSec]
  ELSE [tv_sec |-> sec, tv_nsec |-> nsec]

ts_add_ms(t, ms) ==
  Carried(t.tv_sec + ms \div MsPerSec, t.tv_nsec + (ms % MsPerSec) * NsPerMs)

ts_lt(a, b) ==
  \/ a.tv_sec < b.tv_sec
  \/ a.tv_sec = b.tv_sec /\ a.tv_nsec < b.tv_nsec

\* The reference: the nanoseconds a time counts.
Nanoseconds(t) == t.tv_sec * NsPerSec + t.tv_nsec
=============================================================================
