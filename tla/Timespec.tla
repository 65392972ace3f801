------------------------------ MODULE Timespec ------------------------------
(***************************************************************************)
(* Arithmetic on struct timespec (spin/timing.c and                        *)
(* spin_abstime_in_quanta in spin/spin.c), with nanoseconds in a record    *)
(* [sec, nsec] as the code keeps them: nsec need not be normalised.        *)
(***************************************************************************)
EXTENDS Integers

CONSTANT Second     \* nanoseconds in a second: 1000000000

ASSUME SecondAssumption == Second \in Nat \ {0}

(* The instant, or the interval, that ts stands for.                       *)
Total(ts) == ts.sec * Second + ts.nsec

(* clock_gettime at w nanoseconds after the epoch.                         *)
Gettime(w) == [sec |-> w \div Second, nsec |-> w % Second]

(* sem_timedwait rejects any other tv_nsec with EINVAL.                    *)
Valid(ts) == ts.nsec \in 0..(Second - 1)
-----------------------------------------------------------------------------
(* timing_timespec_sub computes x - y and leaves its carries in y.         *)

(* Faulty: the seconds that are borrowed are not added to y.               *)
BorrowForFree(x, y) ==
  LET nums == (y.nsec - x.nsec) \div Second + 1 IN
  IF x.nsec < y.nsec THEN [y EXCEPT !.nsec = @ - Second * nums] ELSE y

(* The first carry: y is raised a second or more, at the expense of nsec.  *)
Borrow(x, y) ==
  LET nums == (y.nsec - x.nsec) \div Second + 1 IN
  IF x.nsec < y.nsec
  THEN [sec |-> y.sec + nums, nsec |-> y.nsec - Second * nums]
  ELSE y

(* Faulty: nothing undoes a carry that an earlier call has left in y.      *)
CarriesKept(x, y) == Borrow(x, y)

(* The second carry, on what the first has left.                           *)
Carries(x, y) ==
  LET b    == Borrow(x, y)
      nums == (x.nsec - b.nsec) \div Second
  IN  IF x.nsec - b.nsec > Second
      THEN [sec |-> b.sec - nums, nsec |-> b.nsec + Second * nums]
      ELSE b

(* The difference, given y as the carries have left it.                    *)
Difference(x, y) == [sec |-> x.sec - y.sec, nsec |-> x.nsec - y.nsec]
-----------------------------------------------------------------------------
(* Faulty: nothing is carried into the seconds.                            *)
AbstimeNotCarried(ts, ahead) == [ts EXCEPT !.nsec = @ + ahead]

(* spin_abstime_in_quanta: ts, moved less than a second into the future.   *)
Abstime(ts, ahead) ==
  LET remainder == ts.nsec + ahead - Second IN
  IF remainder > 0
  THEN [sec |-> ts.sec + 1, nsec |-> remainder]
  ELSE [ts EXCEPT !.nsec = @ + ahead]
=============================================================================
