------------------------------ MODULE Timespec ------------------------------
(***************************************************************************)
(* What main() uses of timespec.c: the difference of two readings of the   *)
(* clock.  A double of seconds is taken as the nanoseconds it stands for.  *)
(***************************************************************************)
EXTENDS Integers

CONSTANT
  NSEC   \* nanoseconds of a second (1000000000)

ASSUME TimespecAssumption == NSEC \in Nat \ {0}

Timespec == [tv_sec : Int, tv_nsec : Int]
timespec(sec, nsec) == [tv_sec |-> sec, tv_nsec |-> nsec]

(* The seconds that the two loops of timespec_normalise() take out of the  *)
(* nanoseconds, one at a time, until less than one is left.                *)
carry(nsec) == IF nsec >= 0 THEN nsec \div NSEC ELSE -((-nsec) \div NSEC)

(* A plausible slip: only nanoseconds that are too many are normalised.    *)
timespec_normalise_down(ts) ==
  timespec(ts.tv_sec + carry(ts.tv_nsec), ts.tv_nsec - NSEC * carry(ts.tv_nsec))

(* timespec_normalise(): less than a second of nanoseconds, and of the     *)
(* sign of the seconds.                                                    *)
timespec_normalise(ts) ==
  LET sec == ts.tv_sec + carry(ts.tv_nsec)
      nsec == ts.tv_nsec - NSEC * carry(ts.tv_nsec)
  IN  IF nsec < 0 /\ sec > 0 THEN timespec(sec - 1, nsec + NSEC)
      ELSE IF nsec > 0 /\ sec < 0 THEN timespec(sec + 1, nsec - NSEC)
      ELSE timespec(sec, nsec)

(* timespec_sub()                                                          *)
timespec_sub(ts1, ts2) ==
  LET t1 == timespec_normalise(ts1)
      t2 == timespec_normalise(ts2)
  IN  timespec_normalise(timespec(t1.tv_sec - t2.tv_sec, t1.tv_nsec - t2.tv_nsec))

(* timespec_to_double(), in nanoseconds                                    *)
timespec_to_double(ts) == NSEC * ts.tv_sec + ts.tv_nsec
=============================================================================
