------------------------------- MODULE Attention -------------------------------
(***************************************************************************)
(* The attention index of a segment: backend/app/services/attention.py.    *)
(* A factor in [0, 1] is an integer number of hundredths, 0 .. 100.        *)
(***************************************************************************)
EXTENDS Integers

Factor == 0 .. 100

(* Mutants: one side of the interval is forgotten. *)
NoFloor(x) == IF x > 100 THEN 100 ELSE x
NoCeiling(x) == IF x < 0 THEN 0 ELSE x

Clamp01(x) == IF x < 0 THEN 0 ELSE IF x > 100 THEN 100 ELSE x

(* int(round(x / 100)): Python rounds a half to the even neighbour. *)
Round100(x) ==
  LET q == x \div 100
      r == x % 100
  IN IF r < 50 \/ (r = 50 /\ q % 2 = 0) THEN q ELSE q + 1

ComputeIndex(s, c, t, a) == Round100(40 * s + 30 * c + 20 * t + 10 * a)

SaturationDays == 365

(* days since the last verification, or since the segment was created *)
ComputeRecency(days) ==
  IF days >= SaturationDays THEN 100 ELSE (100 * days) \div SaturationDays

(* row: a segment with factors s, c, t, a and the days since it was checked *)
Recalculate(row) ==
  LET t == ComputeRecency(row.since)
  IN [row EXCEPT !.t = t, !.index = ComputeIndex(row.s, row.c, t, row.a)]

(* Mutant: the index is recalculated before the factors are lowered. *)
CleanupTooEarly(row) ==
  [Recalculate([row EXCEPT !.since = 0]) EXCEPT !.c = Clamp01(@ - 35),
                                                !.s = Clamp01(@ - 30)]

ApplyCleanup(row) ==
  Recalculate([row EXCEPT !.since = 0, !.c = Clamp01(@ - 35),
                          !.s = Clamp01(@ - 30)])
=============================================================================
